---------------------------- MODULE MCLeafChain ----------------------------
(* A chain of calls, as long as it takes to fill the hash table of the     *)
(* code past its threshold: function n calls function n + 1, and the last  *)
(* one has its address taken.                                              *)
EXTENDS LeafFunctions

CONSTANT ChainLength

MCFn == 1 .. ChainLength

MCInputs ==
  {[callees |-> [f \in Fn |-> Fn \cap {f + 1}], is_address_captured |-> {ChainLength},
    calls_indirect |-> {}, is_recursive |-> {}, escapes |-> {}]}
=============================================================================
