----------------------------- MODULE MCModules ------------------------------
(* Whole modules: what the Slim front end makes of a text, and what the    *)
(* passes over calls make of a few functions with a few calls.  A          *)
(* behaviour is about one of them.                                         *)
EXTENDS CallPasses, SlimFrontEnd

VARIABLE subject

CONSTANTS
  Marks,        \* what a function may be besides its calls, for the leaves
  MaxFacts,     \* calls and marks of a module, at most
  MaxCalls      \* calls of a module to be inlined, at most

(* The subsets of at most n elements.                                      *)
RECURSIVE AtMost(_, _)
AtMost(n, S) == IF n = 0 THEN {{}}
                ELSE LET P == AtMost(n - 1, S) IN P \cup {T \cup {x} : T \in P, x \in S}

Plain ==
  [pass |-> "mark_leaf_functions", calls |-> {}, indirect |-> {}, captured |-> {},
   escapes |-> {}, NoBody |-> {}, Internal |-> {}, NoInline |-> {}, Root |-> {}, inline_everything |-> FALSE]

(* A fact: one function calls another, or bears a mark.                    *)
Of(facts, mark) == {f \in Fn : <<f, mark>> \in facts}

MCLeafSources ==
  {[Plain EXCEPT
      !.calls = {[src |-> t[1], dst |-> t[2], tail |-> FALSE, nr |-> 1] :
                   t \in facts \cap (Fn \X Fn)},
      !.indirect = Of(facts, "indirect"), !.captured = Of(facts, "captured"),
      !.escapes = Of(facts, "escapes")] :
   facts \in AtMost(MaxFacts, Fn \X (Fn \cup Marks))}

(* The calls of a module; those in twice are made a second time.          *)
CallSets ==
  UNION {{once \cup {[c EXCEPT !.nr = 2] : c \in twice} :
            twice \in AtMost(MaxCalls - Cardinality(once), once)} :
         once \in AtMost(MaxCalls, [src : Fn, dst : Fn, tail : BOOLEAN, nr : {1}])}

(* At most one function is annotated, has no body or has its address       *)
(* taken; with inline_everything none is.                                  *)
Marked(mark, k, f) == IF k = mark THEN {f} ELSE {}

MCInlineSources ==
  {s \in
     {[Plain EXCEPT
         !.pass = "inline", !.calls = calls, !.inline_everything = (k = "everything"),
         !.Internal = Marked("Internal", k, f), !.NoInline = Marked("NoInline", k, f),
         !.NoBody = Marked("NoBody", k, f), !.Root = Marked("Root", k, f), !.captured = Marked("captured", k, f)] :
      calls \in CallSets, f \in Fn,
      k \in {"plain", "everything", "Internal", "NoInline", "NoBody", "Root", "captured"}} :
   InternalCallsInternal(s) /\ OnlyBodiesCall(s)}

(* What the passes hold before they start.                                 *)
MCInputs ==
  {[callees |-> [f \in Fn |-> {}], is_address_captured |-> {}, calls_indirect |-> {},
    is_recursive |-> {}, escapes |-> {}]}
MCModules ==
  {[calls |-> {}, NoBody |-> {}, Internal |-> {}, NoInline |-> {}, Root |-> {}, is_address_captured |-> {},
    is_recursive |-> {}, inline_everything |-> FALSE]}

Symmetry == Permutations(Fn)

SlimAtRest ==
  family = "operators" /\ choice = 1 /\ layout = "tight" /\ stage = "text" /\ compiled = EmptyModule
  /\ weaken = FALSE /\ cleanup_todo = FALSE

(* What a behaviour is not about is at rest in one of its initial states.  *)
MCInit ==
  \/ subject = "text" /\ source = Plain /\ SlimInit /\ PassesBefore
  \/ subject = "calls" /\ SlimAtRest /\ PassesInit
MCNext ==
  \/ subject = "text" /\ SlimNext /\ UNCHANGED <<subject, passesvars>>
  \/ subject = "calls" /\ PassesNext /\ UNCHANGED <<subject, slimvars>>
MCSpec == MCInit /\ [][MCNext]_<<subject, slimvars, passesvars>>
=============================================================================
