------------------------------ MODULE MCStorage ------------------------------
(* What everything else is kept in: a hash table, the bump allocator for   *)
(* requests of any size, and an IR arena with its interned strings, lists  *)
(* and nodes.  A behaviour exercises one of them.                          *)
EXTENDS Dict, IrArena

VARIABLE subject

(* Two keys collide at the last bucket of a small table and of one twice   *)
(* as large, so that scans wrap; the next hashes follow theirs.            *)
MCHash == [k \in Keys |-> IF k <= 2 THEN 2 * init_size - 1 ELSE 2 * init_size + k - 3]

(* A token ends its file or is followed by another.                        *)
MCRemainder == [c \in Texts |-> IF c = "x" THEN {"x", "xy"} ELSE {c}]
(* Requests for nothing, less than a slot, a block, more than a block; a   *)
(* text that is larger than a block, too.                                  *)
MCSizes == {0, 1, 6, 9}
MCStringSize == [c \in Texts |-> IF c = "xy" THEN 7 ELSE 2]

MCInit == subject \in {"table", "blocks", "arena"} /\ DictInit /\ IrInit

MCNext ==
  \/ subject = "table" /\ DictNext /\ UNCHANGED <<subject, vars, irvars>>
  \/ subject = "blocks" /\ Next /\ UNCHANGED <<subject, dictvars, irvars>>
  \/ subject = "arena" /\ IrNext /\ UNCHANGED <<subject, dictvars>>

MCSpec == MCInit /\ [][MCNext]_<<subject, dictvars, vars, irvars>>
=============================================================================
