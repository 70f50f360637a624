------------------------------ MODULE KeyedMap ------------------------------
(***************************************************************************)
(* What src/common/dict.h promises its clients: a finite map, whose        *)
(* operations report what they found.                                      *)
(***************************************************************************)
CONSTANTS Keys, Values, None

VARIABLES map, reply

Absent == [k \in Keys |-> None]

Init == map = Absent /\ reply = None

(* An insertion replaces the value of a key and says whether it is new.    *)
Put(k, v) ==
  /\ reply' = [bool |-> map[k] = None]
  /\ map' = [map EXCEPT ![k] = v]

(* A removal says whether there was anything to remove.                    *)
Delete(k) ==
  /\ reply' = [bool |-> map[k] # None]
  /\ map' = [map EXCEPT ![k] = None]

Get(k) == reply' = [value |-> map[k]] /\ UNCHANGED map

Empty == reply' = None /\ map' = Absent

Next ==
  \/ \E k \in Keys, v \in Values : Put(k, v)
  \/ \E k \in Keys : Delete(k) \/ Get(k)
  \/ Empty

Spec == Init /\ [][Next]_<<map, reply>>
=============================================================================
