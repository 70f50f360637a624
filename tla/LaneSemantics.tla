--------------------------- MODULE LaneSemantics ---------------------------
(***************************************************************************)
(* What the subgroup scheduler promises to the program: every lane of a    *)
(* subgroup runs its own sequential program, as if it were alone.  A lane  *)
(* is ready at some function, runs it, and leaves it by calling another    *)
(* one (remembering where to come back), by tail-calling one, or by        *)
(* returning to a remembered place; function Exit ends the lane.  Lanes    *)
(* that happen to move in the same step are independent of each other:     *)
(* nothing here knows about masks, join tokens or scheduling order.  Only  *)
(* a program compiled with a limit may be cut off, all lanes at once and   *)
(* none of them inside a function.                                         *)
(***************************************************************************)
EXTENDS Naturals, Sequences

CONSTANTS
  Lanes,   \* the lanes of the subgroup
  Fns,     \* the functions a lane can be sent to
  Exit     \* the address that ends a lane

VARIABLES
  limited, \* the program was compiled with a limit
  lane     \* lane[t] = [status, fn, rets]: what lane t does, where, and the
           \* addresses it can return to, innermost last

Statuses == {"new", "ready", "running", "exited"}

Init == limited \in BOOLEAN /\ lane = [t \in Lanes |-> [status |-> "new", fn |-> Exit, rets |-> <<>>]]

(* The first function starts with nowhere to return to.                    *)
Begin(l, m) ==
  /\ l.status = "new" /\ m.status = "ready"
  /\ m.fn \in Fns /\ m.rets = l.rets

(* A ready lane starts the very function it was sent to.                   *)
Enter(l, m) ==
  /\ l.status = "ready" /\ l.fn # Exit
  /\ m = [l EXCEPT !.status = "running"]

(* A running lane notes one more place to come back to.                    *)
Remember(l, m) ==
  /\ l.status = "running"
  /\ \E r \in Fns \cup {Exit} : m = [l EXCEPT !.rets = Append(@, r)]

(* A running lane moves on to another function and keeps what it noted.    *)
TailCall(l, m) ==
  /\ l.status = "running"
  /\ \E f \in Fns : m = [l EXCEPT !.status = "ready", !.fn = f]

(* A running lane goes back to a place it noted and forgets later notes.   *)
Return(l, m) ==
  /\ l.status = "running"
  /\ \E i \in 1 .. Len(l.rets) :
       m = [status |-> "ready", fn |-> l.rets[i], rets |-> SubSeq(l.rets, 1, i - 1)]

Finish(l, m) ==
  /\ l.status = "ready" /\ l.fn = Exit
  /\ m = [l EXCEPT !.status = "exited"]

Step(l, m) ==
  \/ Begin(l, m) \/ Enter(l, m) \/ Remember(l, m)
  \/ TailCall(l, m) \/ Return(l, m) \/ Finish(l, m)

(* Each lane goes its own way.                                             *)
Advance == \A t \in Lanes : lane'[t] = lane[t] \/ Step(lane[t], lane'[t])

(* The limit is reached.                                                   *)
Cut ==
  /\ limited /\ \A t \in Lanes : lane[t].status = "ready"
  /\ lane' = [t \in Lanes |-> [lane[t] EXCEPT !.status = "exited"]]

Next == (Advance \/ Cut) /\ UNCHANGED limited

Spec == Init /\ [][Next]_<<lane, limited>>
=============================================================================
