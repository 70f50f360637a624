--------------------------- MODULE LeafFunctions ---------------------------
(***************************************************************************)
(* mark_leaf_functions.c: which functions keep plain calls.  A leaf        *)
(* function, annotated "Leaf", is called with an ordinary call; all others *)
(* are turned by lower_callf into code that receives a join point.         *)
(*                                                                         *)
(* is_leaf_fn walks the call graph depth first and memoises its answers in *)
(* ctx->fns, a hash table of FnInfo records.  A frame of the walk holds a  *)
(* pointer into that table across its recursive calls; the table may be    *)
(* reallocated below it, after which the pointer names freed memory.       *)
(*                                                                         *)
(* The call graph is an input.  Its flags are those CallGraph computes: a  *)
(* function is recursive when it can reach itself.                         *)
(***************************************************************************)
EXTENDS IrModule, Integers, FiniteSets

CONSTANTS
  InitCapacity,   \* buckets of a new hash table (32)
  Inputs          \* the call graphs to analyse

(* callees: the functions called directly; is_address_captured,            *)
(* calls_indirect and is_recursive: CGNode's flags; escapes: functions     *)
(* with a join point that leaves its control, or a join on one they do not *)
(* bind.                                                                   *)
InputType ==
  [callees : [Fn -> SUBSET Fn], is_address_captured : SUBSET Fn,
   calls_indirect : SUBSET Fn, is_recursive : SUBSET Fn, escapes : SUBSET Fn]

ASSUME LeafAssumption ==
  /\ IsFiniteSet(Fn)
  /\ InitCapacity \in Nat \ {0}
  /\ Inputs \subseteq InputType

VARIABLES
  graph,          \* the call graph and the facts about bodies
  info,           \* ctx->fns: from the functions seen to [is_leaf, done]
  capacity,       \* its buckets
  generation,     \* how often it has been reallocated
  depth,          \* active calls of is_leaf_fn
  frames,         \* frames[1 .. depth]: function, callees left, age of info
  processed,      \* functions the pass has rewritten
  annotated       \* those it annotated "Leaf"

table == <<info, capacity, generation>>
walk == <<depth, frames>>
vars == <<graph, info, capacity, generation, depth, frames, processed, annotated>>

Callees(f) == graph.callees[f]

(* Why is_leaf_fn refuses a function before it looks at its callees.       *)
CannotBeLeaf_IndirectToo(f) == f \in graph.is_address_captured \cup graph.is_recursive
CannotBeLeaf(f) ==
  f \in graph.is_address_captured \cup graph.is_recursive \cup graph.calls_indirect

Seen == DOMAIN info

(* dict_insert grows the table first when it is more than 60% full.        *)
MustGrow == 5 * Cardinality(Seen) > 3 * capacity
Grown ==
  /\ capacity' = IF MustGrow THEN 2 * capacity ELSE capacity
  /\ generation' = IF MustGrow THEN generation + 1 ELSE generation

WithInfo(t, f, leaf, done) ==
  [g \in DOMAIN t \cup {f} |-> IF g = f THEN [is_leaf |-> leaf, done |-> done] ELSE t[g]]

Frame(f) == [fn |-> f, todo |-> Callees(f), generation |-> generation']
Top == frames[depth]

(* The loop over callees takes answer `leaf` for callee c in the frame at  *)
(* depth d.  The pointer `info` it writes through was taken before the     *)
(* calls: if the table moved since, the write is lost.                     *)
TakeAnswer_IgnoresCallee(t, d, leaf) == t
TakeAnswer(t, d, leaf) ==
  IF leaf \/ frames[d].generation # generation' THEN t
  ELSE WithInfo(t, frames[d].fn, FALSE, TRUE)

(* What process makes of the answer for the function it is rewriting.      *)
Conclude(f, leaf) ==
  /\ processed' = processed \cup {f}
  /\ annotated' = IF leaf /\ f \notin graph.escapes THEN annotated \cup {f} ELSE annotated

(* The caller asks about c: a frame's next callee, or process's function.  *)
Asks(c) == IF depth = 0 THEN c \in Fn \ processed ELSE c \in Top.todo

(* The frames once the caller at the top has received its answer for c.    *)
Asked(c) == [i \in 1 .. depth |-> IF i < depth THEN frames[i]
                                  ELSE [Top EXCEPT !.todo = @ \ {c}]]

(* A call of is_leaf_fn that returns at once, with the table t.            *)
Answer(c, t, leaf) ==
  IF depth = 0
    THEN info' = t /\ UNCHANGED walk /\ Conclude(c, leaf)
    ELSE /\ info' = TakeAnswer(t, depth, leaf)
         /\ frames' = Asked(c)
         /\ UNCHANGED <<depth, processed, annotated>>

(* c has been seen.  If it is still being examined further down it is part *)
(* of a recursive chain and is ruled out on the spot.                      *)
Revisited(c) == IF info[c].done THEN info ELSE WithInfo(info, c, FALSE, TRUE)
AskSeen(c) ==
  /\ Asks(c) /\ c \in Seen
  /\ UNCHANGED <<graph, capacity, generation>>
  /\ Answer(c, Revisited(c), Revisited(c)[c].is_leaf)

(* c is new, and one of its flags rules it out.                            *)
AskRuledOut(c) ==
  /\ Asks(c) /\ c \notin Seen /\ CannotBeLeaf(c)
  /\ Grown
  /\ UNCHANGED graph
  /\ Answer(c, WithInfo(info, c, FALSE, TRUE), FALSE)

(* c is new and its callees have to be examined.                           *)
AskCallees(c) ==
  /\ Asks(c) /\ c \notin Seen /\ ~CannotBeLeaf(c)
  /\ Grown
  /\ info' = WithInfo(info, c, FALSE, FALSE)
  /\ depth' = depth + 1
  /\ frames' = [i \in 1 .. depth + 1 |-> IF i <= depth THEN Asked(c)[i] ELSE Frame(c)]
  /\ UNCHANGED <<graph, processed, annotated>>

(* All callees have been examined: the entry is fetched again, and what    *)
(* nothing has ruled out is a leaf.                                        *)
Finished(f) == IF info[f].done THEN info ELSE WithInfo(info, f, TRUE, TRUE)

Finish ==
  /\ depth > 0 /\ Top.todo = {}
  /\ UNCHANGED <<graph, capacity, generation>>
  /\ LET f == Top.fn
         leaf == Finished(f)[f].is_leaf
     IN  IF depth = 1
           THEN info' = Finished(f) /\ Conclude(f, leaf)
           ELSE /\ info' = TakeAnswer(Finished(f), depth - 1, leaf)
                /\ UNCHANGED <<processed, annotated>>
  /\ depth' = depth - 1
  /\ frames' = [i \in 1 .. depth - 1 |-> frames[i]]

Init ==
  /\ graph \in Inputs
  /\ info = [f \in {} |-> [is_leaf |-> FALSE, done |-> FALSE]]
  /\ capacity = InitCapacity /\ generation = 0
  /\ depth = 0 /\ frames = [i \in 1 .. 0 |-> 0]
  /\ processed = {} /\ annotated = {}

Next == \/ \E c \in Fn : AskSeen(c) \/ AskRuledOut(c) \/ AskCallees(c)
        \/ Finish

Spec == Init /\ [][Next]_vars

-----------------------------------------------------------------------------
TypeOK ==
  /\ graph \in InputType
  /\ Seen \subseteq Fn
  /\ info \in [Seen -> [is_leaf : BOOLEAN, done : BOOLEAN]]
  /\ capacity \in Nat \ {0} /\ generation \in Nat /\ depth \in Nat
  /\ frames \in [1 .. depth -> [fn : Fn, todo : SUBSET Fn, generation : Nat]]
  /\ processed \subseteq Fn /\ annotated \subseteq processed

IsLeaf(f) == f \in Seen /\ info[f].done /\ info[f].is_leaf

(* The memoised answers are closed under calls: every function found to be *)
(* a leaf calls only functions found to be leaves.  Line 77 of             *)
(* mark_leaf_functions.c says so of is_leaf_fn; lower_callf relies on it   *)
(* when it keeps a leaf's calls as they are.                               *)
LeavesCallLeaves == \A f \in Seen : IsLeaf(f) => \A g \in Callees(f) : IsLeaf(g)

=============================================================================
