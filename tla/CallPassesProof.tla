-------------------------- MODULE CallPassesProof --------------------------
(***************************************************************************)
(* The inliner and mark_leaf_functions, each by itself and given the call  *)
(* graph of its module, for every module.                                  *)
(*                                                                         *)
(* Inlining.  A call left alone although its callee is to be dropped would *)
(* have been refused for the sake of an Internal host.  Internal functions *)
(* call only each other, so everything inlined below such a host is        *)
(* Internal; then the call is in an Internal function, was not counted as  *)
(* inlineable, and its callee is not to be dropped.  Each body being       *)
(* rewritten reaches those inside it, and none of those can reach itself,  *)
(* since the graph's is_recursive is exact; so no body is inside itself.   *)
(*                                                                         *)
(* Leaves.  A function under examination is not a leaf yet.  If nothing    *)
(* has ruled it out, all callees it is done with are leaves; so when it is *)
(* declared one, it calls leaves only.  What is ruled out bears a mark, or *)
(* calls something that was ruled out, or is met again below itself and so *)
(* is recursive.  All this as long as the functions fit into the first     *)
(* hash table; for larger modules it is false: see the run                 *)
(* leaf_table_grows.                                                       *)
(***************************************************************************)
EXTENDS CallPasses, CallGraphProof, FiniteSetTheorems

-----------------------------------------------------------------------------
(* Inlining.                                                               *)

(* Whatever is rewritten inside an Internal host is Internal.              *)
HostInternal ==
  \A i \in 1 .. nesting : bodies[1].fn \in module.Internal => bodies[i].fn \in module.Internal

(* The calls left in a body are calls of its own function.                 *)
WorkOfFrame ==
  \A i \in 1 .. nesting : \A c \in bodies[i].work : c \in module.calls /\ c.src = bodies[i].fn

DroppedForGood == \A f \in dropped : can_be_eliminated(f)
KeptAlive == \A k \in kept : ~can_be_eliminated(k.callee)

InliningInv == InliningTypeOK /\ HostInternal /\ WorkOfFrame /\ DroppedForGood /\ KeptAlive

(* Calls(f) and CallsTo(f) are sets of calls, and finite.                  *)
LEMMA CallSetsType ==
  ASSUME InliningTypeOK, NEW f \in Fn
  PROVE  /\ Calls(f) \subseteq Call /\ IsFiniteSet(CallsTo(f))
         /\ InlineableCallsTo(f) \subseteq CallsTo(f)
<1>1. module.calls \subseteq Call /\ IsFiniteSet(module.calls) BY DEF InliningTypeOK, ModuleType
<1>2. CallsTo(f) \subseteq module.calls /\ Calls(f) \subseteq module.calls BY DEF CallsTo, Calls
<1>3. IsFiniteSet(CallsTo(f)) BY <1>1, <1>2, FS_Subset
<1> QED BY <1>1, <1>2, <1>3 DEF InlineableCallsTo

(* If a function is to be dropped, each of its calls is inlineable.        *)
LEMMA EliminatedCallsInlineable ==
  ASSUME InliningTypeOK, NEW f \in Fn, can_be_eliminated(f)
  PROVE  InlineableCallsTo(f) = CallsTo(f)
<1>1. Cardinality(CallsTo(f)) = Cardinality(InlineableCallsTo(f)) BY DEF can_be_eliminated
<1> QED BY <1>1, CallSetsType, FS_Subset

(* What KeepCall keeps is not a call to a function to be dropped.          *)
LEMMA KeptIsAlive ==
  ASSUME InliningInv, nesting > 0, NEW c \in module.calls, c \in TopBody.work, ~Inlines(c)
  PROVE  ~can_be_eliminated(c.dst)
<1>1. c.dst \in Fn /\ nesting \in 1 .. nesting BY DEF InliningInv, InliningTypeOK, ModuleType, Call
<1>2. c.src = TopBody.fn BY <1>1 DEF InliningInv, WorkOfFrame, TopBody
<1>3. SUFFICES ASSUME can_be_eliminated(c.dst) PROVE FALSE OBVIOUS
<1>4. c \in CallsTo(c.dst) BY DEF CallsTo
<1>5. c \in InlineableCallsTo(c.dst) BY <1>1, <1>3, <1>4, EliminatedCallsInlineable DEF InliningInv
<1>6. is_call_potentially_inlineable(TopBody.fn, c.dst) BY <1>2, <1>5 DEF InlineableCallsTo
<1>7. ~is_call_potentially_inlineable(host, c.dst) BY <1>3 DEF Inlines, can_be_eliminated
<1>8. host \in module.Internal BY <1>6, <1>7 DEF is_call_potentially_inlineable
<1>9. TopBody.fn \in module.Internal BY <1>1, <1>8 DEF InliningInv, HostInternal, host, TopBody
<1> QED BY <1>6, <1>9 DEF is_call_potentially_inlineable

(* The beginning, and what each step does.                                 *)
LEMMA InlineInitInv == InlineInit => InliningInv
<1> SUFFICES ASSUME InlineInit PROVE InliningInv OBVIOUS
<1>1. nesting = 0 /\ dropped = {} /\ kept = {} /\ todo = Fn BY DEF InlineInit
<1>2. 1 .. 0 = {} OBVIOUS
<1>3. bodies \in [1 .. 0 -> [fn : Fn, work : SUBSET Call]] BY <1>2 DEF InlineInit
<1>4. InliningTypeOK BY <1>1, <1>3, InliningAssumption DEF InliningTypeOK, InlineInit
<1> QED BY <1>1, <1>2, <1>4 DEF InliningInv, HostInternal, WorkOfFrame, DroppedForGood, KeptAlive

(* The decision about a function depends on the module alone.              *)
LEMMA DecisionStable ==
  ASSUME UNCHANGED module, NEW f
  PROVE  can_be_eliminated(f)' = can_be_eliminated(f)
BY DEF can_be_eliminated, can_be_inlined, CallsTo, InlineableCallsTo, is_call_potentially_inlineable

(* A function is dropped, or its body is begun.                            *)
LEMMA RewriteFunctionInvariant ==
  ASSUME InliningInv, NEW f \in Fn, RewriteFunction(f)
  PROVE  InliningInv'
<1>1. UNCHANGED <<module, kept>> /\ nesting = 0 BY DEF RewriteFunction
<1>2. CASE can_be_eliminated(f)
  <2>1. UNCHANGED <<nesting, bodies>> /\ dropped' = dropped \cup {f} /\ todo' = todo \ {f}
    BY <1>2 DEF RewriteFunction
  <2>2. InliningTypeOK' BY <1>1, <2>1 DEF InliningInv, InliningTypeOK, InternalCallsInternal
  <2>3. DroppedForGood' BY <1>1, <1>2, <2>1, DecisionStable DEF InliningInv, DroppedForGood
  <2>4. KeptAlive' BY <1>1, DecisionStable DEF InliningInv, KeptAlive
  <2> QED BY <1>1, <2>1, <2>2, <2>3, <2>4 DEF InliningInv, HostInternal, WorkOfFrame
<1>3. CASE ~can_be_eliminated(f)
  <2>1. /\ nesting' = 1 /\ bodies' = [i \in 1 .. 1 |-> Body(f)]
        /\ dropped' = dropped /\ todo' = todo \ {f}
    BY <1>3 DEF RewriteFunction
  <2>2. Body(f) \in [fn : Fn, work : SUBSET Call] BY CallSetsType DEF Body, InliningInv
  <2>3. bodies' \in [1 .. nesting' -> [fn : Fn, work : SUBSET Call]] BY <2>1, <2>2
  <2>4. InliningTypeOK' BY <1>1, <2>1, <2>3 DEF InliningInv, InliningTypeOK, InternalCallsInternal
  <2>5. \A i \in 1 .. 1 : i = 1 OBVIOUS
  <2>6. HostInternal' BY <1>1, <2>1, <2>5 DEF HostInternal
  <2>7. WorkOfFrame' BY <1>1, <2>1, <2>5 DEF WorkOfFrame, Body, Calls
  <2>8. DroppedForGood' /\ KeptAlive'
    BY <1>1, <2>1, DecisionStable DEF InliningInv, DroppedForGood, KeptAlive
  <2> QED BY <2>4, <2>6, <2>7, <2>8 DEF InliningInv
<1> QED BY <1>2, <1>3

(* The bodies with one call less are bodies of the same functions.         *)
LEMMA WithoutFrames ==
  ASSUME InliningInv, nesting > 0, NEW c \in module.calls
  PROVE  /\ Without(c) \in [1 .. nesting -> [fn : Fn, work : SUBSET Call]]
         /\ \A i \in 1 .. nesting : /\ Without(c)[i].fn = bodies[i].fn
                                    /\ Without(c)[i].work \subseteq bodies[i].work
<1>1. nesting \in 1 .. nesting /\ bodies \in [1 .. nesting -> [fn : Fn, work : SUBSET Call]]
  BY DEF InliningInv, InliningTypeOK
<1>2. TopBody \in [fn : Fn, work : SUBSET Call] BY <1>1 DEF TopBody
<1>3. ASSUME NEW i \in 1 .. nesting
      PROVE  /\ Without(c)[i] \in [fn : Fn, work : SUBSET Call]
             /\ Without(c)[i].fn = bodies[i].fn
             /\ Without(c)[i].work \subseteq bodies[i].work
  <2>1. CASE i < nesting BY <1>1, <2>1 DEF Without
  <2>2. CASE ~(i < nesting)
    <3>1. i = nesting BY <1>1, <2>2 DEF InliningInv, InliningTypeOK
    <3>2. Without(c)[i] = [TopBody EXCEPT !.work = @ \ {c}] BY <2>2 DEF Without
    <3> QED BY <1>2, <3>1, <3>2 DEF TopBody
  <2> QED BY <2>1, <2>2
<1> QED BY <1>3 DEF Without

(* A callee in place of a call.                                            *)
LEMMA InlineCallInvariant ==
  ASSUME InliningInv, NEW c \in module.calls, InlineCall(c)
  PROVE  InliningInv'
<1> DEFINE d == c.dst
<1>1. /\ UNCHANGED <<module, todo, dropped, kept>> /\ nesting > 0 /\ c \in TopBody.work
      /\ nesting' = nesting + 1 /\ nesting \in Nat
  BY DEF InlineCall, InliningInv, InliningTypeOK
<1>0. nesting \in Nat BY <1>1
<1>2. bodies' = [i \in 1 .. nesting + 1 |-> IF i <= nesting THEN Without(c)[i] ELSE Body(d)]
  BY DEF InlineCall
<1>3. d \in Fn BY DEF InliningInv, InliningTypeOK, ModuleType, Call
<1>4. Body(d) \in [fn : Fn, work : SUBSET Call] BY <1>3, CallSetsType DEF Body, InliningInv
<1>5. /\ Without(c) \in [1 .. nesting -> [fn : Fn, work : SUBSET Call]]
      /\ \A i \in 1 .. nesting : /\ Without(c)[i].fn = bodies[i].fn
                                 /\ Without(c)[i].work \subseteq bodies[i].work
  BY <1>1, WithoutFrames
<1>6. \A i \in 1 .. nesting + 1 : \/ i \in 1 .. nesting /\ i <= nesting
                                  \/ i = nesting + 1 /\ ~(i <= nesting)
  BY ONLY <1>0
<1>7. \A i \in 1 .. nesting : i \in 1 .. nesting + 1 /\ bodies'[i] = Without(c)[i]
  BY <1>1, <1>2
<1>8. nesting + 1 \in 1 .. nesting + 1 /\ bodies'[nesting + 1] = Body(d)
  BY <1>1, <1>2
<1>9. InliningTypeOK'
  <2>1. bodies' \in [1 .. nesting + 1 -> [fn : Fn, work : SUBSET Call]]
    BY <1>2, <1>4, <1>5, <1>6
  <2> QED BY <1>1, <2>1 DEF InliningInv, InliningTypeOK, InternalCallsInternal
<1>10. HostInternal'
  <2>1. SUFFICES ASSUME NEW i \in 1 .. nesting + 1, bodies'[1].fn \in module.Internal
                 PROVE  bodies'[i].fn \in module.Internal
    BY <1>1 DEF HostInternal
  <2>2. 1 \in 1 .. nesting /\ nesting \in 1 .. nesting BY <1>1
  <2>3. bodies[1].fn \in module.Internal BY <1>5, <1>7, <2>1, <2>2
  <2>4. \A j \in 1 .. nesting : bodies[j].fn \in module.Internal BY <2>3 DEF InliningInv, HostInternal
  <2>5. CASE i \in 1 .. nesting BY <1>5, <1>7, <2>4, <2>5
  <2>6. CASE i = nesting + 1
    <3>1. c.src = bodies[nesting].fn BY <1>1, <2>2 DEF InliningInv, WorkOfFrame, TopBody
    <3>2. d \in module.Internal
      BY <2>2, <2>4, <3>1 DEF InliningInv, InliningTypeOK, InternalCallsInternal
    <3> QED BY <1>8, <2>6, <3>2 DEF Body
  <2> QED BY <1>6, <2>5, <2>6
<1>11. WorkOfFrame'
  <2>1. SUFFICES ASSUME NEW i \in 1 .. nesting + 1, NEW t \in bodies'[i].work
                 PROVE  t \in module.calls /\ t.src = bodies'[i].fn
    BY <1>1 DEF WorkOfFrame
  <2>2. CASE i \in 1 .. nesting BY <1>5, <1>7, <2>1, <2>2 DEF InliningInv, WorkOfFrame
  <2>3. CASE i = nesting + 1 BY <1>8, <2>1, <2>3 DEF Body, Calls
  <2> QED BY <1>6, <2>2, <2>3
<1>12. DroppedForGood' /\ KeptAlive'
  BY <1>1, DecisionStable DEF InliningInv, DroppedForGood, KeptAlive
<1> QED BY <1>9, <1>10, <1>11, <1>12 DEF InliningInv

(* A call that stays.                                                      *)
LEMMA KeepCallInvariant ==
  ASSUME InliningInv, NEW c \in module.calls, KeepCall(c)
  PROVE  InliningInv'
<1> DEFINE k == [in |-> host, callee |-> c.dst]
<1>1. /\ UNCHANGED <<module, todo, dropped, nesting>> /\ nesting > 0 /\ c \in TopBody.work
      /\ ~Inlines(c) /\ bodies' = Without(c) /\ kept' = kept \cup {k}
  BY DEF KeepCall
<1>2. /\ Without(c) \in [1 .. nesting -> [fn : Fn, work : SUBSET Call]]
      /\ \A i \in 1 .. nesting : /\ Without(c)[i].fn = bodies[i].fn
                                 /\ Without(c)[i].work \subseteq bodies[i].work
  BY <1>1, WithoutFrames
<1>3. 1 \in 1 .. nesting BY <1>1 DEF InliningInv, InliningTypeOK
<1>4. InliningTypeOK'
  <2>1. k \in [in : Fn, callee : Fn] BY <1>3 DEF InliningInv, InliningTypeOK, ModuleType, Call, host
  <2> QED BY <1>1, <1>2, <2>1 DEF InliningInv, InliningTypeOK, InternalCallsInternal
<1>5. HostInternal' BY <1>1, <1>2, <1>3 DEF InliningInv, HostInternal
<1>6. WorkOfFrame' BY <1>1, <1>2 DEF InliningInv, WorkOfFrame
<1>7. ~can_be_eliminated(c.dst) BY <1>1, KeptIsAlive
<1>8. KeptAlive' BY <1>1, <1>7, DecisionStable DEF InliningInv, KeptAlive
<1>9. DroppedForGood' BY <1>1, DecisionStable DEF InliningInv, DroppedForGood
<1> QED BY <1>4, <1>5, <1>6, <1>8, <1>9 DEF InliningInv

(* The end of a body.                                                      *)
LEMMA BodyDoneInvariant == InliningInv /\ BodyDone => InliningInv'
<1> SUFFICES ASSUME InliningInv, BodyDone PROVE InliningInv' OBVIOUS
<1>1. /\ UNCHANGED <<module, todo, dropped, kept>> /\ nesting > 0 /\ nesting \in Nat
      /\ nesting' = nesting - 1 /\ bodies' = [i \in 1 .. nesting - 1 |-> bodies[i]]
  BY DEF BodyDone, InliningInv, InliningTypeOK
<1>2. \A i \in 1 .. nesting - 1 : i \in 1 .. nesting /\ 1 \in 1 .. nesting - 1 /\ bodies'[i] = bodies[i]
  BY <1>1
<1>3. \A i \in 1 .. nesting - 1 : bodies'[1] = bodies[1] /\ bodies'[i] = bodies[i] BY <1>2
<1>4. InliningTypeOK'
  <2>1. bodies' \in [1 .. nesting - 1 -> [fn : Fn, work : SUBSET Call]]
    BY <1>1, <1>2 DEF InliningInv, InliningTypeOK
  <2> QED BY <1>1, <2>1 DEF InliningInv, InliningTypeOK, InternalCallsInternal
<1>5. HostInternal' BY <1>1, <1>2, <1>3 DEF InliningInv, HostInternal
<1>6. WorkOfFrame' BY <1>1, <1>2 DEF InliningInv, WorkOfFrame
<1>7. DroppedForGood' /\ KeptAlive'
  BY <1>1, DecisionStable DEF InliningInv, DroppedForGood, KeptAlive
<1> QED BY <1>4, <1>5, <1>6, <1>7 DEF InliningInv

(* Every step.                                                             *)
LEMMA InlineNextInv == InliningInv /\ [InlineNext]_inlining => InliningInv'
<1> SUFFICES ASSUME InliningInv, [InlineNext]_inlining PROVE InliningInv' OBVIOUS
<1>1. ASSUME NEW f \in todo, RewriteFunction(f) PROVE InliningInv'
  BY <1>1, RewriteFunctionInvariant DEF InliningInv, InliningTypeOK
<1>2. ASSUME NEW c \in module.calls, InlineCall(c) PROVE InliningInv' BY <1>2, InlineCallInvariant
<1>3. ASSUME NEW c \in module.calls, KeepCall(c) PROVE InliningInv' BY <1>3, KeepCallInvariant
<1>4. CASE BodyDone BY <1>4, BodyDoneInvariant
<1>5. CASE UNCHANGED inlining
  BY <1>5, DecisionStable
     DEF inlining, InliningInv, InliningTypeOK, InternalCallsInternal, HostInternal, WorkOfFrame,
         DroppedForGood, KeptAlive
<1> QED BY <1>1, <1>2, <1>3, <1>4, <1>5 DEF InlineNext

(* The inductive invariant holds in every reachable state.                 *)
THEOREM InliningInvariance == InlineSpec => []InliningInv
BY InlineInitInv, InlineNextInv, PTL DEF InlineSpec

(* opt_inline.c never leaves a call to a function it has dropped, for any  *)
(* module whose Internal functions call only each other.                   *)
THEOREM KeepsCallees == InlineSpec => []NoDanglingCall
<1>1. InliningInv => NoDanglingCall BY DEF InliningInv, NoDanglingCall, DroppedForGood, KeptAlive
<1> QED BY <1>1, InliningInvariance, PTL

-----------------------------------------------------------------------------
(* Leaves.                                                                 *)

(* dict_insert never finds the load factor exceeded.                       *)
Fits == 5 * Cardinality(Fn) <= 3 * InitCapacity

Entry == [is_leaf : BOOLEAN, done : BOOLEAN]
IsTable(t) == DOMAIN t \subseteq Fn /\ t \in [DOMAIN t -> Entry]
LeafIn(t, f) == f \in DOMAIN t /\ t[f].done /\ t[f].is_leaf
ClosedTable(t) == \A f \in Fn : LeafIn(t, f) => \A g \in Callees(f) : LeafIn(t, g)

(* u says of more functions that they are done, and of none that it is or  *)
(* is not a leaf if t said otherwise.                                      *)
Refines(t, u) ==
  /\ DOMAIN t \subseteq DOMAIN u
  /\ \A f \in Fn : LeafIn(t, f) <=> LeafIn(u, f)
  /\ \A f \in DOMAIN t : t[f].done => u[f].done

FrameType == [fn : Fn, todo : SUBSET Fn, generation : Nat]

(* What the frames fr of d calls know, given the table t.                  *)
Examined(t, d, fr) ==
  \A i \in 1 .. d : fr[i].fn \in DOMAIN t /\ ~LeafIn(t, fr[i].fn) /\ fr[i].generation = 0
Distinct(d, fr) == \A i, j \in 1 .. d : i < j => fr[i].fn # fr[j].fn
VisitedAreLeaves(t, d, fr) ==
  \A i \in 1 .. d : ~t[fr[i].fn].done =>
    \A c \in Callees(fr[i].fn) \ fr[i].todo : LeafIn(t, c) \/ (i < d /\ c = fr[i + 1].fn)

StackOK(t, d, fr) == Examined(t, d, fr) /\ Distinct(d, fr) /\ VisitedAreLeaves(t, d, fr)

LeafInv ==
  /\ TypeOK
  /\ capacity = InitCapacity /\ generation = 0
  /\ ClosedTable(info)
  /\ StackOK(info, depth, frames)

-----------------------------------------------------------------------------
(* What the types give.                                                    *)
LEMMA TypeFacts ==
  ASSUME LeafInv
  PROVE  /\ IsTable(info) /\ depth \in Nat /\ frames \in [1 .. depth -> FrameType]
         /\ \A f \in Fn : Callees(f) \subseteq Fn
         /\ \A f \in Seen : info[f] \in Entry
BY DEF LeafInv, TypeOK, IsTable, Entry, FrameType, Seen, Callees, InputType

(* A table as large as the set of functions is never reallocated.          *)
LEMMA NoGrowth ==
  ASSUME LeafInv, Fits
  PROVE  ~MustGrow
<1>1. Seen \subseteq Fn /\ capacity = InitCapacity BY DEF LeafInv, TypeOK
<1>2. IsFiniteSet(Fn) /\ InitCapacity \in Nat BY LeafAssumption
<1>3. Cardinality(Seen) <= Cardinality(Fn) /\ IsFiniteSet(Seen) BY <1>1, <1>2, FS_Subset
<1>4. Cardinality(Seen) \in Nat /\ Cardinality(Fn) \in Nat BY <1>2, <1>3, FS_CardinalityType
<1>5. 5 * Cardinality(Fn) <= 3 * capacity BY <1>1 DEF Fits
<1>6. ~(5 * Cardinality(Seen) > 3 * capacity)
  BY ONLY <1>1, <1>2, <1>3, <1>4, <1>5
<1> QED BY <1>6 DEF MustGrow

(* So dict_insert keeps the table where it is.                             *)
LEMMA GrownKeeps ==
  ASSUME LeafInv, Fits, Grown
  PROVE  UNCHANGED <<capacity, generation>>
BY NoGrowth DEF Grown

(* What WithInfo does to a table.                                          *)
LEMMA WithInfoFacts ==
  ASSUME NEW t, IsTable(t), NEW f \in Fn, NEW leaf \in BOOLEAN, NEW done \in BOOLEAN
  PROVE  LET u == WithInfo(t, f, leaf, done)
         IN  /\ IsTable(u) /\ DOMAIN u = DOMAIN t \cup {f}
             /\ u[f] = [is_leaf |-> leaf, done |-> done]
             /\ \A g \in DOMAIN t : g # f => u[g] = t[g]
<1> DEFINE u == WithInfo(t, f, leaf, done)
<1>1. u = [g \in DOMAIN t \cup {f} |-> IF g = f THEN [is_leaf |-> leaf, done |-> done] ELSE t[g]]
  BY DEF WithInfo
<1>2. DOMAIN u = DOMAIN t \cup {f} BY <1>1
<1>3. \A g \in DOMAIN t : t[g] \in Entry BY DEF IsTable
<1>4. [is_leaf |-> leaf, done |-> done] \in Entry BY DEF Entry
<1>5. u \in [DOMAIN t \cup {f} -> Entry] BY <1>1, <1>3, <1>4
<1>6. IsTable(u) BY <1>2, <1>5 DEF IsTable
<1> HIDE DEF u
<1>7. u[f] = [is_leaf |-> leaf, done |-> done] BY <1>1
<1>8. \A g \in DOMAIN t : g # f => u[g] = t[g] BY <1>1
<1>9. u = WithInfo(t, f, leaf, done) BY DEF u
<1> QED BY <1>2, <1>6, <1>7, <1>8, <1>9

(* Ruling out a function that is not a leaf.                               *)
LEMMA RuledOut ==
  ASSUME NEW t, IsTable(t), NEW f \in Fn, ~LeafIn(t, f)
  PROVE  LET u == WithInfo(t, f, FALSE, TRUE)
         IN  /\ IsTable(u) /\ Refines(t, u)
             /\ f \in DOMAIN u /\ u[f].done /\ ~u[f].is_leaf
<1> DEFINE u == WithInfo(t, f, FALSE, TRUE)
<1>1. /\ IsTable(u) /\ DOMAIN u = DOMAIN t \cup {f}
      /\ u[f] = [is_leaf |-> FALSE, done |-> TRUE]
      /\ \A g \in DOMAIN t : g # f => u[g] = t[g]
  BY WithInfoFacts
<1> HIDE DEF u
<1>2. u[f].done /\ ~u[f].is_leaf BY <1>1
<1>3. \A g \in Fn : LeafIn(t, g) <=> LeafIn(u, g)
  <2>1. SUFFICES ASSUME NEW g \in Fn PROVE LeafIn(t, g) <=> LeafIn(u, g) OBVIOUS
  <2>2. CASE g = f BY <1>2, <2>2 DEF LeafIn
  <2>3. CASE g # f BY <1>1, <2>3 DEF LeafIn
  <2> QED BY <2>2, <2>3
<1>4. \A g \in DOMAIN t : t[g].done => u[g].done BY <1>1, <1>2
<1>5. Refines(t, u) BY <1>1, <1>3, <1>4 DEF Refines
<1>6. u = WithInfo(t, f, FALSE, TRUE) BY DEF u
<1> QED BY <1>1, <1>2, <1>5, <1>6

(* Refines is reflexive,                                                   *)
LEMMA RefinesSelf ==
  ASSUME NEW t
  PROVE  Refines(t, t)
BY DEF Refines

(* and transitive.                                                         *)
LEMMA RefinesTransitive ==
  ASSUME NEW t, NEW u, NEW w, Refines(t, u), Refines(u, w)
  PROVE  Refines(t, w)
BY DEF Refines

(* Refinement keeps what the frames know and what the table says.          *)
LEMMA RefinedTable ==
  ASSUME NEW t, NEW u, IsTable(t), Refines(t, u), ClosedTable(t),
         \A f \in Fn : Callees(f) \subseteq Fn
  PROVE  ClosedTable(u)
BY DEF Refines, ClosedTable

(* The same for the frames.                                                *)
LEMMA RefinedStack ==
  ASSUME NEW t, NEW u, NEW d \in Nat, NEW fr \in [1 .. d -> FrameType],
         Refines(t, u), StackOK(t, d, fr), \A f \in Fn : Callees(f) \subseteq Fn
  PROVE  StackOK(u, d, fr)
<1>1. \A i \in 1 .. d : fr[i].fn \in Fn BY DEF FrameType
<1>2. Examined(u, d, fr) BY <1>1 DEF StackOK, Examined, Refines
<1>3. VisitedAreLeaves(u, d, fr)
  <2>1. SUFFICES ASSUME NEW i \in 1 .. d, ~u[fr[i].fn].done,
                        NEW c \in Callees(fr[i].fn) \ fr[i].todo
                 PROVE  LeafIn(u, c) \/ (i < d /\ c = fr[i + 1].fn)
    BY DEF VisitedAreLeaves
  <2>2. ~t[fr[i].fn].done BY <2>1 DEF StackOK, Examined, Refines
  <2>3. LeafIn(t, c) \/ (i < d /\ c = fr[i + 1].fn) BY <2>2 DEF StackOK, VisitedAreLeaves
  <2>4. c \in Fn BY <1>1
  <2> QED BY <2>3, <2>4 DEF Refines
<1> QED BY <1>2, <1>3 DEF StackOK

-----------------------------------------------------------------------------
(* Putting the invariant back together after a step that keeps the graph.  *)
LEMMA NewInvariant ==
  ASSUME LeafInv, UNCHANGED <<graph, capacity, generation>>,
         IsTable(info'), ClosedTable(info'), StackOK(info', depth', frames'),
         depth' \in Nat, frames' \in [1 .. depth' -> FrameType],
         processed' \subseteq Fn, annotated' \subseteq processed'
  PROVE  LeafInv'
<1>1. TypeOK' BY DEF LeafInv, TypeOK, IsTable, Entry, FrameType, Seen
<1>2. ClosedTable(info)' BY DEF ClosedTable, Callees
<1>3. StackOK(info, depth, frames)'
  BY DEF StackOK, Examined, Distinct, VisitedAreLeaves, Callees
<1>4. (capacity = InitCapacity /\ generation = 0)' BY DEF LeafInv
<1> QED BY <1>1, <1>2, <1>3, <1>4 DEF LeafInv

(* An answer refines the caller's table; a negative one settles the caller.*)
LEMMA TakeAnswerFacts ==
  ASSUME NEW t, IsTable(t), NEW d, frames[d].fn \in Fn, ~LeafIn(t, frames[d].fn),
         frames[d].generation = generation', NEW leaf \in BOOLEAN
  PROVE  LET u == TakeAnswer(t, d, leaf)
         IN  /\ IsTable(u) /\ Refines(t, u)
             /\ ~leaf => u[frames[d].fn].done
<1>1. CASE leaf
  <2>1. TakeAnswer(t, d, leaf) = t BY <1>1 DEF TakeAnswer
  <2> QED BY <1>1, <2>1, RefinesSelf
<1>2. CASE ~leaf
  <2>1. TakeAnswer(t, d, leaf) = WithInfo(t, frames[d].fn, FALSE, TRUE)
    BY <1>2 DEF TakeAnswer
  <2> QED BY <2>1, RuledOut
<1> QED BY <1>1, <1>2

(* The frames once the top one has asked about c.                          *)
LEMMA AskedFacts ==
  ASSUME LeafInv, depth > 0, NEW c \in Fn
  PROVE  /\ Asked(c) \in [1 .. depth -> FrameType]
         /\ \A i \in 1 .. depth : /\ Asked(c)[i].fn = frames[i].fn
                                  /\ Asked(c)[i].generation = frames[i].generation
                                  /\ i < depth => Asked(c)[i].todo = frames[i].todo
         /\ Asked(c)[depth].todo = Top.todo \ {c}
<1>1. depth \in Nat /\ frames \in [1 .. depth -> FrameType] BY TypeFacts
<1>2. depth \in 1 .. depth BY <1>1
<1>3. Top \in FrameType BY <1>1, <1>2 DEF Top
<1>4. ASSUME NEW i \in 1 .. depth
      PROVE  /\ Asked(c)[i] \in FrameType
             /\ Asked(c)[i].fn = frames[i].fn
             /\ Asked(c)[i].generation = frames[i].generation
             /\ i < depth => Asked(c)[i].todo = frames[i].todo
             /\ i = depth => Asked(c)[i].todo = Top.todo \ {c}
  <2>1. CASE i < depth
    <3>1. Asked(c)[i] = frames[i] BY <2>1 DEF Asked
    <3> QED BY <1>1, <2>1, <3>1
  <2>2. CASE ~(i < depth)
    <3>1. i = depth BY <1>1, <2>2
    <3>2. Asked(c)[i] = [Top EXCEPT !.todo = @ \ {c}] BY <2>2 DEF Asked
    <3>3. [Top EXCEPT !.todo = @ \ {c}] \in FrameType BY <1>3 DEF FrameType
    <3>4. /\ [Top EXCEPT !.todo = @ \ {c}].fn = Top.fn
          /\ [Top EXCEPT !.todo = @ \ {c}].generation = Top.generation
          /\ [Top EXCEPT !.todo = @ \ {c}].todo = Top.todo \ {c}
      BY <1>3 DEF FrameType
    <3> QED BY <2>2, <3>1, <3>2, <3>3, <3>4 DEF Top
  <2> QED BY <2>1, <2>2
<1> QED BY <1>2, <1>4 DEF Asked

(* The top frame has its answer for c, and the table u takes it in.        *)
LEMMA AskedStack ==
  ASSUME LeafInv, depth > 0, NEW c \in Fn, NEW u, Refines(info, u),
         LeafIn(u, c) \/ u[Top.fn].done
  PROVE  StackOK(u, depth, Asked(c))
<1>1. depth \in Nat /\ frames \in [1 .. depth -> FrameType] BY TypeFacts
<1>2. StackOK(u, depth, frames) BY <1>1, TypeFacts, RefinedStack DEF LeafInv
<1>3. /\ \A i \in 1 .. depth : /\ Asked(c)[i].fn = frames[i].fn
                               /\ Asked(c)[i].generation = frames[i].generation
                               /\ i < depth => Asked(c)[i].todo = frames[i].todo
      /\ Asked(c)[depth].todo = Top.todo \ {c}
  BY AskedFacts
<1>4. Examined(u, depth, Asked(c)) BY <1>2, <1>3 DEF StackOK, Examined
<1>5. Distinct(depth, Asked(c)) BY <1>2, <1>3 DEF StackOK, Distinct
<1>6. VisitedAreLeaves(u, depth, Asked(c))
  <2>1. SUFFICES ASSUME NEW i \in 1 .. depth, ~u[Asked(c)[i].fn].done,
                        NEW g \in Callees(Asked(c)[i].fn) \ Asked(c)[i].todo
                 PROVE  LeafIn(u, g) \/ (i < depth /\ g = Asked(c)[i + 1].fn)
    BY DEF VisitedAreLeaves
  <2>2. ~u[frames[i].fn].done /\ g \in Callees(frames[i].fn) BY <1>3, <2>1
  <2>3. CASE i < depth
    <3>1. i + 1 \in 1 .. depth BY <1>1, <2>3
    <3>2. g \notin frames[i].todo BY <1>3, <2>1, <2>3
    <3>3. LeafIn(u, g) \/ (i < depth /\ g = frames[i + 1].fn)
      BY <1>2, <2>2, <3>2 DEF StackOK, VisitedAreLeaves
    <3> QED BY <1>3, <3>1, <3>3
  <2>4. CASE ~(i < depth)
    <3>1. i = depth BY <1>1, <2>4
    <3>2. LeafIn(u, c) BY <2>2, <3>1 DEF Top
    <3>3. CASE g = c BY <3>2, <3>3
    <3>4. CASE g # c
      <4>1. g \notin frames[i].todo BY <1>3, <2>1, <3>1, <3>4 DEF Top
      <4> QED BY <1>2, <2>2, <2>4, <4>1 DEF StackOK, VisitedAreLeaves
    <3> QED BY <3>3, <3>4
  <2> QED BY <2>3, <2>4
<1> QED BY <1>4, <1>5, <1>6 DEF StackOK

(* The types of what process concludes.                                    *)
LEMMA ConcludeType ==
  ASSUME LeafInv, NEW f \in Fn, NEW leaf, Conclude(f, leaf)
  PROVE  processed' \subseteq Fn /\ annotated' \subseteq processed'
BY DEF LeafInv, TypeOK, Conclude

(* A call that returns at once keeps the invariant, if its table refines   *)
(* the one before and says leaf of c when the answer does.                 *)
LEMMA AnswerInvariant ==
  ASSUME LeafInv, NEW c \in Fn, Asks(c), NEW t, IsTable(t), Refines(info, t),
         NEW leaf \in BOOLEAN, leaf => LeafIn(t, c),
         Answer(c, t, leaf), UNCHANGED <<graph, capacity, generation>>
  PROVE  LeafInv'
<1>1. /\ IsTable(info) /\ depth \in Nat /\ frames \in [1 .. depth -> FrameType]
      /\ \A f \in Fn : Callees(f) \subseteq Fn
      /\ ClosedTable(info) /\ StackOK(info, depth, frames)
      /\ processed \subseteq Fn /\ annotated \subseteq processed
  BY TypeFacts DEF LeafInv, TypeOK
<1>2. CASE depth = 0
  <2>1. info' = t /\ UNCHANGED <<depth, frames>> /\ Conclude(c, leaf)
    BY <1>2 DEF Answer, walk
  <2>2. ClosedTable(t) BY <1>1, RefinedTable
  <2>3. StackOK(t, depth, frames) BY <1>1, RefinedStack
  <2>4. processed' \subseteq Fn /\ annotated' \subseteq processed' BY <2>1, ConcludeType
  <2> QED BY <1>1, <2>1, <2>2, <2>3, <2>4, NewInvariant
<1>3. CASE depth # 0
  <2>1. /\ info' = TakeAnswer(t, depth, leaf) /\ frames' = Asked(c)
        /\ UNCHANGED <<depth, processed, annotated>>
    BY <1>3 DEF Answer
  <2>2. depth > 0 /\ depth \in 1 .. depth BY <1>1, <1>3
  <2>3. Top.fn \in Fn /\ frames[depth] = Top BY <1>1, <2>2 DEF Top, FrameType
  <2>4. ~LeafIn(info, Top.fn) /\ Top.generation = 0
    BY <1>1, <2>2 DEF StackOK, Examined, Top
  <2>5. ~LeafIn(t, Top.fn) BY <2>3, <2>4 DEF Refines
  <2>6. generation' = 0 BY DEF LeafInv
  <2>7. /\ IsTable(info') /\ Refines(t, info')
        /\ ~leaf => info'[Top.fn].done
    BY <2>1, <2>3, <2>4, <2>5, <2>6, TakeAnswerFacts
  <2>8. Refines(info, info') BY <2>7, RefinesTransitive
  <2>9. LeafIn(info', c) \/ info'[Top.fn].done BY <2>7 DEF Refines
  <2>10. StackOK(info', depth, Asked(c)) BY <2>2, <2>8, <2>9, AskedStack
  <2>11. ClosedTable(info') BY <1>1, <2>8, RefinedTable
  <2>12. Asked(c) \in [1 .. depth -> FrameType] BY <2>2, AskedFacts
  <2> QED BY <1>1, <2>1, <2>7, <2>10, <2>11, <2>12, NewInvariant
<1> QED BY <1>2, <1>3

-----------------------------------------------------------------------------
(* The beginning, and what each step does.                                 *)
LEMMA LeafInitInv == Init => LeafInv
<1> SUFFICES ASSUME Init PROVE LeafInv OBVIOUS
<1>1. 1 .. 0 = {} OBVIOUS
<1>2. Seen = {} /\ depth = 0 BY DEF Init, Seen
<1>3. info \in [Seen -> Entry] BY <1>2 DEF Init
<1>4. frames \in [1 .. 0 -> FrameType] BY <1>1 DEF Init
<1>5. TypeOK
  BY <1>2, <1>3, <1>4, LeafAssumption DEF Init, TypeOK, Entry, FrameType
<1>6. ClosedTable(info) BY <1>2 DEF ClosedTable, LeafIn, Seen
<1>7. StackOK(info, depth, frames)
  BY <1>1, <1>2 DEF StackOK, Examined, Distinct, VisitedAreLeaves
<1> QED BY <1>5, <1>6, <1>7 DEF LeafInv, Init

(* A function that has been seen.                                          *)
LEMMA AskSeenInvariant ==
  ASSUME LeafInv, NEW c \in Fn, AskSeen(c)
  PROVE  LeafInv'
<1> DEFINE t == Revisited(c)
<1>1. Asks(c) /\ c \in Seen /\ UNCHANGED <<graph, capacity, generation>>
  BY DEF AskSeen
<1>2. Answer(c, t, t[c].is_leaf) BY DEF AskSeen
<1>3. IsTable(info) /\ info[c] \in Entry BY <1>1, TypeFacts
<1>4. /\ IsTable(t) /\ Refines(info, t)
      /\ t[c].is_leaf \in BOOLEAN /\ (t[c].is_leaf => LeafIn(t, c))
  <2>1. CASE info[c].done
    <3>1. t = info BY <2>1 DEF Revisited
    <3>2. info[c].is_leaf \in BOOLEAN BY <1>3 DEF Entry
    <3>3. info[c].is_leaf => LeafIn(info, c) BY <1>1, <2>1 DEF LeafIn, Seen
    <3> QED BY <1>3, <3>1, <3>2, <3>3, RefinesSelf
  <2>2. CASE ~info[c].done
    <3>1. t = WithInfo(info, c, FALSE, TRUE) BY <2>2 DEF Revisited
    <3>2. ~LeafIn(info, c) BY <2>2 DEF LeafIn
    <3>3. IsTable(t) /\ Refines(info, t) /\ c \in DOMAIN t /\ ~t[c].is_leaf
      BY <1>3, <3>1, <3>2, RuledOut
    <3>4. t[c] \in Entry BY <3>3 DEF IsTable
    <3>5. t[c].is_leaf \in BOOLEAN BY <3>4 DEF Entry
    <3> QED BY <3>3, <3>5
  <2> QED BY <2>1, <2>2
<1> HIDE DEF t
<1> QED BY <1>1, <1>2, <1>4, AnswerInvariant

(* A new function that is ruled out.                                       *)
LEMMA AskRuledOutInvariant ==
  ASSUME LeafInv, Fits, NEW c \in Fn, AskRuledOut(c)
  PROVE  LeafInv'
<1> DEFINE t == WithInfo(info, c, FALSE, TRUE)
<1>1. Asks(c) /\ c \notin Seen /\ Grown /\ UNCHANGED graph /\ Answer(c, t, FALSE)
  BY DEF AskRuledOut
<1>2. UNCHANGED <<graph, capacity, generation>> BY <1>1, GrownKeeps
<1>3. ~LeafIn(info, c) /\ IsTable(info) BY <1>1, TypeFacts DEF LeafIn, Seen
<1>4. IsTable(t) /\ Refines(info, t) BY <1>3, RuledOut
<1> HIDE DEF t
<1> QED BY <1>1, <1>2, <1>4, AnswerInvariant

(* A new function to examine.                                              *)
LEMMA AskCalleesInvariant ==
  ASSUME LeafInv, Fits, NEW c \in Fn, AskCallees(c)
  PROVE  LeafInv'
<1>1. /\ Asks(c) /\ c \notin Seen /\ Grown /\ info' = WithInfo(info, c, FALSE, FALSE)
      /\ depth' = depth + 1 /\ UNCHANGED <<graph, processed, annotated>>
      /\ frames' = [i \in 1 .. depth + 1 |-> IF i <= depth THEN Asked(c)[i] ELSE Frame(c)]
  BY DEF AskCallees
<1>2. UNCHANGED <<graph, capacity, generation>> BY <1>1, GrownKeeps
<1>3. /\ IsTable(info) /\ frames \in [1 .. depth -> FrameType]
      /\ \A f \in Fn : Callees(f) \subseteq Fn
      /\ ClosedTable(info) /\ StackOK(info, depth, frames)
  BY TypeFacts DEF LeafInv
<1>4. depth \in Nat BY TypeFacts
<1>5. /\ IsTable(info') /\ DOMAIN info' = DOMAIN info \cup {c}
      /\ info'[c] = [is_leaf |-> FALSE, done |-> FALSE]
      /\ \A g \in DOMAIN info : g # c => info'[g] = info[g]
  BY <1>1, <1>3, WithInfoFacts
<1>6. c \notin DOMAIN info /\ ~info'[c].done
  <2>1. c \notin DOMAIN info BY <1>1 DEF Seen
  <2>2. info'[c] = [is_leaf |-> FALSE, done |-> FALSE] BY <1>5
  <2>3. ~info'[c].done BY <2>2
  <2> QED BY <2>1, <2>3
<1>7. Refines(info, info')
  <2>1. \A g \in Fn : LeafIn(info, g) <=> LeafIn(info', g)
    <3>1. SUFFICES ASSUME NEW g \in Fn PROVE LeafIn(info, g) <=> LeafIn(info', g) OBVIOUS
    <3>2. CASE g = c BY <1>6, <3>2 DEF LeafIn
    <3>3. CASE g # c BY <1>5, <3>3 DEF LeafIn
    <3> QED BY <3>2, <3>3
  <2> QED BY <1>5, <1>6, <2>1 DEF Refines
<1>8. ClosedTable(info') BY <1>3, <1>7, RefinedTable
<1>9. StackOK(info', depth, frames) BY <1>3, <1>4, <1>7, RefinedStack
<1>10. frames'[depth + 1] = Frame(c) /\ depth + 1 \in 1 .. depth + 1 BY <1>1, <1>4
<1>11. generation' = 0 BY <1>2 DEF LeafInv
<1>12. /\ Frame(c) \in FrameType /\ Frame(c).fn = c /\ Frame(c).todo = Callees(c)
       /\ Frame(c).generation = 0
  BY <1>3, <1>11 DEF Frame, FrameType
<1>13. \A i \in 1 .. depth + 1 : \/ (i \in 1 .. depth /\ i <= depth)
                                \/ (i = depth + 1 /\ ~(i <= depth))
  BY ONLY <1>4
<1>14. \A i \in 1 .. depth : i \in 1 .. depth + 1 /\ i < depth + 1 /\ i + 1 \in 1 .. depth + 1
  BY ONLY <1>4
<1>15. ASSUME NEW i \in 1 .. depth
       PROVE  /\ frames'[i] \in FrameType /\ frames'[i].fn = frames[i].fn
              /\ frames'[i].generation = frames[i].generation
              /\ frames'[i].todo = IF i < depth THEN frames[i].todo ELSE Top.todo \ {c}
  <2>1. depth > 0 /\ i <= depth BY ONLY <1>4, <1>15
  <2>2. frames'[i] = Asked(c)[i] BY <1>1, <1>14, <2>1
  <2>3. /\ Asked(c) \in [1 .. depth -> FrameType]
        /\ Asked(c)[i].fn = frames[i].fn
        /\ Asked(c)[i].generation = frames[i].generation
        /\ i < depth => Asked(c)[i].todo = frames[i].todo
        /\ Asked(c)[depth].todo = Top.todo \ {c}
    BY <2>1, AskedFacts
  <2>4. i < depth \/ i = depth BY ONLY <1>4, <1>15
  <2>5. i = depth => ~(i < depth) BY ONLY <1>4
  <2> QED BY <2>2, <2>3, <2>4, <2>5
<1>16. frames' \in [1 .. depth + 1 -> FrameType]
  BY <1>1, <1>10, <1>12, <1>13, <1>15
<1>17. Examined(info', depth + 1, frames')
  <2>1. \A i \in 1 .. depth : /\ frames'[i].fn \in DOMAIN info' /\ ~LeafIn(info', frames'[i].fn)
                             /\ frames'[i].generation = 0
    BY <1>9, <1>15 DEF StackOK, Examined
  <2>2. c \in DOMAIN info' /\ ~LeafIn(info', c) BY <1>5, <1>6 DEF LeafIn
  <2> QED BY <1>10, <1>12, <1>13, <2>1, <2>2 DEF Examined
<1>18. Distinct(depth + 1, frames')
  <2>1. SUFFICES ASSUME NEW i \in 1 .. depth + 1, NEW j \in 1 .. depth + 1, i < j
                 PROVE  frames'[i].fn # frames'[j].fn
    BY DEF Distinct
  <2>2. i \in 1 .. depth BY ONLY <1>4, <2>1
  <2>3. CASE j \in 1 .. depth BY <1>3, <1>15, <2>1, <2>2, <2>3 DEF StackOK, Distinct
  <2>4. CASE j = depth + 1
    <3>1. frames[i].fn \in DOMAIN info BY <1>3, <2>2 DEF StackOK, Examined
    <3> QED BY <1>6, <1>10, <1>12, <1>15, <2>2, <2>4, <3>1
  <2> QED BY <1>13, <2>3, <2>4
<1>19. VisitedAreLeaves(info', depth + 1, frames')
  <2>1. SUFFICES ASSUME NEW i \in 1 .. depth + 1, ~info'[frames'[i].fn].done,
                        NEW g \in Callees(frames'[i].fn) \ frames'[i].todo
                 PROVE  LeafIn(info', g) \/ (i < depth + 1 /\ g = frames'[i + 1].fn)
    BY DEF VisitedAreLeaves
  <2>2. CASE i \in 1 .. depth
    <3>1. ~info'[frames[i].fn].done /\ g \in Callees(frames[i].fn) BY <1>15, <2>1, <2>2
    <3>2. i < depth \/ i = depth BY ONLY <1>4, <2>2
    <3>3. CASE i < depth
      <4>1. g \notin frames[i].todo BY <1>15, <2>1, <2>2, <3>3
      <4>2. LeafIn(info', g) \/ (i < depth /\ g = frames[i + 1].fn)
        BY <1>9, <2>2, <3>1, <4>1 DEF StackOK, VisitedAreLeaves
      <4>3. i + 1 \in 1 .. depth BY ONLY <1>4, <2>2, <3>3
      <4> QED BY <1>14, <1>15, <2>2, <4>2, <4>3
    <3>4. CASE i = depth
      <4>0. ~(i < depth) BY ONLY <1>4, <3>4
      <4>1. g \notin Top.todo \ {c} BY <1>15, <2>1, <2>2, <4>0
      <4>2. CASE g = c BY <1>10, <1>12, <1>14, <2>2, <3>4, <4>2
      <4>3. CASE g # c
        <5>1. g \notin frames[i].todo BY <3>4, <4>1, <4>3 DEF Top
        <5> QED BY <1>9, <2>2, <3>1, <4>0, <5>1 DEF StackOK, VisitedAreLeaves
      <4> QED BY <4>2, <4>3
    <3> QED BY <3>2, <3>3, <3>4
  <2>3. CASE i = depth + 1 BY <1>10, <1>12, <2>1, <2>3
  <2> QED BY <1>13, <2>2, <2>3
<1>20. StackOK(info', depth', frames') BY <1>1, <1>17, <1>18, <1>19 DEF StackOK
<1>21. depth' \in Nat /\ frames' \in [1 .. depth' -> FrameType]
  <2>1. depth + 1 \in Nat BY ONLY <1>4
  <2> QED BY <1>1, <1>16, <2>1
<1>22. processed' \subseteq Fn /\ annotated' \subseteq processed' BY <1>1 DEF LeafInv, TypeOK
<1> QED BY <1>2, <1>5, <1>8, <1>20, <1>21, <1>22, NewInvariant

-----------------------------------------------------------------------------
(* The table when the top call returns: at most its own function becomes a *)
(* leaf, and then all its callees are leaves.                              *)
LEMMA FinishedFacts ==
  ASSUME LeafInv, depth > 0, Top.todo = {}
  PROVE  LET f == Top.fn
             t == Finished(f)
         IN  /\ f \in Fn /\ IsTable(t) /\ ClosedTable(t)
             /\ DOMAIN info \subseteq DOMAIN t
             /\ \A g \in DOMAIN info : info[g].done => t[g].done
             /\ \A g \in Fn : LeafIn(info, g) => LeafIn(t, g)
             /\ \A g \in Fn : LeafIn(t, g) /\ g # f => LeafIn(info, g)
             /\ t[f].is_leaf \in BOOLEAN /\ (t[f].is_leaf => LeafIn(t, f))
<1> DEFINE f == Top.fn
           t == Finished(f)
<1>1. /\ IsTable(info) /\ frames \in [1 .. depth -> FrameType]
      /\ \A h \in Fn : Callees(h) \subseteq Fn
      /\ ClosedTable(info) /\ StackOK(info, depth, frames)
  BY TypeFacts DEF LeafInv
<1>2. depth \in Nat BY TypeFacts
<1>3. depth \in 1 .. depth /\ ~(depth < depth) BY ONLY <1>2, depth > 0
<1>4. f \in Fn BY <1>1, <1>3 DEF Top, FrameType
<1>5. f \in DOMAIN info /\ ~LeafIn(info, f) BY <1>1, <1>3 DEF StackOK, Examined, Top
<1>6. info[f] \in Entry BY <1>1, <1>5 DEF IsTable
<1>7. CASE info[f].done
  <2>1. t = info BY <1>7 DEF Finished
  <2>2. ~info[f].is_leaf BY <1>5, <1>7 DEF LeafIn
  <2>3. info[f].is_leaf \in BOOLEAN BY <1>6 DEF Entry
  <2> HIDE DEF t, f
  <2>4. t[f].is_leaf \in BOOLEAN /\ ~t[f].is_leaf BY <2>1, <2>2, <2>3
  <2>5. /\ DOMAIN info \subseteq DOMAIN t
        /\ \A g \in DOMAIN info : info[g].done => t[g].done
        /\ \A g \in Fn : LeafIn(info, g) <=> LeafIn(t, g)
    BY <2>1
  <2>6. IsTable(t) /\ ClosedTable(t) BY <1>1, <2>1
  <2> QED BY ONLY <1>4, <2>4, <2>5, <2>6 DEF t, f
<1>8. CASE ~info[f].done
  <2>1. t = WithInfo(info, f, TRUE, TRUE) BY <1>8 DEF Finished
  <2> HIDE DEF t, f
  <2>2. /\ IsTable(t) /\ DOMAIN t = DOMAIN info \cup {f}
        /\ t[f] = [is_leaf |-> TRUE, done |-> TRUE]
        /\ \A g \in DOMAIN info : g # f => t[g] = info[g]
    BY <1>1, <1>4, <2>1, WithInfoFacts
  <2>3. t[f].is_leaf = TRUE /\ t[f].done BY <2>2
  <2>4. f \in DOMAIN t BY <2>2
  <2>5. LeafIn(t, f) BY <2>3, <2>4 DEF LeafIn
  <2>6. \A g \in Fn : LeafIn(info, g) => LeafIn(t, g)
    <3>1. SUFFICES ASSUME NEW g \in Fn, LeafIn(info, g) PROVE LeafIn(t, g) OBVIOUS
    <3>2. CASE g = f BY <2>5, <3>2
    <3>3. CASE g # f BY <2>2, <3>1, <3>3 DEF LeafIn
    <3> QED BY <3>2, <3>3
  <2>7. \A g \in Fn : LeafIn(t, g) /\ g # f => LeafIn(info, g) BY <2>2 DEF LeafIn
  <2>8. \A g \in Callees(f) : LeafIn(info, g)
    <3>1. SUFFICES ASSUME NEW g \in Callees(f) PROVE LeafIn(info, g) OBVIOUS
    <3>2. g \in Callees(frames[depth].fn) \ frames[depth].todo BY <3>1 DEF f, Top
    <3>3. ~info[frames[depth].fn].done BY <1>8 DEF f, Top
    <3> QED BY <1>1, <1>3, <3>2, <3>3 DEF StackOK, VisitedAreLeaves
  <2>9. ClosedTable(t)
    <3>1. SUFFICES ASSUME NEW h \in Fn, LeafIn(t, h), NEW g \in Callees(h)
                   PROVE  LeafIn(t, g)
      BY DEF ClosedTable
    <3>2. g \in Fn BY <1>1, <3>1
    <3>3. CASE h = f BY <2>6, <2>8, <3>1, <3>2, <3>3
    <3>4. CASE h # f
      <4>1. LeafIn(info, g) BY <1>1, <2>7, <3>1, <3>4 DEF ClosedTable
      <4> QED BY <2>6, <3>2, <4>1
    <3> QED BY <3>3, <3>4
  <2>10. \A g \in DOMAIN info : info[g].done => t[g].done BY <2>2, <2>3
  <2>11. DOMAIN info \subseteq DOMAIN t BY <2>2
  <2>12. t[f].is_leaf \in BOOLEAN /\ (t[f].is_leaf => LeafIn(t, f)) BY <2>3, <2>5
  <2> QED BY ONLY <1>4, <2>2, <2>6, <2>7, <2>9, <2>10, <2>11, <2>12 DEF t, f
<1> QED BY <1>7, <1>8

(* The end of is_leaf_fn.                                                  *)
LEMMA FinishInvariant ==
  ASSUME LeafInv, Finish
  PROVE  LeafInv'
<1> DEFINE f == Top.fn
           t == Finished(f)
           leaf == t[f].is_leaf
           d == depth - 1
<1>1. /\ depth > 0 /\ Top.todo = {} /\ UNCHANGED <<graph, capacity, generation>>
      /\ depth' = d /\ frames' = [i \in 1 .. d |-> frames[i]]
  BY DEF Finish
<1>2. /\ frames \in [1 .. depth -> FrameType] /\ StackOK(info, depth, frames)
      /\ \A h \in Fn : Callees(h) \subseteq Fn
  BY TypeFacts DEF LeafInv
<1>3. depth \in Nat BY TypeFacts
<1>4. /\ f \in Fn /\ IsTable(t) /\ ClosedTable(t)
      /\ DOMAIN info \subseteq DOMAIN t
      /\ \A g \in DOMAIN info : info[g].done => t[g].done
      /\ \A g \in Fn : LeafIn(info, g) => LeafIn(t, g)
      /\ \A g \in Fn : LeafIn(t, g) /\ g # f => LeafIn(info, g)
      /\ leaf \in BOOLEAN /\ (leaf => LeafIn(t, f))
  BY <1>1, FinishedFacts
<1>5. /\ depth = 1 => info' = t /\ Conclude(f, leaf)
      /\ depth # 1 => info' = TakeAnswer(t, d, leaf) /\ UNCHANGED <<processed, annotated>>
  BY DEF Finish
<1> HIDE DEF t, leaf
<1>6. d \in Nat /\ \A i \in 1 .. d : i \in 1 .. depth /\ i < depth BY ONLY <1>1, <1>3
<1>7. \A i \in 1 .. d : frames'[i] = frames[i] BY <1>1
<1>8. frames' \in [1 .. d -> FrameType] BY <1>1, <1>2, <1>6
<1>9. \A i \in 1 .. d : /\ frames[i].fn \in Fn /\ frames[i].fn \in DOMAIN info
                        /\ ~LeafIn(info, frames[i].fn) /\ frames[i].generation = 0
                        /\ frames[i].fn # f
  <2>1. \A i \in 1 .. d : frames[i].fn \in Fn BY <1>2, <1>6 DEF FrameType
  <2>2. \A i \in 1 .. d : /\ frames[i].fn \in DOMAIN info /\ ~LeafIn(info, frames[i].fn)
                          /\ frames[i].generation = 0
    BY <1>2, <1>6 DEF StackOK, Examined
  <2>3. depth \in 1 .. depth BY ONLY <1>1, <1>3
  <2>4. \A i \in 1 .. d : frames[i].fn # f BY <1>2, <1>6, <2>3 DEF StackOK, Distinct, Top
  <2> QED BY <2>1, <2>2, <2>4
<1>10. \A i \in 1 .. d : ~LeafIn(t, frames[i].fn) BY <1>4, <1>9
<1>11. CASE depth = 1
  <2>1. info' = t /\ Conclude(f, leaf) BY <1>5, <1>11
  <2>2. d = 0 /\ 1 .. d = {} BY <1>11
  <2>3. StackOK(t, d, frames')
    BY <2>2 DEF StackOK, Examined, Distinct, VisitedAreLeaves
  <2>4. processed' \subseteq Fn /\ annotated' \subseteq processed'
    BY <1>4, <2>1, ConcludeType
  <2> HIDE DEF d
  <2> QED BY <1>1, <1>4, <1>6, <1>8, <2>1, <2>3, <2>4, NewInvariant
<1>12. CASE depth # 1
  <2>1. info' = TakeAnswer(t, d, leaf) /\ UNCHANGED <<processed, annotated>>
    BY <1>5, <1>12
  <2>2. d \in 1 .. d /\ d < depth BY ONLY <1>1, <1>3, <1>12
  <2>3. generation' = 0 BY <1>1 DEF LeafInv
  <2>4. /\ IsTable(info') /\ Refines(t, info')
        /\ ~leaf => info'[frames[d].fn].done
    BY <1>4, <1>9, <1>10, <2>1, <2>2, <2>3, TakeAnswerFacts
  <2>5. ClosedTable(info') BY <1>2, <1>4, <2>4, RefinedTable
  <2>6. Examined(info', d, frames')
    BY <1>4, <1>7, <1>9, <1>10, <2>4 DEF Examined, Refines
  <2>7. Distinct(d, frames')
    BY <1>2, <1>6, <1>7 DEF StackOK, Distinct
  <2>8. VisitedAreLeaves(info', d, frames')
    <3>1. SUFFICES ASSUME NEW i \in 1 .. d, ~info'[frames'[i].fn].done,
                          NEW g \in Callees(frames'[i].fn) \ frames'[i].todo
                   PROVE  LeafIn(info', g) \/ (i < d /\ g = frames'[i + 1].fn)
      BY DEF VisitedAreLeaves
    <3>2. g \in Callees(frames[i].fn) \ frames[i].todo /\ ~info'[frames[i].fn].done
      BY <1>7, <3>1
    <3>3. g \in Fn BY <1>2, <1>9, <3>2
    <3>4. ~t[frames[i].fn].done BY <1>4, <1>9, <2>4, <3>2 DEF Refines
    <3>5. ~info[frames[i].fn].done BY <1>4, <1>9, <3>4
    <3>6. LeafIn(info, g) \/ (i < depth /\ g = frames[i + 1].fn)
      BY <1>2, <1>6, <3>2, <3>5 DEF StackOK, VisitedAreLeaves
    <3>7. CASE LeafIn(info, g)
      <4>1. LeafIn(t, g) BY <1>4, <3>3, <3>7
      <4> QED BY <2>4, <3>3, <4>1 DEF Refines
    <3>8. CASE g = frames[i + 1].fn
      <4>1. (i < d /\ i + 1 \in 1 .. d) \/ (i = d /\ i + 1 = depth) BY ONLY <1>3, <3>1, <1>6
      <4>2. CASE i < d /\ i + 1 \in 1 .. d BY <1>7, <3>8, <4>2
      <4>3. CASE i = d /\ i + 1 = depth
        <5>1. leaf BY <2>4, <3>2, <4>3
        <5>2. g = f BY <3>8, <4>3 DEF Top
        <5>3. LeafIn(t, g) BY <1>4, <5>1, <5>2
        <5> QED BY <2>4, <3>3, <5>3 DEF Refines
      <4> QED BY <4>1, <4>2, <4>3
    <3> QED BY <3>6, <3>7, <3>8
  <2>9. StackOK(info', d, frames') BY <2>6, <2>7, <2>8 DEF StackOK
  <2>10. processed' \subseteq Fn /\ annotated' \subseteq processed' BY <2>1 DEF LeafInv, TypeOK
  <2> HIDE DEF d
  <2> QED BY <1>1, <1>6, <1>8, <2>4, <2>5, <2>9, <2>10, NewInvariant
<1> QED BY <1>11, <1>12

(* Every step.                                                             *)
LEMMA LeafNextInv ==
  ASSUME LeafInv, Fits, [Next]_vars
  PROVE  LeafInv'
<1>1. ASSUME NEW c \in Fn, AskSeen(c) PROVE LeafInv' BY <1>1, AskSeenInvariant
<1>2. ASSUME NEW c \in Fn, AskRuledOut(c) PROVE LeafInv' BY <1>2, AskRuledOutInvariant
<1>3. ASSUME NEW c \in Fn, AskCallees(c) PROVE LeafInv' BY <1>3, AskCalleesInvariant
<1>4. CASE Finish BY <1>4, FinishInvariant
<1>5. CASE UNCHANGED vars
  <2>1. /\ UNCHANGED <<graph, capacity, generation>> /\ UNCHANGED <<info, depth, frames>>
        /\ UNCHANGED <<processed, annotated>>
    BY <1>5 DEF vars
  <2>2. /\ IsTable(info) /\ depth \in Nat /\ frames \in [1 .. depth -> FrameType]
        /\ ClosedTable(info) /\ StackOK(info, depth, frames)
        /\ processed \subseteq Fn /\ annotated \subseteq processed
    BY TypeFacts DEF LeafInv, TypeOK
  <2> QED BY <2>1, <2>2, NewInvariant
<1> QED BY <1>1, <1>2, <1>3, <1>4, <1>5 DEF Next

(* The inductive invariant holds in every reachable state.                 *)
THEOREM LeafInvariance ==
  ASSUME Fits
  PROVE  Spec => []LeafInv
<1>1. LeafInv /\ [Next]_vars => LeafInv' BY LeafNextInv
<1> QED BY <1>1, LeafInitInv, PTL DEF Spec

(* What the invariant says of the answers.                                 *)
LEMMA LeafInvCloses == ASSUME LeafInv PROVE LeavesCallLeaves
<1>1. Seen \subseteq Fn /\ ClosedTable(info) BY DEF LeafInv, TypeOK
<1>2. \A f \in Fn : Callees(f) \subseteq Fn BY TypeFacts
<1> QED BY <1>1, <1>2 DEF LeavesCallLeaves, IsLeaf, ClosedTable, LeafIn, Seen

(* is_leaf_fn's answers are closed under calls in every module whose       *)
(* functions fit into the first hash table, in whatever order they are     *)
(* asked for.                                                              *)
THEOREM LeavesClosed ==
  ASSUME Fits
  PROVE  Spec => []LeavesCallLeaves
<1>1. LeafInv => LeavesCallLeaves BY LeafInvCloses
<1> QED BY <1>1, LeafInvariance, PTL

-----------------------------------------------------------------------------
(* The two passes and their call graph.                                    *)

(* What a pass is given: its source, and what the call graph has of it.    *)
SourceInv ==
  /\ source \in SourceType /\ IsFiniteSet(source.calls) /\ InternalCallsInternal(source)
  /\ mod = CallsOf(source) /\ mod \in ModType
  /\ started \in BOOLEAN
GraphInv ==
  /\ ~started => CallGraphInv
  /\ started => phase = "done" /\ GraphBuilt /\ is_recursive = OnCycle

(* The calls of the source are edges, and the other facts are the flags.   *)
LEMMA SourceFacts ==
  ASSUME SourceInv
  PROVE  /\ \A c \in source.calls : c.src \in Fn /\ c.dst \in Direct(c.src)
         /\ mod.otherUses = source.captured
         /\ {f \in Fn : Pointer \in mod.calls[f]} = source.indirect
<1>1. /\ source.calls \subseteq Call /\ source.indirect \subseteq Fn /\ source.captured \subseteq Fn
      /\ mod = CallsOf(source)
  BY DEF SourceInv, SourceType
<1>2. mod.otherUses = source.captured /\ \A f \in Fn : mod.calls[f] = CalleesOf(source, f)
  BY <1>1 DEF CallsOf
<1>3. ASSUME NEW c \in source.calls PROVE c.src \in Fn /\ c.dst \in Direct(c.src)
  <2>1. c.src \in Fn /\ c.dst \in Fn
    BY <1>1 DEF Call
  <2>2. c.dst \in CalleesOf(source, c.src)
    BY DEF CalleesOf
  <2> QED
    BY <1>2, <2>1, <2>2 DEF Direct
<1>4. ASSUME NEW f \in Fn PROVE Pointer \in mod.calls[f] <=> f \in source.indirect
  <2>1. \A c \in source.calls : c.dst # Pointer
    BY <1>1, CallGraphAssumption DEF Call
  <2>2. mod.calls[f] = {c.dst : c \in {d \in source.calls : d.src = f}} \cup {p \in {Pointer} : f \in source.indirect}
    BY <1>2 DEF CalleesOf
  <2> QED
    BY <2>1, <2>2
<1> QED
  BY <1>1, <1>2, <1>3, <1>4

(* The beginning.                                                          *)
LEMMA PassesInitGraph == ASSUME PassesInit PROVE SourceInv /\ GraphInv
<1>1. source \in LeafSources \cup InlineSources /\ started = FALSE /\ mod = CallsOf(source) /\ CallGraphInit
  BY DEF PassesInit, PassesBefore
<1>2. source \in SourceType /\ IsFiniteSet(source.calls) /\ InternalCallsInternal(source)
  BY <1>1, PassesAssumption
<1>3. mod \in ModType
  BY <1>1 DEF CallGraphInit
<1>4. CallGraphInv
  BY <1>1, InitInv
<1> QED
  BY <1>1, <1>2, <1>3, <1>4 DEF SourceInv, GraphInv

(* The graph is complete when it is handed over, and stays.                *)
LEMMA HandOverGraph ==
  ASSUME SourceInv, GraphInv, HandOver
  PROVE  /\ SourceInv' /\ GraphInv'
         /\ GraphBuilt /\ is_recursive = OnCycle
         /\ is_address_captured = source.captured /\ calls_indirect = source.indirect
<1>1. /\ ~started /\ phase = "done" /\ started' = TRUE
      /\ UNCHANGED <<source, mod, phase, cg_todo, cg_frames, edges, is_recursive>>
  BY DEF HandOver
<1>2. UNCHANGED <<fn2cgn, callees, callers, calls_indirect, is_address_captured>>
  BY <1>1 DEF edges
<1>3. CallGraphInv
  BY <1>1 DEF GraphInv
<1>4. GraphBuilt /\ is_recursive = OnCycle
  BY <1>1, <1>3, CallGraphInvImplies DEF CallGraphInv, RecursiveIffOnCycle
<1>5. /\ \A f : Direct(f)' = Direct(f)
      /\ OnCycle' = OnCycle
  BY <1>1, SameModule
<1>6. GraphBuilt'
  BY <1>1, <1>2, <1>4, <1>5 DEF GraphBuilt
<1>7. GraphInv'
  BY <1>1, <1>4, <1>5, <1>6 DEF GraphInv
<1>8. SourceInv'
  BY <1>1 DEF SourceInv, InternalCallsInternal, CallsOf, CalleesOf
<1> QED
  BY <1>4, <1>7, <1>8, SourceFacts DEF GraphBuilt

(* After that nothing changes it.                                          *)
LEMMA SameGraph ==
  ASSUME SourceInv, GraphInv, UNCHANGED <<source, started, callgraph>>
  PROVE  SourceInv' /\ GraphInv'
<1>1. /\ UNCHANGED <<source, started, mod, phase, cg_todo, cg_frames, edges, is_recursive>>
      /\ UNCHANGED <<fn2cgn, callees, callers, calls_indirect, is_address_captured>>
  BY DEF edges, callgraph
<1>2. /\ \A f : Direct(f)' = Direct(f)
      /\ OnCycle' = OnCycle
  BY <1>1, SameModule
<1>3. CallGraphInv => CallGraphInv'
  BY StutterInv
<1>4. GraphBuilt => GraphBuilt'
  BY <1>1, <1>2 DEF GraphBuilt
<1>5. GraphInv'
  BY <1>1, <1>2, <1>3, <1>4 DEF GraphInv
<1>6. SourceInv'
  BY <1>1 DEF SourceInv, InternalCallsInternal, CallsOf, CalleesOf
<1> QED
  BY <1>5, <1>6

(* Every step.                                                             *)
LEMMA PassesNextGraph ==
  ASSUME SourceInv, GraphInv, [PassesNext]_passesvars
  PROVE  SourceInv' /\ GraphInv'
<1>1. CASE BuildCallGraph
  <2>1. ~started /\ UNCHANGED <<source, started>> /\ CallGraphNext
    BY <1>1 DEF BuildCallGraph
  <2>2. CallGraphInv'
    BY <2>1, CallGraphNextInv DEF GraphInv
  <2>3. mod' = mod
    BY <2>1 DEF CallGraphNext, AnalyzeDecl, VisitCallsite, VisitVertex, VisitSuccessor,
                VisitIndirectCall, LeaveFunction, BuildDone, LeaveVertex, TarjanDone
  <2>4. SourceInv'
    BY <2>1, <2>3 DEF SourceInv, InternalCallsInternal, CallsOf, CalleesOf
  <2> QED
    BY <2>1, <2>2, <2>4 DEF GraphInv
<1>2. CASE HandOver
  BY <1>2, HandOverGraph
<1>3. CASE UNCHANGED <<source, started, callgraph>>
  BY <1>3, SameGraph
<1> QED
  BY <1>1, <1>2, <1>3
     DEF PassesNext, StartMarkLeafFunctions, StartInline, MarkLeafFunctions, Inline, passesvars

(* So they hold in every reachable state.                                  *)
LEMMA PassesGraph == PassesSpec => [](SourceInv /\ GraphInv)
<1>1. PassesInit => SourceInv /\ GraphInv
  BY PassesInitGraph
<1>2. (SourceInv /\ GraphInv) /\ [PassesNext]_passesvars => (SourceInv /\ GraphInv)'
  BY PassesNextGraph
<1> QED
  BY <1>1, <1>2, PTL DEF PassesSpec

(* The call graph the two passes are given has every call and marks        *)
(* exactly the recursive functions, for every module.                      *)
THEOREM CallGraphAlwaysExact == PassesSpec => []CallGraphExact
<1>1. SourceInv /\ GraphInv => CallGraphExact
  <2> SUFFICES ASSUME SourceInv, GraphInv PROVE CallGraphExact
    OBVIOUS
  <2>1. CASE ~started
    BY <2>1, CallGraphInvImplies DEF GraphInv, CallGraphExact
  <2>2. CASE started
    BY <2>2 DEF GraphInv, CallGraphExact, GraphComplete, RecursiveIffOnCycle, GraphBuilt, Direct
  <2> QED
    BY <2>1, <2>2 DEF SourceInv
<1> QED
  BY <1>1, PassesGraph, PTL

-----------------------------------------------------------------------------
(* The bodies being rewritten, one inside the other: each function can     *)
(* reach those inlined into it, and none of those can reach itself.        *)
InlinedReached ==
  /\ \A i, j \in 1 .. nesting : i < j => bodies[j].fn \in Reachable(bodies[i].fn)
  /\ \A i \in 1 .. nesting : i > 1 => bodies[i].fn \notin OnCycle

InlinerInv ==
  /\ InliningInv /\ InlinedReached
  /\ ~started => nesting = 0 /\ dropped = {} /\ kept = {}
  /\ nesting > 0 => started /\ source.pass = "inline"
  /\ started /\ source.pass = "inline" => module.calls = source.calls /\ module.is_recursive = OnCycle

(* The beginning.                                                          *)
LEMMA PassesInitInline == ASSUME PassesInit PROVE InlinerInv
<1>1. started = FALSE /\ InlineInit
  BY DEF PassesInit, PassesBefore
<1>2. InliningInv
  BY <1>1, InlineInitInv
<1>3. nesting = 0 /\ dropped = {} /\ kept = {} /\ 1 .. 0 = {}
  BY <1>1 DEF InlineInit
<1> QED
  BY <1>1, <1>2, <1>3 DEF InlinerInv, InlinedReached

(* The call graph's answers become the inliner's.                          *)
LEMMA StartInlineInv ==
  ASSUME SourceInv, GraphInv, InlinerInv, StartInline
  PROVE  InlinerInv'
<1>1. /\ source.pass = "inline" /\ HandOver /\ ~started /\ started' = TRUE
      /\ module' = [calls |-> source.calls, NoBody |-> source.NoBody, Internal |-> source.Internal,
                    NoInline |-> source.NoInline, Root |-> source.Root,
                    is_address_captured |-> is_address_captured, is_recursive |-> is_recursive,
                    inline_everything |-> source.inline_everything]
      /\ UNCHANGED <<todo, dropped, nesting, bodies, kept>> /\ UNCHANGED <<source, mod>>
  BY DEF StartInline, HandOver
<1>2. /\ is_recursive = OnCycle /\ is_address_captured = source.captured
  BY <1>1, HandOverGraph
<1>3. OnCycle' = OnCycle /\ OnCycle \subseteq Fn
  BY <1>1, SameModule DEF OnCycle
<1>4. /\ module'.calls = source.calls /\ module'.Internal = source.Internal
      /\ module'.is_recursive = OnCycle
  BY <1>1, <1>2
<1>5. module' \in ModuleType
  BY <1>1, <1>2, <1>3 DEF SourceInv, SourceType, ModuleType
<1>6. nesting = 0 /\ dropped = {} /\ kept = {} /\ 1 .. 0 = {}
  BY <1>1 DEF InlinerInv
<1>7. InliningTypeOK'
  BY <1>1, <1>4, <1>5 DEF InlinerInv, InliningInv, InliningTypeOK, SourceInv, InternalCallsInternal
<1>8. InliningInv'
  BY <1>1, <1>6, <1>7 DEF InliningInv, HostInternal, WorkOfFrame, DroppedForGood, KeptAlive
<1>9. InlinedReached'
  BY <1>1, <1>6 DEF InlinedReached
<1> QED
  BY <1>1, <1>3, <1>4, <1>6, <1>8, <1>9 DEF InlinerInv

(* A call that is replaced goes to a function that the body reaches, and   *)
(* that is not recursive.                                                  *)
LEMMA InlineCallReached ==
  ASSUME SourceInv, InlinerInv, started, source.pass = "inline", UNCHANGED mod,
         NEW c \in module.calls, InlineCall(c)
  PROVE  InlinedReached'
<1> DEFINE n == nesting
           f == c.dst
<1>1. /\ n > 0 /\ n \in Nat /\ c \in TopBody.work /\ Inlines(c) /\ nesting' = n + 1
      /\ bodies' = [i \in 1 .. n + 1 |-> IF i <= n THEN Without(c)[i] ELSE Body(f)]
  BY DEF InlineCall, InlinerInv, InliningInv, InliningTypeOK
<1>2. \A i \in 1 .. n : Without(c)[i].fn = bodies[i].fn /\ bodies[i].fn \in Fn
  BY <1>1, WithoutFrames DEF InlinerInv, InliningInv, InliningTypeOK
<1>3. n \in 1 .. n /\ c.src = bodies[n].fn
  BY <1>1 DEF InlinerInv, InliningInv, WorkOfFrame, TopBody
<1>4. f \in Direct(bodies[n].fn)
  BY <1>3, SourceFacts DEF InlinerInv
<1>5. f \notin OnCycle
  BY <1>1 DEF Inlines, can_be_inlined, InlinerInv
<1>6. Body(f).fn = f
  BY DEF Body
<1>7. InlinedReached /\ nesting = n
  BY DEF InlinerInv
<1> HIDE DEF n, f
<1>8. \A i \in 1 .. n + 1 : (i \in 1 .. n /\ i <= n) \/ (i = n + 1 /\ ~(i <= n))
  BY <1>1
<1>9. /\ \A i \in 1 .. n : i \in 1 .. n + 1 /\ bodies'[i].fn = bodies[i].fn
      /\ bodies'[n + 1].fn = f
  BY <1>1, <1>2, <1>6, <1>8
<1>10. ASSUME NEW i \in 1 .. n PROVE f \in Reachable(bodies[i].fn)
  <2>1. i = n \/ i < n
    BY <1>1
  <2>2. ReachesOrIs(bodies[i].fn, bodies[n].fn)
    BY <2>1, <1>3, <1>7 DEF ReachesOrIs, InlinedReached
  <2> QED
    BY <2>2, <1>2, <1>3, <1>4, ReachesDirect
<1>11. \A g : Reachable(g)' = Reachable(g)
  BY SameModule
<1>12. OnCycle' = OnCycle
  BY SameModule
<1>13. ASSUME NEW i \in 1 .. n + 1, NEW j \in 1 .. n + 1, i < j
       PROVE  bodies'[j].fn \in Reachable(bodies'[i].fn)
  <2>1. i \in 1 .. n
    BY <1>1, <1>13
  <2>2. CASE j \in 1 .. n
    BY <2>1, <2>2, <1>7, <1>9, <1>13 DEF InlinedReached
  <2>3. CASE j = n + 1
    BY <2>1, <2>3, <1>9, <1>10
  <2> QED
    BY <2>2, <2>3, <1>8
<1>14. ASSUME NEW i \in 1 .. n + 1, i > 1 PROVE bodies'[i].fn \notin OnCycle
  <2>1. CASE i \in 1 .. n
    BY <2>1, <1>7, <1>9, <1>14 DEF InlinedReached
  <2>2. CASE i = n + 1
    BY <2>2, <1>5, <1>9
  <2> QED
    BY <2>1, <2>2, <1>8
<1> QED
  BY <1>1, <1>7, <1>11, <1>12, <1>13, <1>14 DEF InlinedReached

(* The steps of the inliner.                                               *)
LEMMA InlineInv ==
  ASSUME SourceInv, GraphInv, InlinerInv, Inline
  PROVE  InlinerInv'
<1>1. started /\ source.pass = "inline" /\ InlineNext /\ UNCHANGED <<source, started, callgraph>>
  BY DEF Inline
<1>2. UNCHANGED mod
  BY <1>1 DEF callgraph
<1>3. /\ OnCycle' = OnCycle
      /\ \A f : Reachable(f)' = Reachable(f)
  BY <1>2, SameModule
<1>4. InliningInv'
  BY <1>1, InlineNextInv DEF InlinerInv
<1>5. UNCHANGED module
  BY <1>1 DEF InlineNext, RewriteFunction, InlineCall, KeepCall, BodyDone
<1>6. nesting \in Nat
  BY DEF InlinerInv, InliningInv, InliningTypeOK
<1>7. ASSUME NEW f \in todo, RewriteFunction(f) PROVE InlinedReached'
  <2>1. \/ UNCHANGED <<nesting, bodies>>
        \/ nesting' = 1
    BY <1>7 DEF RewriteFunction
  <2>2. CASE UNCHANGED <<nesting, bodies>>
    BY <2>2, <1>3 DEF InlinerInv, InlinedReached
  <2>3. CASE nesting' = 1
    BY <2>3, <1>3 DEF InlinedReached
  <2> QED
    BY <2>1, <2>2, <2>3
<1>8. ASSUME NEW c \in module.calls, InlineCall(c) PROVE InlinedReached'
  BY <1>1, <1>2, <1>8, InlineCallReached
<1>9. ASSUME NEW c \in module.calls, KeepCall(c) PROVE InlinedReached'
  <2>1. nesting > 0 /\ bodies' = Without(c) /\ nesting' = nesting
    BY <1>9 DEF KeepCall
  <2>2. \A i \in 1 .. nesting : bodies'[i].fn = bodies[i].fn
    BY <2>1, WithoutFrames DEF InlinerInv
  <2> QED
    BY <2>1, <2>2, <1>3 DEF InlinerInv, InlinedReached
<1>10. ASSUME BodyDone PROVE InlinedReached'
  <2>1. nesting > 0 /\ nesting' = nesting - 1 /\ bodies' = [i \in 1 .. nesting - 1 |-> bodies[i]]
    BY <1>10 DEF BodyDone
  <2> DEFINE n == nesting - 1
  <2>2. /\ \A i \in 1 .. n : i \in 1 .. nesting /\ bodies'[i] = bodies[i]
        /\ nesting' = n
    BY <2>1, <1>6
  <2> HIDE DEF n
  <2>3. \A i, j \in 1 .. n : i < j => bodies'[j].fn \in Reachable(bodies'[i].fn)
    BY <2>2 DEF InlinerInv, InlinedReached
  <2>4. \A i \in 1 .. n : i > 1 => bodies'[i].fn \notin OnCycle
    BY <2>2 DEF InlinerInv, InlinedReached
  <2> QED
    BY <2>2, <2>3, <2>4, <1>3 DEF InlinedReached
<1>11. InlinedReached'
  <2>1. \/ \E f \in todo : RewriteFunction(f)
        \/ \E c \in module.calls : InlineCall(c) \/ KeepCall(c)
        \/ BodyDone
    BY <1>1 DEF InlineNext
  <2> QED
    BY <2>1, <1>7, <1>8, <1>9, <1>10
<1> QED
  BY <1>1, <1>3, <1>4, <1>5, <1>11 DEF InlinerInv

(* Nothing the inliner looks at changes.                                   *)
LEMMA SameInliner ==
  ASSUME InlinerInv, UNCHANGED inlining, UNCHANGED <<source, mod>>,
         started' = started \/ (~started /\ source.pass # "inline")
  PROVE  InlinerInv'
<1>1. UNCHANGED <<module, todo, dropped, nesting, bodies, kept>>
  BY DEF inlining
<1>2. /\ OnCycle' = OnCycle
      /\ \A f : Reachable(f)' = Reachable(f)
  BY SameModule
<1>3. InliningInv'
  BY InlineNextInv DEF InlinerInv
<1>4. InlinedReached'
  BY <1>1, <1>2 DEF InlinerInv, InlinedReached
<1>5. CASE started' = started
  BY <1>1, <1>2, <1>3, <1>4, <1>5 DEF InlinerInv
<1>6. CASE ~started /\ source.pass # "inline"
  <2>1. nesting = 0 /\ dropped = {} /\ kept = {}
    BY <1>6 DEF InlinerInv
  <2> QED
    BY <1>1, <1>3, <1>4, <1>6, <2>1 DEF InlinerInv
<1> QED
  BY <1>5, <1>6

(* Every step.                                                             *)
LEMMA PassesNextInline ==
  ASSUME SourceInv, GraphInv, InlinerInv, [PassesNext]_passesvars
  PROVE  InlinerInv'
<1>1. CASE StartInline
  BY <1>1, StartInlineInv
<1>2. CASE Inline
  BY <1>2, InlineInv
<1>3. CASE BuildCallGraph
  <2>1. UNCHANGED inlining /\ UNCHANGED source /\ UNCHANGED started /\ CallGraphNext
    BY <1>3 DEF BuildCallGraph
  <2>2. mod' = mod
    BY <2>1 DEF CallGraphNext, AnalyzeDecl, VisitCallsite, VisitVertex, VisitSuccessor,
                VisitIndirectCall, LeaveFunction, BuildDone, LeaveVertex, TarjanDone
  <2> QED
    BY <2>1, <2>2, SameInliner
<1>4. CASE StartMarkLeafFunctions
  <2>1. UNCHANGED inlining /\ UNCHANGED <<source, mod>> /\ ~started /\ source.pass = "mark_leaf_functions"
    BY <1>4 DEF StartMarkLeafFunctions, HandOver
  <2> QED
    BY <2>1, SameInliner
<1>5. CASE MarkLeafFunctions
  <2>1. UNCHANGED inlining /\ UNCHANGED <<source, mod>> /\ UNCHANGED started
    BY <1>5 DEF MarkLeafFunctions, callgraph
  <2> QED
    BY <2>1, SameInliner
<1>6. CASE UNCHANGED passesvars
  <2>1. UNCHANGED inlining /\ UNCHANGED <<source, mod>> /\ UNCHANGED started
    BY <1>6 DEF passesvars, callgraph
  <2> QED
    BY <2>1, SameInliner
<1> QED
  BY <1>1, <1>2, <1>3, <1>4, <1>5, <1>6 DEF PassesNext

(* So it holds in every reachable state.                                   *)
LEMMA PassesInline == PassesSpec => []InlinerInv
<1>1. PassesInit => InlinerInv
  BY PassesInitInline
<1>2. InlinerInv /\ (SourceInv /\ GraphInv) /\ [PassesNext]_passesvars => InlinerInv'
  BY PassesNextInline
<1> QED
  BY <1>1, <1>2, PassesGraph, PTL DEF PassesSpec

(* opt_inline.c, given the call graph of the module, never inlines a       *)
(* function into itself, directly or through others: the flag is_recursive *)
(* stops it, for every module.                                             *)
THEOREM InliningEnds == PassesSpec => []NoRecursiveInlining
<1>1. InlinerInv => NoRecursiveInlining
  <2> SUFFICES ASSUME InlinerInv, NEW i \in 1 .. nesting, NEW j \in 1 .. nesting, i < j,
                      bodies[i].fn = bodies[j].fn
               PROVE  FALSE
    BY DEF NoRecursiveInlining
  <2>1. bodies[j].fn \in Reachable(bodies[j].fn) /\ bodies[j].fn \in Fn /\ j > 1
    BY DEF InlinerInv, InlinedReached, Reachable
  <2> QED
    BY <2>1 DEF InlinerInv, InlinedReached, OnCycle
<1> QED
  BY <1>1, PassesInline, PTL

(* Nor is a call left to a function it drops, with the flags the call      *)
(* graph really has.                                                       *)
THEOREM PassesKeepCallees == PassesSpec => []NoDanglingCall
<1>1. InlinerInv => NoDanglingCall
  BY DEF InlinerInv, InliningInv, NoDanglingCall, DroppedForGood, KeptAlive
<1> QED
  BY <1>1, PassesInline, PTL

-----------------------------------------------------------------------------
(* The graph of mark_leaf_functions is the module's.                       *)
SameCalls ==
  /\ \A f \in Fn : Callees(f) = Direct(f)
  /\ \A f \in Fn : CannotBeLeaf(f) <=> Obstacle(f)

ReachesObstacle(f) == \E g \in Fn : ReachesOrIs(f, g) /\ Obstacle(g)

(* What the table t says while the d calls of fr are active: a leaf bears  *)
(* no mark itself, what is ruled out reaches an obstacle, and what is not  *)
(* decided is being examined.                                              *)
AnswersOK(t, d, fr) ==
  \A f \in DOMAIN t :
    /\ t[f].done /\ t[f].is_leaf => ~Obstacle(f)
    /\ t[f].done /\ ~t[f].is_leaf => ReachesObstacle(f)
    /\ ~t[f].done => \E i \in 1 .. d : fr[i].fn = f

(* Each call examines a function that the ones below it reach.             *)
ChainOK(d, fr) ==
  /\ \A i, j \in 1 .. d : i < j => fr[j].fn \in Reachable(fr[i].fn)
  /\ \A i \in 1 .. d : ~Obstacle(fr[i].fn) /\ fr[i].todo \subseteq Direct(fr[i].fn)

WalkInv == AnswersOK(info, depth, frames) /\ ChainOK(depth, frames)

(* What reaches something that reaches an obstacle does so too.            *)
LEMMA ReachedObstacle ==
  ASSUME NEW f \in Fn, NEW g \in Fn, ReachesOrIs(f, g), ReachesObstacle(g)
  PROVE  ReachesObstacle(f)
<1>1. PICK h \in Fn : ReachesOrIs(g, h) /\ Obstacle(h)
  BY DEF ReachesObstacle
<1>2. ReachesOrIs(f, h)
  BY <1>1, ReachesTransitive
<1> QED
  BY <1>1, <1>2 DEF ReachesObstacle

(* An obstacle reaches itself.                                             *)
LEMMA ObstacleReached ==
  ASSUME NEW f \in Fn, Obstacle(f)
  PROVE  ReachesObstacle(f)
BY DEF ReachesObstacle, ReachesOrIs

(* Ruling out a function that reaches an obstacle.                         *)
LEMMA RuledOutAnswers ==
  ASSUME NEW t, IsTable(t), NEW f \in Fn, NEW d, NEW fr, AnswersOK(t, d, fr), ReachesObstacle(f)
  PROVE  AnswersOK(WithInfo(t, f, FALSE, TRUE), d, fr)
<1> DEFINE u == WithInfo(t, f, FALSE, TRUE)
<1>1. /\ DOMAIN u = DOMAIN t \cup {f} /\ u[f] = [is_leaf |-> FALSE, done |-> TRUE]
      /\ \A g \in DOMAIN t : g # f => u[g] = t[g]
  BY WithInfoFacts
<1> HIDE DEF u
<1>2. u[f].done /\ ~u[f].is_leaf
  BY <1>1
<1>3. ASSUME NEW g \in DOMAIN u
      PROVE  /\ u[g].done /\ u[g].is_leaf => ~Obstacle(g)
             /\ u[g].done /\ ~u[g].is_leaf => ReachesObstacle(g)
             /\ ~u[g].done => \E i \in 1 .. d : fr[i].fn = g
  <2>1. CASE g = f
    BY <1>2, <2>1
  <2>2. CASE g # f
    BY <1>1, <2>2 DEF AnswersOK
  <2> QED
    BY <2>1, <2>2
<1>4. AnswersOK(u, d, fr)
  BY <1>3 DEF AnswersOK
<1> QED
  BY <1>4 DEF u

(* A caller that is told no reaches an obstacle.                           *)
LEMMA TakeAnswerAnswers ==
  ASSUME NEW t, IsTable(t), NEW d, NEW n, NEW fr, AnswersOK(t, d, fr), NEW leaf,
         frames[n].fn \in Fn, ~leaf => ReachesObstacle(frames[n].fn)
  PROVE  AnswersOK(TakeAnswer(t, n, leaf), d, fr)
<1>1. CASE leaf \/ frames[n].generation # generation'
  BY <1>1 DEF TakeAnswer
<1>2. CASE ~(leaf \/ frames[n].generation # generation')
  <2>1. TakeAnswer(t, n, leaf) = WithInfo(t, frames[n].fn, FALSE, TRUE)
    BY <1>2 DEF TakeAnswer
  <2> QED
    BY <1>2, <2>1, RuledOutAnswers
<1> QED
  BY <1>1, <1>2

(* The function being asked about is called by the one at the top, and by  *)
(* what is below it.                                                       *)
LEMMA AskedReached ==
  ASSUME LeafInv, ChainOK(depth, frames), SameCalls, NEW c \in Fn, Asks(c), depth > 0
  PROVE  /\ Top = frames[depth] /\ Top.fn \in Fn /\ depth \in Nat /\ depth \in 1 .. depth
         /\ c \in Direct(Top.fn)
         /\ \A i \in 1 .. depth : frames[i].fn \in Fn /\ c \in Reachable(frames[i].fn)
<1>1. depth \in Nat /\ frames \in [1 .. depth -> FrameType]
  BY TypeFacts
<1>2. depth \in 1 .. depth /\ Top = frames[depth]
  BY <1>1 DEF Top
<1>3. \A i \in 1 .. depth : frames[i].fn \in Fn
  BY <1>1 DEF FrameType
<1>4. c \in Direct(Top.fn)
  BY <1>2 DEF ChainOK, Asks
<1>5. ASSUME NEW i \in 1 .. depth PROVE c \in Reachable(frames[i].fn)
  <2>1. i = depth \/ i < depth
    BY <1>1
  <2>2. ReachesOrIs(frames[i].fn, Top.fn)
    BY <2>1, <1>2 DEF ReachesOrIs, ChainOK
  <2> QED
    BY <2>2, <1>2, <1>3, <1>4, ReachesDirect
<1> QED
  BY <1>1, <1>2, <1>3, <1>4, <1>5

(* An answer that is given at once.                                        *)
LEMMA AnswerAnswers ==
  ASSUME LeafInv, WalkInv, SameCalls, NEW c \in Fn, Asks(c), NEW t, IsTable(t),
         AnswersOK(t, depth, frames), NEW leaf, ~leaf => ReachesObstacle(c),
         Answer(c, t, leaf)
  PROVE  AnswersOK(info', depth', frames') /\ ChainOK(depth', frames')
<1>1. CASE depth = 0
  <2>1. info' = t /\ UNCHANGED <<depth, frames>>
    BY <1>1 DEF Answer, walk
  <2> QED
    BY <2>1 DEF WalkInv
<1>2. CASE depth # 0
  <2>1. info' = TakeAnswer(t, depth, leaf) /\ frames' = Asked(c) /\ depth' = depth
    BY <1>2 DEF Answer
  <2>2. depth > 0
    BY <1>2, TypeFacts
  <2>3. /\ Top = frames[depth] /\ Top.fn \in Fn /\ c \in Direct(Top.fn)
        /\ depth \in Nat /\ depth \in 1 .. depth
    BY <2>2, AskedReached DEF WalkInv
  <2>4. ReachesOrIs(Top.fn, c)
    BY <2>3, DirectIsReachable DEF ReachesOrIs
  <2>5. ~leaf => ReachesObstacle(Top.fn)
    BY <2>3, <2>4, ReachedObstacle
  <2>6. AnswersOK(info', depth, frames)
    BY <2>1, <2>3, <2>5, TakeAnswerAnswers
  <2>7. \A i \in 1 .. depth : /\ Asked(c)[i].fn = frames[i].fn
                              /\ Asked(c)[i].todo \subseteq frames[i].todo
    <3>1. /\ \A i \in 1 .. depth : /\ Asked(c)[i].fn = frames[i].fn
                                   /\ i < depth => Asked(c)[i].todo = frames[i].todo
          /\ Asked(c)[depth].todo = Top.todo \ {c}
      BY <2>2, AskedFacts
    <3>2. \A i \in 1 .. depth : i < depth \/ i = depth
      BY <2>3
    <3> QED
      BY <3>1, <3>2, <2>3
  <2>8. AnswersOK(info', depth, Asked(c))
    BY <2>6, <2>7 DEF AnswersOK
  <2>9. ChainOK(depth, Asked(c))
    BY <2>7 DEF WalkInv, ChainOK
  <2> QED
    BY <2>1, <2>8, <2>9
<1> QED
  BY <1>1, <1>2

(* A function that has been seen; one still examined is recursive.         *)
LEMMA AskSeenWalk ==
  ASSUME LeafInv, WalkInv, SameCalls, NEW c \in Fn, AskSeen(c)
  PROVE  AnswersOK(info', depth', frames') /\ ChainOK(depth', frames')
<1> DEFINE t == Revisited(c)
           leaf == t[c].is_leaf
<1>1. Asks(c) /\ c \in Seen /\ Answer(c, t, leaf)
  BY DEF AskSeen
<1>2. IsTable(info) /\ depth \in Nat
  BY TypeFacts
<1>3. CASE info[c].done
  <2>1. t = info
    BY <1>3 DEF Revisited
  <2>2. ~info[c].is_leaf => ReachesObstacle(c)
    BY <1>1, <1>3 DEF WalkInv, AnswersOK, Seen
  <2> HIDE DEF t
  <2>3. IsTable(t) /\ AnswersOK(t, depth, frames) /\ (~leaf => ReachesObstacle(c))
    BY <2>1, <2>2, <1>2 DEF WalkInv
  <2> HIDE DEF leaf
  <2> QED
    BY <1>1, <2>3, AnswerAnswers
<1>4. CASE ~info[c].done
  <2>1. t = WithInfo(info, c, FALSE, TRUE)
    BY <1>4 DEF Revisited
  <2>2. PICK i \in 1 .. depth : frames[i].fn = c
    BY <1>1, <1>4 DEF WalkInv, AnswersOK, Seen
  <2>3. depth > 0
    BY <1>2
  <2>4. c \in Reachable(c)
    BY <1>1, <2>2, <2>3, AskedReached DEF WalkInv
  <2>5. Obstacle(c)
    BY <2>4 DEF Obstacle, OnCycle
  <2>6. ReachesObstacle(c)
    BY <2>5, ObstacleReached
  <2>7. /\ IsTable(WithInfo(info, c, FALSE, TRUE))
        /\ AnswersOK(WithInfo(info, c, FALSE, TRUE), depth, frames)
    BY <1>2, <2>6, RuledOutAnswers, WithInfoFacts DEF WalkInv
  <2> HIDE DEF t, leaf
  <2> QED
    BY <1>1, <2>1, <2>6, <2>7, AnswerAnswers
<1> QED
  BY <1>3, <1>4

(* A new function that is ruled out.                                       *)
LEMMA AskRuledOutWalk ==
  ASSUME LeafInv, WalkInv, SameCalls, NEW c \in Fn, AskRuledOut(c)
  PROVE  AnswersOK(info', depth', frames') /\ ChainOK(depth', frames')
<1>1. Asks(c) /\ CannotBeLeaf(c) /\ Answer(c, WithInfo(info, c, FALSE, TRUE), FALSE)
  BY DEF AskRuledOut
<1>2. ReachesObstacle(c)
  BY <1>1, ObstacleReached DEF SameCalls
<1>3. IsTable(info)
  BY TypeFacts
<1>4. /\ IsTable(WithInfo(info, c, FALSE, TRUE))
      /\ AnswersOK(WithInfo(info, c, FALSE, TRUE), depth, frames)
  BY <1>2, <1>3, RuledOutAnswers, WithInfoFacts DEF WalkInv
<1> QED
  BY <1>1, <1>2, <1>4, AnswerAnswers

(* A new function to examine.                                              *)
LEMMA AskCalleesWalk ==
  ASSUME LeafInv, WalkInv, SameCalls, NEW c \in Fn, AskCallees(c)
  PROVE  AnswersOK(info', depth', frames') /\ ChainOK(depth', frames')
<1> DEFINE n == depth
<1>1. /\ Asks(c) /\ c \notin Seen /\ ~CannotBeLeaf(c) /\ info' = WithInfo(info, c, FALSE, FALSE)
      /\ depth' = n + 1
      /\ frames' = [i \in 1 .. n + 1 |-> IF i <= n THEN Asked(c)[i] ELSE Frame(c)]
  BY DEF AskCallees
<1>2. n \in Nat /\ IsTable(info)
  BY TypeFacts
<1>3. Frame(c).fn = c /\ Frame(c).todo = Direct(c)
  BY DEF Frame, SameCalls
<1>4. depth = n /\ AnswersOK(info, n, frames) /\ ChainOK(n, frames)
  BY DEF WalkInv
<1> HIDE DEF n
<1>5. \A i \in 1 .. n + 1 : (i \in 1 .. n /\ i <= n) \/ (i = n + 1 /\ ~(i <= n))
  BY <1>2
<1>6. ASSUME NEW i \in 1 .. n
      PROVE  frames'[i].fn = frames[i].fn /\ frames'[i].todo \subseteq frames[i].todo
  <2>1. n > 0 /\ n \in 1 .. n /\ (i < n \/ i = n) /\ i <= n /\ i \in 1 .. n + 1
    BY <1>2
  <2>2. /\ Asked(c)[i].fn = frames[i].fn
        /\ i < n => Asked(c)[i].todo = frames[i].todo
        /\ Asked(c)[n].todo = Top.todo \ {c}
    BY <1>4, <2>1, AskedFacts
  <2>3. Top = frames[n]
    BY <1>4 DEF Top
  <2>4. frames'[i] = Asked(c)[i]
    BY <1>1, <2>1
  <2> QED
    BY <2>1, <2>2, <2>3, <2>4
<1>7. frames'[n + 1].fn = c /\ frames'[n + 1].todo = Direct(c) /\ n + 1 \in 1 .. n + 1
  <2>1. n + 1 \in 1 .. n + 1 /\ ~(n + 1 <= n)
    BY <1>2
  <2> QED
    BY <2>1, <1>1, <1>3
<1>8. \A i \in 1 .. n : i \in 1 .. n + 1
  BY <1>2
<1>9. /\ DOMAIN info' = DOMAIN info \cup {c} /\ info'[c] = [is_leaf |-> FALSE, done |-> FALSE]
      /\ \A g \in DOMAIN info : g # c => info'[g] = info[g]
  BY <1>1, <1>2, WithInfoFacts
<1>10. ~info'[c].done
  BY <1>9
<1>11. AnswersOK(info', n + 1, frames')
  <2> SUFFICES ASSUME NEW f \in DOMAIN info'
               PROVE  /\ info'[f].done /\ info'[f].is_leaf => ~Obstacle(f)
                      /\ info'[f].done /\ ~info'[f].is_leaf => ReachesObstacle(f)
                      /\ ~info'[f].done => \E i \in 1 .. n + 1 : frames'[i].fn = f
    BY DEF AnswersOK
  <2>1. CASE f = c
    BY <2>1, <1>7, <1>10
  <2>2. CASE f # c
    BY <2>2, <1>4, <1>6, <1>8, <1>9 DEF AnswersOK
  <2> QED
    BY <2>1, <2>2
<1>12. ASSUME NEW i \in 1 .. n PROVE c \in Reachable(frames[i].fn)
  <2>1. depth > 0
    BY <1>2, <1>4
  <2> QED
    BY <2>1, <1>1, <1>4, AskedReached
<1>13. ChainOK(n + 1, frames')
  <2>1. ASSUME NEW i \in 1 .. n + 1, NEW j \in 1 .. n + 1, i < j
        PROVE  frames'[j].fn \in Reachable(frames'[i].fn)
    <3>1. i \in 1 .. n
      BY <2>1, <1>2
    <3>2. CASE j \in 1 .. n
      BY <2>1, <3>1, <3>2, <1>4, <1>6 DEF ChainOK
    <3>3. CASE j = n + 1
      BY <3>1, <3>3, <1>6, <1>7, <1>12
    <3> QED
      BY <3>2, <3>3, <1>5
  <2>2. ASSUME NEW i \in 1 .. n + 1
        PROVE  ~Obstacle(frames'[i].fn) /\ frames'[i].todo \subseteq Direct(frames'[i].fn)
    <3>1. CASE i \in 1 .. n
      BY <3>1, <1>4, <1>6 DEF ChainOK
    <3>2. CASE i = n + 1
      BY <3>2, <1>1, <1>7 DEF SameCalls
    <3> QED
      BY <3>1, <3>2, <1>5
  <2> QED
    BY <2>1, <2>2 DEF ChainOK
<1> QED
  BY <1>1, <1>11, <1>13

(* The end of is_leaf_fn.                                                  *)
LEMMA FinishWalk ==
  ASSUME LeafInv, WalkInv, SameCalls, Finish
  PROVE  AnswersOK(info', depth', frames') /\ ChainOK(depth', frames')
<1> DEFINE n == depth - 1
           f == Top.fn
           t == Finished(f)
           leaf == t[f].is_leaf
<1>1. /\ depth > 0 /\ depth' = n /\ frames' = [i \in 1 .. n |-> frames[i]]
      /\ depth = 1 => info' = t
      /\ depth # 1 => info' = TakeAnswer(t, n, leaf)
  BY DEF Finish
<1>2. depth \in Nat /\ IsTable(info) /\ frames \in [1 .. depth -> FrameType]
  BY TypeFacts
<1>3. /\ depth \in 1 .. depth /\ Top = frames[depth] /\ f \in Fn /\ \A i \in 1 .. depth : frames[i].fn \in Fn
  BY <1>1, <1>2 DEF Top, FrameType
<1>4. f \in DOMAIN info /\ ~Obstacle(f)
  BY <1>3 DEF LeafInv, StackOK, Examined, WalkInv, ChainOK
<1>5. /\ n \in Nat /\ \A i \in 1 .. n : i \in 1 .. depth /\ i < depth
      /\ \A i \in 1 .. depth : i \in 1 .. n \/ i = depth
  BY <1>1, <1>2
<1>6. \A i \in 1 .. n : frames'[i] = frames[i]
  BY <1>1
<1>7. IsTable(t) /\ AnswersOK(t, n, frames) /\ t[f].done /\ f \in DOMAIN t
  <2>1. CASE info[f].done
    <3>1. t = info
      BY <2>1 DEF Finished
    <3> HIDE DEF t, f
    <3>2. AnswersOK(info, n, frames)
      <4>1. \A g \in DOMAIN info : ~info[g].done => g # f
        BY <2>1
      <4> QED
        BY <4>1, <1>3, <1>5 DEF WalkInv, AnswersOK, f
    <3> QED
      BY <2>1, <3>1, <3>2, <1>2, <1>4
  <2>2. CASE ~info[f].done
    <3>1. t = WithInfo(info, f, TRUE, TRUE)
      BY <2>2 DEF Finished
    <3>2. frames[depth].fn = f
      BY <1>3
    <3> HIDE DEF t, f
    <3>3. /\ IsTable(t) /\ DOMAIN t = DOMAIN info \cup {f} /\ t[f] = [is_leaf |-> TRUE, done |-> TRUE]
          /\ \A g \in DOMAIN info : g # f => t[g] = info[g]
      BY <3>1, <1>2, <1>3, WithInfoFacts
    <3>4. t[f].done /\ t[f].is_leaf
      BY <3>3
    <3>5. AnswersOK(t, n, frames)
      <4> SUFFICES ASSUME NEW g \in DOMAIN t
                   PROVE  /\ t[g].done /\ t[g].is_leaf => ~Obstacle(g)
                          /\ t[g].done /\ ~t[g].is_leaf => ReachesObstacle(g)
                          /\ ~t[g].done => \E i \in 1 .. n : frames[i].fn = g
        BY DEF AnswersOK
      <4>1. CASE g = f
        BY <4>1, <3>4, <1>4
      <4>2. CASE g # f
        BY <4>2, <3>2, <3>3, <1>5 DEF WalkInv, AnswersOK
      <4> QED
        BY <4>1, <4>2
    <3> QED
      BY <3>3, <3>4, <3>5
  <2> QED
    BY <2>1, <2>2
<1>8. ~leaf => ReachesObstacle(f)
  BY <1>7 DEF AnswersOK
<1> HIDE DEF t, leaf
<1>9. AnswersOK(info', n, frames)
  <2>1. CASE depth = 1
    BY <2>1, <1>1, <1>7
  <2>2. CASE depth # 1
    <3>1. n \in 1 .. n
      BY <2>2, <1>1, <1>2
    <3>2. frames[n].fn \in Fn /\ f \in Reachable(frames[n].fn)
      BY <3>1, <1>3, <1>5 DEF WalkInv, ChainOK
    <3>3. ~leaf => ReachesObstacle(frames[n].fn)
      BY <3>2, <1>3, <1>8, ReachedObstacle DEF ReachesOrIs
    <3> HIDE DEF n
    <3> QED
      BY <2>2, <3>2, <3>3, <1>1, <1>7, TakeAnswerAnswers
  <2> QED
    BY <2>1, <2>2
<1> HIDE DEF n
<1>10. AnswersOK(info', n, frames')
  BY <1>6, <1>9 DEF AnswersOK
<1>11. ChainOK(n, frames')
  BY <1>5, <1>6 DEF WalkInv, ChainOK
<1> QED
  BY <1>1, <1>10, <1>11

LeavesInv ==
  /\ LeafInv /\ WalkInv
  /\ ~started => Seen = {} /\ depth = 0 /\ processed = {} /\ annotated = {}
  /\ Seen # {} => started /\ source.pass = "mark_leaf_functions"
  /\ started /\ source.pass = "mark_leaf_functions" => SameCalls

(* The module alone says what an obstacle is and what reaches one.         *)
LEMMA SameObstacles ==
  ASSUME UNCHANGED <<source, mod>>
  PROVE  /\ \A f : Obstacle(f)' <=> Obstacle(f)
         /\ \A f : ReachesObstacle(f)' <=> ReachesObstacle(f)
         /\ \A f : Direct(f)' = Direct(f) /\ Reachable(f)' = Reachable(f)
<1>1. /\ \A f : Direct(f)' = Direct(f) /\ Reachable(f)' = Reachable(f)
      /\ \A f, g : ReachesOrIs(f, g)' <=> ReachesOrIs(f, g)
      /\ OnCycle' = OnCycle
  BY SameModule
<1>2. \A f : Obstacle(f)' <=> Obstacle(f)
  BY <1>1 DEF Obstacle
<1> QED
  BY <1>1, <1>2 DEF ReachesObstacle

(* Whether the invariant is about the state before or after makes no matter.*)
LEMMA WalkInvLater ==
  ASSUME UNCHANGED <<source, mod>>, AnswersOK(info', depth', frames'), ChainOK(depth', frames')
  PROVE  WalkInv'
<1>1. AnswersOK(info, depth, frames)'
  BY SameObstacles DEF AnswersOK
<1>2. ChainOK(depth, frames)'
  BY SameObstacles DEF ChainOK
<1> QED
  BY <1>1, <1>2 DEF WalkInv

(* The beginning.                                                          *)
LEMMA PassesInitLeaves == ASSUME PassesInit PROVE LeavesInv
<1>1. started = FALSE /\ Init
  BY DEF PassesInit, PassesBefore
<1>2. LeafInv
  BY <1>1, LeafInitInv
<1>3. Seen = {} /\ depth = 0 /\ processed = {} /\ annotated = {} /\ 1 .. 0 = {}
  BY <1>1 DEF Init, Seen
<1>4. WalkInv
  BY <1>3 DEF WalkInv, AnswersOK, ChainOK, Seen
<1> QED
  BY <1>1, <1>2, <1>3, <1>4 DEF LeavesInv

(* The call graph is handed over to an analysis that has not begun.        *)
LEMMA StartLeavesInv ==
  ASSUME SourceInv, GraphInv, LeavesInv, StartMarkLeafFunctions
  PROVE  LeavesInv'
<1>1. /\ source.pass = "mark_leaf_functions" /\ HandOver /\ ~started /\ started' = TRUE
      /\ graph' = [callees |-> callees, is_address_captured |-> is_address_captured,
                   calls_indirect |-> calls_indirect, is_recursive |-> is_recursive,
                   escapes |-> source.escapes]
      /\ UNCHANGED <<info, capacity, generation, depth, frames, processed, annotated>>
      /\ UNCHANGED <<source, mod>>
  BY DEF StartMarkLeafFunctions, HandOver
<1>2. /\ GraphBuilt /\ is_recursive = OnCycle
      /\ is_address_captured = source.captured /\ calls_indirect = source.indirect
  BY <1>1, HandOverGraph
<1>3. Seen = {} /\ depth = 0 /\ processed = {} /\ annotated = {} /\ DOMAIN info = {} /\ 1 .. 0 = {}
  BY <1>1 DEF LeavesInv, Seen
<1>4. /\ graph'.callees = callees /\ graph'.is_address_captured = source.captured
      /\ graph'.calls_indirect = source.indirect /\ graph'.is_recursive = OnCycle
      /\ graph'.escapes = source.escapes
  BY <1>1, <1>2
<1>5. graph' \in InputType
  <2>1. callees \in [Fn -> SUBSET Fn]
    BY <1>1 DEF GraphInv, CallGraphInv, CallGraphTypeOK
  <2>2. is_address_captured \subseteq Fn /\ calls_indirect \subseteq Fn /\ is_recursive \subseteq Fn
        /\ source.escapes \subseteq Fn
    BY <1>1 DEF GraphInv, CallGraphInv, CallGraphTypeOK, SourceInv, SourceType
  <2> QED
    BY <1>1, <2>1, <2>2 DEF InputType
<1>6. TypeOK'
  BY <1>1, <1>5 DEF LeavesInv, LeafInv, TypeOK, Seen
<1>7. LeafInv'
  <2>1. ClosedTable(info)'
    BY <1>1, <1>3 DEF ClosedTable, LeafIn
  <2>2. StackOK(info, depth, frames)'
    BY <1>1, <1>3 DEF StackOK, Examined, Distinct, VisitedAreLeaves
  <2> QED
    BY <1>1, <1>6, <2>1, <2>2 DEF LeavesInv, LeafInv
<1>8. WalkInv'
  <2>1. AnswersOK(info, depth, frames)'
    BY <1>1, <1>3 DEF AnswersOK
  <2>2. ChainOK(depth, frames)'
    BY <1>1, <1>3 DEF ChainOK
  <2> QED
    BY <2>1, <2>2 DEF WalkInv
<1>9. SameCalls'
  <2>1. \A f \in Fn : Callees(f)' = Direct(f)'
    BY <1>1, <1>2, <1>4, SameObstacles DEF Callees, GraphBuilt
  <2>2. \A f : CannotBeLeaf(f)' <=> Obstacle(f)
    BY <1>4 DEF CannotBeLeaf, Obstacle
  <2> QED
    BY <1>1, <2>1, <2>2, SameObstacles DEF SameCalls
<1> QED
  BY <1>1, <1>3, <1>7, <1>8, <1>9 DEF LeavesInv, Seen

(* The steps of the analysis.                                              *)
LEMMA MarkLeavesInv ==
  ASSUME Fits, SourceInv, LeavesInv, MarkLeafFunctions
  PROVE  LeavesInv'
<1>1. /\ started /\ source.pass = "mark_leaf_functions" /\ Next
      /\ UNCHANGED <<source, started, callgraph>> /\ LeafInv /\ WalkInv /\ SameCalls
  BY DEF MarkLeafFunctions, LeavesInv
<1>2. UNCHANGED <<source, mod>>
  BY <1>1 DEF callgraph
<1>3. LeafInv'
  BY <1>1, LeafNextInv
<1>4. /\ AnswersOK(info', depth', frames') /\ ChainOK(depth', frames')
      /\ graph' = graph
  <2>1. ASSUME NEW c \in Fn, AskSeen(c)
        PROVE  AnswersOK(info', depth', frames') /\ ChainOK(depth', frames') /\ graph' = graph
    BY <2>1, <1>1, AskSeenWalk DEF AskSeen
  <2>2. ASSUME NEW c \in Fn, AskRuledOut(c)
        PROVE  AnswersOK(info', depth', frames') /\ ChainOK(depth', frames') /\ graph' = graph
    BY <2>2, <1>1, AskRuledOutWalk DEF AskRuledOut
  <2>3. ASSUME NEW c \in Fn, AskCallees(c)
        PROVE  AnswersOK(info', depth', frames') /\ ChainOK(depth', frames') /\ graph' = graph
    BY <2>3, <1>1, AskCalleesWalk DEF AskCallees
  <2>4. ASSUME Finish
        PROVE  AnswersOK(info', depth', frames') /\ ChainOK(depth', frames') /\ graph' = graph
    BY <2>4, <1>1, FinishWalk DEF Finish
  <2> QED
    BY <1>1, <2>1, <2>2, <2>3, <2>4 DEF Next
<1>5. WalkInv'
  BY <1>2, <1>4, WalkInvLater
<1>6. SameCalls'
  <2>1. \A f : Callees(f)' = Callees(f)
    BY <1>4 DEF Callees
  <2>2. \A f : CannotBeLeaf(f)' <=> CannotBeLeaf(f)
    BY <1>4 DEF CannotBeLeaf
  <2> QED
    BY <1>1, <1>2, <2>1, <2>2, SameObstacles DEF SameCalls
<1> QED
  BY <1>1, <1>3, <1>5, <1>6 DEF LeavesInv

(* Nothing the analysis looks at changes.                                  *)
LEMMA SameLeaves ==
  ASSUME Fits, LeavesInv, UNCHANGED leaves, UNCHANGED <<source, mod>>,
         started' = started \/ (~started /\ source.pass # "mark_leaf_functions")
  PROVE  LeavesInv'
<1>1. UNCHANGED <<graph, info, capacity, generation, depth, frames, processed, annotated>>
  BY DEF leaves
<1>2. UNCHANGED vars
  BY <1>1 DEF vars
<1>3. LeafInv'
  BY <1>2, LeafNextInv DEF LeavesInv
<1>4. WalkInv'
  BY <1>1, WalkInvLater DEF LeavesInv, WalkInv
<1>5. SameCalls => SameCalls'
  <2>1. \A f : Callees(f)' = Callees(f)
    BY <1>1 DEF Callees
  <2>2. \A f : CannotBeLeaf(f)' <=> CannotBeLeaf(f)
    BY <1>1 DEF CannotBeLeaf
  <2> QED
    BY <2>1, <2>2, SameObstacles DEF SameCalls
<1>6. Seen' = Seen
  BY <1>1 DEF Seen
<1>7. CASE started' = started
  BY <1>1, <1>3, <1>4, <1>5, <1>6, <1>7 DEF LeavesInv
<1>8. CASE ~started /\ source.pass # "mark_leaf_functions"
  <2>1. Seen = {} /\ depth = 0 /\ processed = {} /\ annotated = {}
    BY <1>8 DEF LeavesInv
  <2> QED
    BY <1>1, <1>3, <1>4, <1>6, <1>8, <2>1 DEF LeavesInv
<1> QED
  BY <1>7, <1>8

(* Every step.                                                             *)
LEMMA PassesNextLeaves ==
  ASSUME Fits, SourceInv, GraphInv, LeavesInv, [PassesNext]_passesvars
  PROVE  LeavesInv'
<1>1. CASE StartMarkLeafFunctions
  BY <1>1, StartLeavesInv
<1>2. CASE MarkLeafFunctions
  BY <1>2, MarkLeavesInv
<1>3. CASE BuildCallGraph
  <2>1. UNCHANGED leaves /\ UNCHANGED source /\ UNCHANGED started /\ CallGraphNext
    BY <1>3 DEF BuildCallGraph
  <2>2. mod' = mod
    BY <2>1 DEF CallGraphNext, AnalyzeDecl, VisitCallsite, VisitVertex, VisitSuccessor,
                VisitIndirectCall, LeaveFunction, BuildDone, LeaveVertex, TarjanDone
  <2> QED
    BY <2>1, <2>2, SameLeaves
<1>4. CASE StartInline
  <2>1. UNCHANGED leaves /\ UNCHANGED <<source, mod>> /\ ~started /\ source.pass = "inline"
    BY <1>4 DEF StartInline, HandOver
  <2> QED
    BY <2>1, SameLeaves
<1>5. CASE Inline
  <2>1. UNCHANGED leaves /\ UNCHANGED <<source, mod>> /\ UNCHANGED started
    BY <1>5 DEF Inline, callgraph
  <2> QED
    BY <2>1, SameLeaves
<1>6. CASE UNCHANGED passesvars
  <2>1. UNCHANGED leaves /\ UNCHANGED <<source, mod>> /\ UNCHANGED started
    BY <1>6 DEF passesvars, callgraph
  <2> QED
    BY <2>1, SameLeaves
<1> QED
  BY <1>1, <1>2, <1>3, <1>4, <1>5, <1>6 DEF PassesNext

(* What the invariants say of the answers.                                 *)
LEMMA LeavesAreExact ==
  ASSUME LeavesInv
  PROVE  LeavesReachNoObstacle
<1> SUFFICES ASSUME NEW f \in Seen, info[f].done
             PROVE  info[f].is_leaf <=> \A g \in {f} \cup Reachable(f) : ~Obstacle(g)
  BY DEF LeavesReachNoObstacle
<1>1. SameCalls /\ LeafInv /\ WalkInv /\ f \in Fn
  BY DEF LeavesInv, LeafInv, TypeOK
<1>2. \A g \in Fn : LeafIn(info, g) => ~Obstacle(g)
  BY <1>1 DEF WalkInv, AnswersOK, LeafIn
<1>3. CASE info[f].is_leaf
  <2> DEFINE L == {g \in Fn : LeafIn(info, g)}
  <2>1. f \in L
    BY <1>1, <1>3 DEF LeafIn, Seen
  <2>2. \A g \in L : Direct(g) \subseteq L
    <3> SUFFICES ASSUME NEW g \in L, NEW h \in Direct(g) PROVE h \in L
      OBVIOUS
    <3>1. h \in Callees(g) /\ h \in Fn
      BY <1>1, DirectType DEF SameCalls
    <3> QED
      BY <3>1, <1>1 DEF LeafInv, ClosedTable
  <2>3. L \in SUBSET Fn
    OBVIOUS
  <2> HIDE DEF L
  <2>4. Reachable(f) \subseteq L
    BY <2>1, <2>2, <2>3, ReachableLeast DEF Closed
  <2>5. \A g \in L : ~Obstacle(g)
    BY <1>2 DEF L
  <2> QED
    BY <1>3, <2>1, <2>4, <2>5
<1>4. CASE ~info[f].is_leaf
  <2>1. ReachesObstacle(f)
    BY <1>1, <1>4 DEF WalkInv, AnswersOK, Seen
  <2> QED
    BY <1>4, <2>1 DEF ReachesObstacle, ReachesOrIs
<1> QED
  BY <1>3, <1>4

(* So it holds in every reachable state.                                   *)
LEMMA PassesLeaves ==
  ASSUME Fits
  PROVE  PassesSpec => []LeavesInv
<1>1. PassesInit => LeavesInv
  BY PassesInitLeaves
<1>2. LeavesInv /\ (SourceInv /\ GraphInv) /\ [PassesNext]_passesvars => LeavesInv'
  BY PassesNextLeaves
<1> QED
  BY <1>1, <1>2, PassesGraph, PTL DEF PassesSpec

(* mark_leaf_functions answers "leaf" of exactly the functions that reach  *)
(* nothing whose address is taken, that calls a pointer or that can call   *)
(* itself, for every module whose functions fit into the first hash table  *)
(* and in whatever order functions and callees are taken.                  *)
THEOREM LeavesExact ==
  ASSUME Fits
  PROVE  PassesSpec => []LeavesReachNoObstacle
<1>1. LeavesInv => LeavesReachNoObstacle
  BY LeavesAreExact
<1> QED
  BY <1>1, PassesLeaves, PTL

(* With the call graph of the module the answers are closed under calls.   *)
THEOREM PassesLeavesClosed ==
  ASSUME Fits
  PROVE  PassesSpec => []LeavesCallLeaves
<1>1. LeavesInv => LeavesCallLeaves
  BY LeafInvCloses DEF LeavesInv
<1> QED
  BY <1>1, PassesLeaves, PTL
=============================================================================
