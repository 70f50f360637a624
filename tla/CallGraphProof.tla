--------------------------- MODULE CallGraphProof ---------------------------
(***************************************************************************)
(* The call graph has every call and marks exactly the recursive           *)
(* functions, for every module and every order of the walks.               *)
(*                                                                         *)
(* The graph: while bodies are walked, a call that is not in the graph yet *)
(* is still to be visited in the frame of its caller, or is the one whose  *)
(* callee is being walked.  Tarjan's algorithm: every function on its      *)
(* stack reaches the function at the top of the C stack, and each function *)
(* of the C stack reaches those entered after it; a lowlink is the index   *)
(* of a function on the stack that can be reached, and no greater than     *)
(* that of any one to which an edge was explored.  So what a root pops is  *)
(* a whole strongly connected component.                                   *)
(***************************************************************************)
EXTENDS CallGraph, SequenceTheorems, TLAPS

-----------------------------------------------------------------------------
(* Reachability.                                                           *)
ReachesOrIs(f, g) == g = f \/ g \in Reachable(f)

(* The callees of a function are functions.                                *)
LEMMA DirectType == ASSUME NEW f PROVE Direct(f) \subseteq Fn
  BY DEF Direct

(* What a function reaches are functions.                                  *)
LEMMA ReachableType == ASSUME NEW f PROVE Reachable(f) \subseteq Fn
  BY DEF Reachable

(* One call reaches.                                                       *)
LEMMA DirectIsReachable == ASSUME NEW f, NEW g \in Direct(f) PROVE g \in Reachable(f)
  BY DEF Reachable, Direct

(* What is reachable is closed under calls.                                *)
LEMMA ReachableClosed == ASSUME NEW f \in Fn PROVE Closed(Reachable(f))
<1> SUFFICES ASSUME NEW g \in Reachable(f), NEW h \in Direct(g) PROVE h \in Reachable(f)
  BY DEF Closed
<1>1. h \in Fn
  BY DirectType
<1>2. ASSUME NEW S \in SUBSET Fn, Closed(S), Direct(f) \subseteq S PROVE h \in S
  <2>1. g \in S
    BY <1>2 DEF Reachable
  <2> QED
    BY <1>2, <2>1 DEF Closed
<1> QED
  BY <1>1, <1>2 DEF Reachable

(* A closed set with the callees of f has everything f reaches.            *)
LEMMA ReachableLeast ==
  ASSUME NEW f, NEW S \in SUBSET Fn, Closed(S), Direct(f) \subseteq S
  PROVE  Reachable(f) \subseteq S
  BY DEF Reachable

(* A function reaches what those it reaches do.                            *)
LEMMA ReachableTransitive ==
  ASSUME NEW f \in Fn, NEW g \in Fn, NEW h \in Fn, ReachesOrIs(f, g), h \in Reachable(g)
  PROVE  h \in Reachable(f)
<1>1. CASE g = f
  BY <1>1
<1>2. CASE g \in Reachable(f)
  <2>1. Direct(g) \subseteq Reachable(f)
    BY <1>2, ReachableClosed DEF Closed
  <2>2. Reachable(g) \subseteq Reachable(f)
    BY <2>1, ReachableClosed, ReachableType, ReachableLeast
  <2> QED
    BY <2>2
<1> QED
  BY <1>1, <1>2 DEF ReachesOrIs

(* The same, where a function may be reached by no call at all.            *)
LEMMA ReachesTransitive ==
  ASSUME NEW f \in Fn, NEW g \in Fn, NEW h \in Fn, ReachesOrIs(f, g), ReachesOrIs(g, h)
  PROVE  ReachesOrIs(f, h)
  BY ReachableTransitive DEF ReachesOrIs

(* One call more.                                                          *)
LEMMA ReachesDirect ==
  ASSUME NEW f \in Fn, NEW g \in Fn, NEW h \in Direct(g), ReachesOrIs(f, g)
  PROVE  ReachesOrIs(f, h) /\ h \in Reachable(f)
<1>1. h \in Fn /\ h \in Reachable(g)
  BY DirectType, DirectIsReachable
<1> QED
  BY <1>1, ReachableTransitive DEF ReachesOrIs

(* Two functions that reach each other are on a cycle.                     *)
LEMMA MutualIsCycle ==
  ASSUME NEW f \in Fn, NEW g \in Fn, f # g, ReachesOrIs(f, g), ReachesOrIs(g, f)
  PROVE  f \in OnCycle /\ g \in OnCycle
<1>1. g \in Reachable(f) /\ f \in Reachable(g)
  BY DEF ReachesOrIs
<1>2. f \in Reachable(f) /\ g \in Reachable(g)
  BY <1>1, ReachableTransitive
<1> QED
  BY <1>2 DEF OnCycle

(* The module alone decides.                                               *)
LEMMA SameModule ==
  ASSUME mod' = mod
  PROVE  /\ \A f : Direct(f)' = Direct(f) /\ Reachable(f)' = Reachable(f)
         /\ \A f, g : ReachesOrIs(f, g)' <=> ReachesOrIs(f, g)
         /\ OnCycle' = OnCycle
<1>1. \A f : Direct(f)' = Direct(f)
  BY DEF Direct
<1>2. \A S : Closed(S)' <=> Closed(S)
  BY <1>1 DEF Closed
<1>3. \A f : Reachable(f)' = Reachable(f)
  BY <1>1, <1>2 DEF Reachable
<1>4. OnCycle' = OnCycle
  BY <1>3 DEF OnCycle
<1> QED
  BY <1>1, <1>3, <1>4 DEF ReachesOrIs

-----------------------------------------------------------------------------
(* The inductive invariant.                                                *)
CGFrameType == [fn : Fn, work : SUBSET (Fn \cup {Pointer})]

CallGraphTypeOK ==
  /\ mod \in ModType /\ phase \in {"build", "tarjan", "done"}
  /\ cg_todo \subseteq Fn /\ cg_frames \in Seq(CGFrameType)
  /\ fn2cgn \subseteq Fn /\ callees \in [Fn -> SUBSET Fn] /\ callers \in [Fn -> SUBSET Fn]
  /\ calls_indirect \subseteq Fn /\ is_address_captured \subseteq Fn /\ is_recursive \subseteq Fn
  /\ index \in [Fn -> Int] /\ lowlink \in [Fn -> Int]
  /\ on_stack \subseteq Fn /\ next_index \in Nat /\ stack \in Seq(Fn)

Depth == Len(cg_frames)
FrameFn(i) == cg_frames[i].fn

(* While bodies are walked.  A callee c of f that is yet to be visited.    *)
Pending(f, c) ==
  \E i \in 1 .. Depth : /\ FrameFn(i) = f
                        /\ c \in cg_frames[i].work \/ (i < Depth /\ c = FrameFn(i + 1))

EdgesInv ==
  /\ \A i \in 1 .. Depth : FrameFn(i) \in fn2cgn /\ cg_frames[i].work \subseteq mod.calls[FrameFn(i)]
  /\ \A i \in 1 .. Depth : i < Depth => FrameFn(i + 1) \in Direct(FrameFn(i))
  /\ \A f \in Fn : callees[f] \subseteq Direct(f)
  /\ \A f \in fn2cgn : \A c \in Direct(f) : c \in callees[f] \/ Pending(f, c)
  /\ \A f \in Fn : f \in calls_indirect => Pointer \in mod.calls[f]
  /\ \A f \in fn2cgn : Pointer \in mod.calls[f] => f \in calls_indirect \/ Pending(f, Pointer)
LinksInv ==
  /\ \A f, g \in Fn : g \in callees[f] <=> f \in callers[g]
  /\ is_recursive = {f \in Fn : f \in callees[f]}
BuildInv ==
  /\ EdgesInv /\ LinksInv
  /\ Fn \ cg_todo \subseteq fn2cgn
  /\ is_address_captured = mod.otherUses \ cg_todo
  /\ \A f \in Fn : index[f] = -1
  /\ on_stack = {} /\ next_index = 0 /\ stack = <<>>

(* The graph is built.                                                     *)
GraphBuilt ==
  /\ fn2cgn = Fn
  /\ \A f \in Fn : callees[f] = Direct(f)
  /\ \A f, g \in Fn : g \in callees[f] <=> f \in callers[g]
  /\ calls_indirect = {f \in Fn : Pointer \in mod.calls[f]}
  /\ is_address_captured = mod.otherUses

(* Tarjan's algorithm.  Its stack, last entered on top.                    *)
StackInv ==
  /\ on_stack = {stack[i] : i \in 1 .. Len(stack)}
  /\ \A i, j \in 1 .. Len(stack) : i < j => index[stack[i]] < index[stack[j]]
  /\ \A f \in Fn : -1 <= index[f] /\ index[f] < next_index
  /\ \A f \in on_stack : ~Unvisited(f)
FramesInv ==
  /\ \A i \in 1 .. Depth : FrameFn(i) \in on_stack /\ cg_frames[i].work \subseteq Direct(FrameFn(i))
  /\ \A i, j \in 1 .. Depth : i < j => index[FrameFn(i)] < index[FrameFn(j)]
  /\ \A u \in on_stack : Depth > 0 /\ index[FrameFn(1)] <= index[u]

(* The edges of f that strongconnect has followed, or is following.        *)
Explored(f) ==
  {c \in Direct(f) : \A i \in 1 .. Depth : FrameFn(i) = f => c \notin cg_frames[i].work}

(* Entered no earlier than the i-th frame, and before the next one.        *)
UpTo(u, i) == i < Depth => index[u] < index[FrameFn(i + 1)]
InSegment(u, i) == index[FrameFn(i)] <= index[u] /\ UpTo(u, i)

ExploredVisited == \A f \in Fn : ~Unvisited(f) => \A c \in Explored(f) : ~Unvisited(c)
LowlinkBelow ==
  /\ \A i \in 1 .. Depth : lowlink[FrameFn(i)] <= index[FrameFn(i)]
  /\ \A i \in 1 .. Depth : \A u \in on_stack : InSegment(u, i) =>
       \A c \in Explored(u) \cap on_stack : lowlink[FrameFn(i)] <= index[c]
LowlinkReached ==
  \A i \in 1 .. Depth : \E w \in on_stack :
    index[w] = lowlink[FrameFn(i)] /\ ReachesOrIs(FrameFn(i), w)
ReachesLater ==
  \A i \in 1 .. Depth : \A u \in on_stack :
    index[FrameFn(i)] <= index[u] => ReachesOrIs(FrameFn(i), u)
ReachesTop ==
  \A i \in 1 .. Depth : \A u \in on_stack : UpTo(u, i) => ReachesOrIs(u, FrameFn(i))

(* The components found.                                                   *)
Popped == {f \in Fn : ~Unvisited(f)} \ on_stack
PoppedInv ==
  /\ Closed(Popped)
  /\ \A f \in Popped : f \in OnCycle => f \in is_recursive
  /\ \A f \in Fn : f \in Direct(f) => f \in is_recursive

TarjanInv ==
  /\ StackInv /\ FramesInv
  /\ ExploredVisited /\ LowlinkBelow /\ LowlinkReached /\ ReachesLater /\ ReachesTop
  /\ PoppedInv
  /\ \A f \in Fn \ cg_todo : ~Unvisited(f)

CallGraphInv ==
  /\ CallGraphTypeOK
  /\ is_recursive \subseteq OnCycle
  /\ phase = "build" => BuildInv
  /\ phase # "build" => GraphBuilt /\ TarjanInv
  /\ phase = "done" => cg_todo = {} /\ cg_frames = <<>>

-----------------------------------------------------------------------------
(* The C stack.                                                            *)
LEMMA NoFrames ==
  ASSUME cg_frames \in Seq(CGFrameType)
  PROVE  Depth \in Nat /\ (cg_frames = <<>> <=> Depth = 0)
  BY EmptySeq, LenProperties DEF Depth

(* The frame at the top.                                                   *)
LEMMA TopFrame ==
  ASSUME cg_frames \in Seq(CGFrameType), cg_frames # <<>>
  PROVE  /\ Depth \in Nat \ {0} /\ Depth \in 1 .. Depth /\ CGTop = cg_frames[Depth]
         /\ CGTop.fn = FrameFn(Depth) /\ FrameFn(Depth) \in Fn
         /\ CGTop.work \subseteq Fn \cup {Pointer}
<1>1. Depth \in Nat \ {0}
  BY NoFrames
<1>2. Depth \in 1 .. Depth
  BY <1>1
<1>3. CGTop = cg_frames[Depth]
  BY DEF CGTop, Depth
<1>4. cg_frames[Depth] \in CGFrameType
  BY <1>2, ElementOfSeq DEF Depth
<1> QED
  BY <1>1, <1>2, <1>3, <1>4 DEF CGFrameType, FrameFn

(* Every frame has a function and calls to visit.                          *)
LEMMA FramesType ==
  ASSUME cg_frames \in Seq(CGFrameType), NEW i \in 1 .. Depth
  PROVE  cg_frames[i] \in CGFrameType /\ FrameFn(i) \in Fn /\ cg_frames[i].work \subseteq Fn \cup {Pointer}
<1>1. cg_frames[i] \in CGFrameType
  BY ElementOfSeq DEF Depth
<1> QED
  BY <1>1 DEF CGFrameType, FrameFn

(* A callee less for the frame at the top.                                 *)
LEMMA WithoutWorkFacts ==
  ASSUME cg_frames \in Seq(CGFrameType), cg_frames # <<>>, NEW c
  PROVE  /\ WithoutWork(c) \in Seq(CGFrameType) /\ Len(WithoutWork(c)) = Depth
         /\ \A i \in 1 .. Depth : /\ WithoutWork(c)[i].fn = FrameFn(i)
                                  /\ i # Depth => WithoutWork(c)[i] = cg_frames[i]
         /\ WithoutWork(c)[Depth].work = CGTop.work \ {c}
<1> DEFINE less == [CGTop EXCEPT !.work = @ \ {c}]
<1>1. Depth \in 1 .. Depth /\ CGTop = cg_frames[Depth]
  BY TopFrame
<1>2. CGTop \in CGFrameType
  BY <1>1, FramesType
<1>3. less \in CGFrameType /\ less.fn = CGTop.fn /\ less.work = CGTop.work \ {c}
  BY <1>2 DEF CGFrameType
<1>4. WithoutWork(c) = [cg_frames EXCEPT ![Depth] = less]
  BY <1>1 DEF WithoutWork, Depth
<1> HIDE DEF less
<1>5. WithoutWork(c) \in Seq(CGFrameType) /\ Len(WithoutWork(c)) = Depth
  BY <1>1, <1>3, <1>4, ExceptSeq DEF Depth
<1>6. \A i \in 1 .. Depth : WithoutWork(c)[i] = IF i = Depth THEN less ELSE cg_frames[i]
  BY <1>4, ExceptSeq, <1>3 DEF Depth
<1> QED
  BY <1>1, <1>3, <1>5, <1>6 DEF FrameFn

(* A frame more.                                                           *)
LEMMA PushFacts ==
  ASSUME NEW below \in Seq(CGFrameType), NEW f \in Fn, NEW work \in SUBSET (Fn \cup {Pointer})
  PROVE  /\ Append(below, CGFrame(f, work)) \in Seq(CGFrameType)
         /\ Len(Append(below, CGFrame(f, work))) = Len(below) + 1
         /\ \A i \in 1 .. Len(below) : Append(below, CGFrame(f, work))[i] = below[i]
         /\ Append(below, CGFrame(f, work))[Len(below) + 1] = [fn |-> f, work |-> work]
<1>1. CGFrame(f, work) = [fn |-> f, work |-> work] /\ CGFrame(f, work) \in CGFrameType
  BY DEF CGFrame, CGFrameType
<1> QED
  BY <1>1, AppendProperties

(* A frame less.                                                           *)
LEMMA PopFacts ==
  ASSUME cg_frames \in Seq(CGFrameType), cg_frames # <<>>
  PROVE  /\ Front(cg_frames) \in Seq(CGFrameType) /\ Len(Front(cg_frames)) = Depth - 1
         /\ \A i \in 1 .. Depth - 1 : Front(cg_frames)[i] = cg_frames[i]
<1>1. Depth \in Nat \ {0}
  BY TopFrame
<1>2. \A i \in 1 .. Depth - 1 : cg_frames[i] \in CGFrameType
  BY <1>1, FramesType
<1>3. Front(cg_frames) = SubSeq(cg_frames, 1, Depth - 1)
  BY DEF Front, Depth
<1> DEFINE n == Depth - 1
<1>4. n \in Nat /\ 1 \in Int /\ n \in Int /\ \A i \in 1 .. n : cg_frames[i] \in CGFrameType
  BY <1>1, <1>2
<1> HIDE DEF n
<1>5. /\ SubSeq(cg_frames, 1, n) \in Seq(CGFrameType)
      /\ Len(SubSeq(cg_frames, 1, n)) = IF 1 <= n THEN n - 1 + 1 ELSE 0
      /\ \A i \in 1 .. n - 1 + 1 : SubSeq(cg_frames, 1, n)[i] = cg_frames[1 + i - 1]
  BY <1>4, SubSeqProperties
<1>6. \A i \in 1 .. n : i \in 1 .. n - 1 + 1 /\ 1 + i - 1 = i
  BY <1>4
<1>7. \A i \in 1 .. n : SubSeq(cg_frames, 1, n)[i] = cg_frames[i]
  BY <1>5, <1>6
<1>8. Len(SubSeq(cg_frames, 1, n)) = n
  BY <1>4, <1>5
<1> QED
  BY <1>3, <1>5, <1>7, <1>8 DEF n

-----------------------------------------------------------------------------
(* Building the graph.                                                     *)
-----------------------------------------------------------------------------
(* Walking the bodies.                                                     *)
LEMMA CallsType ==
  ASSUME mod \in ModType, NEW f \in Fn
  PROVE  /\ mod.calls[f] \subseteq Fn \cup {Pointer} /\ Direct(f) \subseteq mod.calls[f]
         /\ \A c \in mod.calls[f] : c \in Direct(f) \/ c = Pointer
         /\ mod.otherUses \subseteq Fn
  BY DEF ModType, Direct

(* A function without a node is entered, from nowhere or from the frame at *)
(* the top.                                                                *)
LEMMA EnterFunctionInv ==
  ASSUME CallGraphTypeOK, EdgesInv, NEW f \in Fn \ fn2cgn, NEW below \in Seq(CGFrameType),
         Len(below) = Depth,
         \A i \in 1 .. Depth : /\ below[i].fn = FrameFn(i)
                               /\ \/ below[i].work = cg_frames[i].work
                                  \/ i = Depth /\ below[i].work = cg_frames[i].work \ {f},
         Depth > 0 => f \in Direct(FrameFn(Depth)),
         EnterFunction(f, below), UNCHANGED <<mod, callees, calls_indirect>>
  PROVE  EdgesInv' /\ cg_frames' \in Seq(CGFrameType) /\ fn2cgn' = fn2cgn \cup {f}
<1> DEFINE d == Depth
<1>1. d \in Nat /\ mod \in ModType
  BY NoFrames DEF CallGraphTypeOK
<1>2. mod.calls[f] \subseteq Fn \cup {Pointer}
  BY <1>1, CallsType
<1>3. /\ cg_frames' \in Seq(CGFrameType) /\ Len(cg_frames') = d + 1
      /\ \A i \in 1 .. d : cg_frames'[i] = below[i]
      /\ cg_frames'[d + 1] = [fn |-> f, work |-> mod.calls[f]]
  BY <1>2, PushFacts DEF EnterFunction
<1>4. fn2cgn' = fn2cgn \cup {f}
  BY DEF EnterFunction
<1>5. /\ \A i \in 1 .. d : /\ cg_frames'[i].fn = cg_frames[i].fn
                           /\ \/ cg_frames'[i].work = cg_frames[i].work
                              \/ i = d /\ cg_frames'[i].work = cg_frames[i].work \ {f}
      /\ cg_frames'[d + 1].fn = f /\ cg_frames'[d + 1].work = mod.calls[f]
  BY <1>3 DEF FrameFn
<1>6. \A g : Direct(g)' = Direct(g)
  BY SameModule
<1> HIDE DEF d
<1>7. 1 .. d + 1 = 1 .. d \cup {d + 1} /\ d + 1 \in 1 .. d + 1 /\ d + 1 \notin 1 .. d
  BY <1>1
<1>8. ASSUME NEW g, NEW c, Pending(g, c) PROVE Pending(g, c)'
  <2>1. PICK i \in 1 .. d : /\ cg_frames[i].fn = g
                            /\ c \in cg_frames[i].work \/ (i < d /\ c = cg_frames[i + 1].fn)
    BY <1>8 DEF Pending, FrameFn, d
  <2>2. i \in 1 .. d + 1 /\ i < d + 1
    BY <1>1
  <2>3. \/ c \in cg_frames'[i].work
        \/ i < d /\ c = cg_frames'[i + 1].fn
        \/ i = d /\ c = f
    <3>1. i < d => i + 1 \in 1 .. d
      BY <1>1
    <3> QED
      BY <2>1, <1>5, <3>1
  <2>4. c \in cg_frames'[i].work \/ (i < d + 1 /\ c = cg_frames'[i + 1].fn)
    BY <2>2, <2>3, <1>5
  <2> QED
    BY <1>3, <1>5, <2>1, <2>2, <2>4 DEF Pending, FrameFn, Depth
<1>9. \A c \in mod.calls[f] : Pending(f, c)'
  BY <1>3, <1>5, <1>7 DEF Pending, FrameFn, Depth
<1>10. \A i \in 1 .. d + 1 : cg_frames'[i].fn \in fn2cgn' /\ cg_frames'[i].work \subseteq mod'.calls[cg_frames'[i].fn]
  <2>1. \A i \in 1 .. d : cg_frames[i].fn \in fn2cgn /\ cg_frames[i].work \subseteq mod.calls[cg_frames[i].fn]
    BY DEF EdgesInv, FrameFn, d
  <2> QED
    BY <2>1, <1>4, <1>5, <1>7
<1>11. \A i \in 1 .. d + 1 : i < d + 1 => cg_frames'[i + 1].fn \in Direct(cg_frames'[i].fn)
  <2> SUFFICES ASSUME NEW i \in 1 .. d PROVE cg_frames'[i + 1].fn \in Direct(cg_frames'[i].fn)
    BY <1>7
  <2>1. CASE i < d
    <3>1. i + 1 \in 1 .. d
      BY <2>1, <1>1
    <3>2. cg_frames[i + 1].fn \in Direct(cg_frames[i].fn)
      BY <2>1 DEF EdgesInv, FrameFn, d
    <3> QED
      BY <3>1, <3>2, <1>5
  <2>2. CASE i = d
    <3>1. f \in Direct(cg_frames[d].fn)
      BY <2>2, <1>1 DEF FrameFn, d
    <3> QED
      BY <2>2, <3>1, <1>5
  <2> QED
    BY <2>1, <2>2, <1>1
<1>12. \A g \in fn2cgn' : \A c \in Direct(g) : c \in callees'[g] \/ Pending(g, c)'
  <2>1. \A g \in fn2cgn : \A c \in Direct(g) : c \in callees[g] \/ Pending(g, c)
    BY DEF EdgesInv
  <2>2. \A c \in Direct(f) : Pending(f, c)'
    BY <1>1, <1>9, CallsType
  <2> QED
    BY <2>1, <2>2, <1>4, <1>8
<1>13. \A g \in fn2cgn' : Pointer \in mod'.calls[g] => g \in calls_indirect' \/ Pending(g, Pointer)'
  <2>1. \A g \in fn2cgn : Pointer \in mod.calls[g] => g \in calls_indirect \/ Pending(g, Pointer)
    BY DEF EdgesInv
  <2> QED
    BY <2>1, <1>4, <1>8, <1>9
<1>14. (\A g \in Fn : callees[g] \subseteq Direct(g))' /\ (\A g \in Fn : g \in calls_indirect => Pointer \in mod.calls[g])'
  BY <1>6 DEF EdgesInv
<1>15. Depth' = d + 1
  BY <1>3 DEF Depth
<1> QED
  BY <1>3, <1>4, <1>6, <1>10, <1>11, <1>12, <1>13, <1>14, <1>15 DEF EdgesInv, FrameFn

(* A call that has been dealt with leaves the work of its frame.           *)
LEMMA WorkDoneInv ==
  ASSUME CallGraphTypeOK, EdgesInv, cg_frames # <<>>, NEW c, cg_frames' = WithoutWork(c),
         UNCHANGED <<mod, fn2cgn>>,
         \A g \in Fn : callees[g] \subseteq callees'[g] /\ callees'[g] \subseteq Direct(g),
         calls_indirect \subseteq calls_indirect',
         \A g \in Fn : g \in calls_indirect' => Pointer \in mod.calls[g],
         c \in Fn => c \in callees'[CGTop.fn],
         c = Pointer => CGTop.fn \in calls_indirect'
  PROVE  EdgesInv' /\ cg_frames' \in Seq(CGFrameType)
<1> DEFINE d == Depth
<1>1. /\ d \in Nat \ {0} /\ d \in 1 .. d /\ CGTop.fn = cg_frames[d].fn /\ CGTop.work = cg_frames[d].work
      /\ cg_frames \in Seq(CGFrameType)
  BY TopFrame DEF CallGraphTypeOK
<1>2. /\ cg_frames' \in Seq(CGFrameType) /\ Len(cg_frames') = d
      /\ \A i \in 1 .. d : /\ cg_frames'[i].fn = cg_frames[i].fn
                           /\ i # d => cg_frames'[i].work = cg_frames[i].work
      /\ cg_frames'[d].work = cg_frames[d].work \ {c}
  BY <1>1, WithoutWorkFacts DEF FrameFn
<1>3. \A g : Direct(g)' = Direct(g)
  BY SameModule
<1>4. Depth' = d
  BY <1>2 DEF Depth
<1>5. fn2cgn \subseteq Fn
  BY DEF CallGraphTypeOK
<1> HIDE DEF d
<1>6. \A i \in 1 .. d : i < d => i + 1 \in 1 .. d
  BY <1>1
<1>7. ASSUME NEW g, NEW x, Pending(g, x)
      PROVE  Pending(g, x)' \/ (g = CGTop.fn /\ x = c)
  <2>1. PICK i \in 1 .. d : /\ cg_frames[i].fn = g
                            /\ x \in cg_frames[i].work \/ (i < d /\ x = cg_frames[i + 1].fn)
    BY <1>7 DEF Pending, FrameFn, d
  <2>2. \/ x \in cg_frames'[i].work
        \/ i < d /\ x = cg_frames'[i + 1].fn
        \/ i = d /\ x = c
    BY <2>1, <1>2, <1>6
  <2> QED
    BY <1>1, <1>2, <1>4, <2>1, <2>2 DEF Pending, FrameFn
<1>8. \A i \in 1 .. d : cg_frames'[i].fn \in fn2cgn' /\ cg_frames'[i].work \subseteq mod'.calls[cg_frames'[i].fn]
  <2>1. \A i \in 1 .. d : cg_frames[i].fn \in fn2cgn /\ cg_frames[i].work \subseteq mod.calls[cg_frames[i].fn]
    BY DEF EdgesInv, FrameFn, d
  <2> QED
    BY <2>1, <1>2
<1>9. \A i \in 1 .. d : i < d => cg_frames'[i + 1].fn \in Direct(cg_frames'[i].fn)
  <2>1. \A i \in 1 .. d : i < d => cg_frames[i + 1].fn \in Direct(cg_frames[i].fn)
    BY DEF EdgesInv, FrameFn, d
  <2> QED
    BY <2>1, <1>2, <1>6
<1>10. \A g \in fn2cgn' : \A x \in Direct(g) : x \in callees'[g] \/ Pending(g, x)'
  <2>1. \A g \in fn2cgn : \A x \in Direct(g) : x \in callees[g] \/ Pending(g, x)
    BY DEF EdgesInv
  <2>2. \A g : Direct(g) \subseteq Fn
    BY DirectType
  <2> QED
    BY <2>1, <2>2, <1>5, <1>7
<1>11. \A g \in fn2cgn' : Pointer \in mod'.calls[g] => g \in calls_indirect' \/ Pending(g, Pointer)'
  <2>1. \A g \in fn2cgn : Pointer \in mod.calls[g] => g \in calls_indirect \/ Pending(g, Pointer)
    BY DEF EdgesInv
  <2> QED
    BY <2>1, <1>7
<1> QED
  BY <1>2, <1>3, <1>4, <1>8, <1>9, <1>10, <1>11 DEF EdgesInv, FrameFn

(* A body that has been walked leaves the C stack.                         *)
LEMMA FrameDoneInv ==
  ASSUME CallGraphTypeOK, EdgesInv, cg_frames # <<>>, CGTop.work = {}, cg_frames' = Front(cg_frames),
         UNCHANGED <<mod, fn2cgn, calls_indirect>>,
         \A g \in Fn : callees[g] \subseteq callees'[g] /\ callees'[g] \subseteq Direct(g),
         Depth > 1 => CGTop.fn \in callees'[FrameFn(Depth - 1)]
  PROVE  EdgesInv' /\ cg_frames' \in Seq(CGFrameType)
<1> DEFINE d == Depth
<1>1. /\ d \in Nat \ {0} /\ d \in 1 .. d /\ CGTop.fn = cg_frames[d].fn /\ CGTop.work = cg_frames[d].work
      /\ cg_frames \in Seq(CGFrameType)
  BY TopFrame DEF CallGraphTypeOK
<1>2. /\ cg_frames' \in Seq(CGFrameType) /\ Len(cg_frames') = d - 1
      /\ \A i \in 1 .. d - 1 : cg_frames'[i] = cg_frames[i]
  BY <1>1, PopFacts
<1>3. \A g : Direct(g)' = Direct(g)
  BY SameModule
<1>4. Depth' = d - 1
  BY <1>2 DEF Depth
<1>5. fn2cgn \subseteq Fn
  BY DEF CallGraphTypeOK
<1>6. d > 1 => cg_frames[d].fn \in callees'[cg_frames[d - 1].fn]
  BY <1>1 DEF FrameFn
<1> HIDE DEF d
<1>7. \A i \in 1 .. d : i \in 1 .. d - 1 \/ i = d
  BY <1>1
<1>8. \A i \in 1 .. d - 1 : i \in 1 .. d /\ (i < d - 1 => i + 1 \in 1 .. d - 1 /\ i < d)
  BY <1>1
<1>9. ASSUME NEW g, NEW x, Pending(g, x)
      PROVE  Pending(g, x)' \/ x \in callees'[g]
  <2>1. PICK i \in 1 .. d : /\ cg_frames[i].fn = g
                            /\ x \in cg_frames[i].work \/ (i < d /\ x = cg_frames[i + 1].fn)
    BY <1>9 DEF Pending, FrameFn, d
  <2>2. i # d
    BY <2>1, <1>1
  <2>3. i \in 1 .. d - 1
    BY <2>2, <1>7
  <2>4. CASE x \in cg_frames[i].work
    BY <2>1, <2>3, <2>4, <1>2, <1>4 DEF Pending, FrameFn
  <2>5. CASE x = cg_frames[i + 1].fn /\ i < d - 1
    BY <2>1, <2>3, <2>5, <1>2, <1>4, <1>8 DEF Pending, FrameFn
  <2>6. CASE x = cg_frames[i + 1].fn /\ ~(i < d - 1)
    <3>1. i = d - 1 /\ i + 1 = d /\ d > 1
      BY <2>3, <2>6, <1>1
    <3> QED
      BY <3>1, <2>1, <2>6, <1>6
  <2> QED
    BY <2>1, <2>4, <2>5, <2>6
<1>10. ASSUME NEW g, Pending(g, Pointer) PROVE Pending(g, Pointer)' \/ g \notin Fn
  <2>1. \A f \in Fn : callees'[f] \subseteq Fn
    BY DirectType
  <2> QED
    BY <1>9, <1>10, <2>1, CallGraphAssumption
<1>11. \A i \in 1 .. d - 1 : cg_frames'[i].fn \in fn2cgn' /\ cg_frames'[i].work \subseteq mod'.calls[cg_frames'[i].fn]
  <2>1. \A i \in 1 .. d : cg_frames[i].fn \in fn2cgn /\ cg_frames[i].work \subseteq mod.calls[cg_frames[i].fn]
    BY DEF EdgesInv, FrameFn, d
  <2> QED
    BY <2>1, <1>2, <1>8
<1>12. \A i \in 1 .. d - 1 : i < d - 1 => cg_frames'[i + 1].fn \in Direct(cg_frames'[i].fn)
  <2>1. \A i \in 1 .. d : i < d => cg_frames[i + 1].fn \in Direct(cg_frames[i].fn)
    BY DEF EdgesInv, FrameFn, d
  <2> QED
    BY <2>1, <1>2, <1>8
<1>13. \A g \in fn2cgn' : \A x \in Direct(g) : x \in callees'[g] \/ Pending(g, x)'
  <2>1. \A g \in fn2cgn : \A x \in Direct(g) : x \in callees[g] \/ Pending(g, x)
    BY DEF EdgesInv
  <2> QED
    BY <2>1, <1>5, <1>9
<1>14. \A g \in fn2cgn' : Pointer \in mod'.calls[g] => g \in calls_indirect' \/ Pending(g, Pointer)'
  <2>1. \A g \in fn2cgn : Pointer \in mod.calls[g] => g \in calls_indirect \/ Pending(g, Pointer)
    BY DEF EdgesInv
  <2> QED
    BY <2>1, <1>5, <1>10
<1>15. (\A g \in Fn : g \in calls_indirect => Pointer \in mod.calls[g])'
  BY DEF EdgesInv
<1> QED
  BY <1>2, <1>3, <1>4, <1>11, <1>12, <1>13, <1>14, <1>15 DEF EdgesInv, FrameFn

(* An edge, seen from both its ends.                                       *)
LEMMA LinkInv ==
  ASSUME CallGraphTypeOK, LinksInv, NEW caller \in Fn, NEW f \in Fn, Link(caller, f)
  PROVE  /\ LinksInv'
         /\ callees' \in [Fn -> SUBSET Fn] /\ callers' \in [Fn -> SUBSET Fn] /\ is_recursive' \subseteq Fn
         /\ \A g \in Fn : callees'[g] = IF g = caller THEN callees[g] \cup {f} ELSE callees[g]
<1>1. callees \in [Fn -> SUBSET Fn] /\ callers \in [Fn -> SUBSET Fn]
  BY DEF CallGraphTypeOK
<1>2. /\ callees' = [callees EXCEPT ![caller] = @ \cup {f}]
      /\ callers' = [callers EXCEPT ![f] = @ \cup {caller}]
      /\ is_recursive' = IF f = caller THEN is_recursive \cup {f} ELSE is_recursive
  BY DEF Link
<1>3. callees' \in [Fn -> SUBSET Fn] /\ callers' \in [Fn -> SUBSET Fn]
  BY <1>1, <1>2
<1>4. /\ \A g \in Fn : callees'[g] = IF g = caller THEN callees[g] \cup {f} ELSE callees[g]
      /\ \A g \in Fn : callers'[g] = IF g = f THEN callers[g] \cup {caller} ELSE callers[g]
  BY <1>1, <1>2
<1>5. /\ \A g, h \in Fn : h \in callees[g] <=> g \in callers[h]
      /\ is_recursive = {g \in Fn : g \in callees[g]}
  BY DEF LinksInv
<1>6. ASSUME NEW g \in Fn, NEW h \in Fn PROVE h \in callees'[g] <=> g \in callers'[h]
  <2>1. h \in callees'[g] <=> h \in callees[g] \/ (g = caller /\ h = f)
    BY <1>4
  <2>2. g \in callers'[h] <=> g \in callers[h] \/ (g = caller /\ h = f)
    BY <1>4
  <2> QED
    BY <2>1, <2>2, <1>5
<1>7. is_recursive' = {g \in Fn : g \in callees'[g]}
  <2>1. CASE f = caller
    BY <2>1, <1>2, <1>4, <1>5
  <2>2. CASE f # caller
    <3>1. is_recursive' = is_recursive
      BY <2>2, <1>2
    <3>2. \A g \in Fn : g \in callees'[g] <=> g \in callees[g]
      BY <2>2, <1>4
    <3> QED
      BY <3>1, <3>2, <1>5
  <2> QED
    BY <2>1, <2>2
<1> QED
  BY <1>3, <1>4, <1>6, <1>7 DEF LinksInv

(* A step of the first walk.                                               *)
LEMMA BuildStep ==
  ASSUME CallGraphInv, phase = "build", UNCHANGED <<mod, phase, vertices>>,
         EdgesInv', LinksInv', cg_frames' \in Seq(CGFrameType), cg_todo' \subseteq Fn,
         fn2cgn' \subseteq Fn, Fn \ cg_todo' \subseteq fn2cgn',
         callees' \in [Fn -> SUBSET Fn] /\ callers' \in [Fn -> SUBSET Fn],
         calls_indirect' \subseteq Fn,
         is_address_captured' = mod.otherUses \ cg_todo'
  PROVE  CallGraphInv'
<1>1. BuildInv'
  BY DEF CallGraphInv, BuildInv, vertices
<1>2. \A f \in Fn : f \in callees'[f] => f \in OnCycle
  <2>1. \A f \in Fn : callees'[f] \subseteq Direct(f)
    BY SameModule DEF EdgesInv
  <2> QED
    BY <2>1, DirectIsReachable DEF OnCycle
<1>3. is_recursive' \subseteq OnCycle' /\ is_recursive' \subseteq Fn
  BY <1>2, SameModule DEF LinksInv
<1>4. is_address_captured' \subseteq Fn
  BY DEF CallGraphInv, CallGraphTypeOK, ModType
<1>5. CallGraphTypeOK'
  BY <1>3, <1>4 DEF CallGraphInv, CallGraphTypeOK, vertices
<1> QED
  BY <1>1, <1>3, <1>5 DEF CallGraphInv

(* The beginning, and what each step does.                                 *)
LEMMA InitInv == CallGraphInit => CallGraphInv
<1> SUFFICES ASSUME CallGraphInit PROVE CallGraphInv
  OBVIOUS
<1> USE DEF CallGraphInit
<1>1. <<>> \in Seq(CGFrameType) /\ <<>> \in Seq(Fn)
  OBVIOUS
<1>2. CallGraphTypeOK
  BY <1>1 DEF CallGraphTypeOK
<1>3. Depth = 0 /\ 1 .. Depth = {}
  BY DEF Depth
<1>4. EdgesInv /\ LinksInv
  BY <1>3 DEF EdgesInv, LinksInv
<1>5. mod.otherUses \ cg_todo = {}
  BY DEF ModType
<1>6. BuildInv
  BY <1>4, <1>5 DEF BuildInv
<1> QED
  BY <1>2, <1>6 DEF CallGraphInv

(* The loop over the module's declarations.                                *)
LEMMA AnalyzeDeclInv == ASSUME CallGraphInv, NEW f \in Fn, AnalyzeDecl(f) PROVE CallGraphInv'
<1>1. /\ phase = "build" /\ cg_frames = <<>> /\ cg_todo' = cg_todo \ {f} /\ f \in cg_todo
      /\ UNCHANGED <<mod, phase, vertices>> /\ UNCHANGED <<callees, callers, calls_indirect, is_recursive>>
      /\ is_address_captured' = is_address_captured \cup ({f} \cap mod.otherUses)
  BY DEF AnalyzeDecl
<1>2. CallGraphTypeOK /\ BuildInv
  BY <1>1 DEF CallGraphInv
<1>3. is_address_captured' = mod.otherUses \ cg_todo'
  BY <1>1, <1>2 DEF BuildInv
<1>4. LinksInv'
  BY <1>1, <1>2 DEF BuildInv, LinksInv
<1>5. EdgesInv' /\ cg_frames' \in Seq(CGFrameType) /\ fn2cgn' = fn2cgn \cup {f}
  <2>1. CASE f \in fn2cgn
    <3>1. UNCHANGED <<fn2cgn, cg_frames>>
      BY <2>1 DEF AnalyzeDecl
    <3>2. \A g : Direct(g)' = Direct(g)
      BY <1>1, SameModule
    <3>3. \A g, c : Pending(g, c)' <=> Pending(g, c)
      BY <3>1 DEF Pending, FrameFn, Depth
    <3>4. EdgesInv'
      BY <1>1, <1>2, <3>1, <3>2, <3>3 DEF BuildInv, EdgesInv, FrameFn, Depth
    <3> QED
      BY <2>1, <3>1, <3>4, <1>2 DEF CallGraphTypeOK
  <2>2. CASE f \notin fn2cgn
    <3>1. EnterFunction(f, <<>>)
      BY <2>2 DEF AnalyzeDecl
    <3>2. <<>> \in Seq(CGFrameType) /\ Len(<<>>) = Depth /\ Depth = 0
      BY <1>1 DEF Depth
    <3> DEFINE none == <<>>
    <3>3. \A i \in 1 .. Depth : /\ none[i].fn = FrameFn(i)
                                /\ \/ none[i].work = cg_frames[i].work
                                   \/ i = Depth /\ none[i].work = cg_frames[i].work \ {f}
      BY <3>2
    <3>4. none \in Seq(CGFrameType) /\ Len(none) = Depth /\ ~(Depth > 0) /\ EnterFunction(f, none)
      BY <3>1, <3>2
    <3>5. EdgesInv /\ f \in Fn \ fn2cgn
      BY <1>2, <2>2 DEF BuildInv
    <3> HIDE DEF none
    <3> QED
      BY <1>1, <1>2, <3>3, <3>4, <3>5, EnterFunctionInv
  <2> QED
    BY <2>1, <2>2
<1>6. fn2cgn' \subseteq Fn /\ Fn \ cg_todo' \subseteq fn2cgn' /\ cg_todo' \subseteq Fn
  BY <1>1, <1>2, <1>5 DEF BuildInv, CallGraphTypeOK
<1>7. callees' \in [Fn -> SUBSET Fn] /\ callers' \in [Fn -> SUBSET Fn] /\ calls_indirect' \subseteq Fn
  BY <1>1, <1>2 DEF CallGraphTypeOK
<1> QED
  BY <1>1, <1>3, <1>4, <1>5, <1>6, <1>7, BuildStep

(* A call of a pointer.                                                    *)
LEMMA VisitIndirectCallInv == ASSUME CallGraphInv, VisitIndirectCall PROVE CallGraphInv'
<1>1. /\ phase = "build" /\ cg_frames # <<>> /\ Pointer \in CGTop.work
      /\ UNCHANGED <<mod, phase, vertices>> /\ cg_frames' = WithoutWork(Pointer)
      /\ UNCHANGED <<cg_todo, fn2cgn, callees, callers, is_address_captured, is_recursive>>
      /\ calls_indirect' = calls_indirect \cup {CGTop.fn}
  BY DEF VisitIndirectCall
<1>2. CallGraphTypeOK /\ BuildInv /\ EdgesInv /\ LinksInv
  BY <1>1 DEF CallGraphInv, BuildInv
<1>3. CGTop.fn \in Fn /\ Pointer \in mod.calls[CGTop.fn]
  <2>1. /\ Depth \in 1 .. Depth /\ CGTop.fn \in Fn /\ CGTop.fn = FrameFn(Depth)
        /\ CGTop = cg_frames[Depth]
    BY <1>1, <1>2, TopFrame DEF CallGraphTypeOK
  <2>2. cg_frames[Depth].work \subseteq mod.calls[FrameFn(Depth)]
    BY <1>2, <2>1 DEF EdgesInv
  <2> QED
    BY <1>1, <2>1, <2>2
<1>4. /\ \A g \in Fn : callees[g] \subseteq callees'[g] /\ callees'[g] \subseteq Direct(g)
      /\ calls_indirect \subseteq calls_indirect' /\ CGTop.fn \in calls_indirect'
      /\ \A g \in Fn : g \in calls_indirect' => Pointer \in mod.calls[g]
  BY <1>1, <1>2, <1>3 DEF EdgesInv
<1>5. EdgesInv' /\ cg_frames' \in Seq(CGFrameType)
  BY <1>1, <1>2, <1>4, WorkDoneInv, CallGraphAssumption
<1>6. LinksInv'
  BY <1>1, <1>2 DEF LinksInv
<1>7. /\ cg_todo' \subseteq Fn /\ fn2cgn' \subseteq Fn /\ Fn \ cg_todo' \subseteq fn2cgn'
      /\ callees' \in [Fn -> SUBSET Fn] /\ callers' \in [Fn -> SUBSET Fn] /\ calls_indirect' \subseteq Fn
      /\ is_address_captured' = mod.otherUses \ cg_todo'
  BY <1>1, <1>2, <1>3 DEF BuildInv, CallGraphTypeOK
<1> QED
  BY <1>1, <1>5, <1>6, <1>7, BuildStep

(* A call of a function.                                                   *)
LEMMA VisitCallsiteInv == ASSUME CallGraphInv, NEW f \in Fn, VisitCallsite(f) PROVE CallGraphInv'
<1>1. /\ phase = "build" /\ cg_frames # <<>> /\ f \in CGTop.work
      /\ UNCHANGED <<mod, phase, vertices>>
      /\ UNCHANGED <<cg_todo, calls_indirect, is_address_captured>>
  BY DEF VisitCallsite
<1>2. CallGraphTypeOK /\ BuildInv /\ EdgesInv /\ LinksInv /\ cg_frames \in Seq(CGFrameType)
  BY <1>1 DEF CallGraphInv, BuildInv, CallGraphTypeOK
<1>3. /\ Depth \in 1 .. Depth /\ CGTop.fn \in Fn /\ CGTop.fn = FrameFn(Depth)
      /\ CGTop = cg_frames[Depth]
  BY <1>1, <1>2, TopFrame
<1>4. f \in Direct(CGTop.fn)
  <2>1. cg_frames[Depth].work \subseteq mod.calls[FrameFn(Depth)]
    BY <1>2, <1>3 DEF EdgesInv
  <2> QED
    BY <1>1, <1>3, <2>1 DEF Direct
<1>5. /\ EdgesInv' /\ LinksInv' /\ cg_frames' \in Seq(CGFrameType) /\ fn2cgn' \subseteq Fn
      /\ fn2cgn \subseteq fn2cgn'
      /\ callees' \in [Fn -> SUBSET Fn] /\ callers' \in [Fn -> SUBSET Fn]
  <2>1. CASE f \in fn2cgn
    <3>1. Link(CGTop.fn, f) /\ cg_frames' = WithoutWork(f) /\ UNCHANGED fn2cgn
      BY <2>1 DEF VisitCallsite
    <3>2. /\ LinksInv' /\ callees' \in [Fn -> SUBSET Fn] /\ callers' \in [Fn -> SUBSET Fn]
          /\ \A g \in Fn : callees'[g] = IF g = CGTop.fn THEN callees[g] \cup {f} ELSE callees[g]
      BY <1>2, <1>3, <3>1, LinkInv
    <3>3. \A g \in Fn : callees[g] \subseteq callees'[g] /\ callees'[g] \subseteq Direct(g)
      BY <1>2, <1>4, <3>2 DEF EdgesInv
    <3>4. f \in callees'[CGTop.fn]
      BY <1>3, <3>2
    <3>5. \A g \in Fn : g \in calls_indirect' => Pointer \in mod.calls[g]
      BY <1>1, <1>2 DEF EdgesInv
    <3>6. EdgesInv' /\ cg_frames' \in Seq(CGFrameType)
      BY <1>1, <1>2, <3>1, <3>3, <3>4, <3>5, WorkDoneInv, CallGraphAssumption
    <3> QED
      BY <1>2, <3>1, <3>2, <3>6 DEF CallGraphTypeOK
  <2>2. CASE f \notin fn2cgn
    <3>1. EnterFunction(f, WithoutWork(f)) /\ UNCHANGED <<callees, callers, is_recursive>>
      BY <2>2 DEF VisitCallsite
    <3>2. /\ WithoutWork(f) \in Seq(CGFrameType) /\ Len(WithoutWork(f)) = Depth
          /\ \A i \in 1 .. Depth : /\ WithoutWork(f)[i].fn = FrameFn(i)
                                   /\ i # Depth => WithoutWork(f)[i] = cg_frames[i]
          /\ WithoutWork(f)[Depth].work = CGTop.work \ {f}
      BY <1>1, <1>2, WithoutWorkFacts
    <3>3. \A i \in 1 .. Depth : /\ WithoutWork(f)[i].fn = FrameFn(i)
                                /\ \/ WithoutWork(f)[i].work = cg_frames[i].work
                                   \/ i = Depth /\ WithoutWork(f)[i].work = cg_frames[i].work \ {f}
      BY <1>3, <3>2
    <3>4. EdgesInv' /\ cg_frames' \in Seq(CGFrameType) /\ fn2cgn' = fn2cgn \cup {f}
      BY <1>1, <1>2, <1>3, <1>4, <2>2, <3>1, <3>2, <3>3, EnterFunctionInv
    <3>5. LinksInv' /\ callees' \in [Fn -> SUBSET Fn] /\ callers' \in [Fn -> SUBSET Fn]
      BY <1>2, <3>1 DEF LinksInv, CallGraphTypeOK
    <3> QED
      BY <1>2, <3>4, <3>5 DEF CallGraphTypeOK
  <2> QED
    BY <2>1, <2>2
<1>6. /\ cg_todo' \subseteq Fn /\ Fn \ cg_todo' \subseteq fn2cgn' /\ calls_indirect' \subseteq Fn
      /\ is_address_captured' = mod.otherUses \ cg_todo'
  BY <1>1, <1>2, <1>5 DEF BuildInv, CallGraphTypeOK
<1> QED
  BY <1>1, <1>5, <1>6, BuildStep

(* The end of a body.                                                      *)
LEMMA LeaveFunctionInv == ASSUME CallGraphInv, LeaveFunction PROVE CallGraphInv'
<1>1. /\ phase = "build" /\ cg_frames # <<>> /\ CGTop.work = {} /\ cg_frames' = Front(cg_frames)
      /\ UNCHANGED <<mod, phase, vertices>>
      /\ UNCHANGED <<cg_todo, fn2cgn, calls_indirect, is_address_captured>>
  BY DEF LeaveFunction
<1>2. CallGraphTypeOK /\ BuildInv /\ EdgesInv /\ LinksInv /\ cg_frames \in Seq(CGFrameType)
  BY <1>1 DEF CallGraphInv, BuildInv, CallGraphTypeOK
<1>3. /\ Depth \in Nat \ {0} /\ Depth \in 1 .. Depth /\ CGTop.fn \in Fn /\ CGTop.fn = FrameFn(Depth)
  BY <1>1, <1>2, TopFrame
<1>4. /\ LinksInv' /\ callees' \in [Fn -> SUBSET Fn] /\ callers' \in [Fn -> SUBSET Fn]
      /\ \A g \in Fn : callees[g] \subseteq callees'[g] /\ callees'[g] \subseteq Direct(g)
      /\ Depth > 1 => CGTop.fn \in callees'[FrameFn(Depth - 1)]
  <2>1. CASE Depth = 1
    <3>1. UNCHANGED <<callees, callers, is_recursive>>
      BY <2>1 DEF LeaveFunction, Depth
    <3> QED
      BY <1>2, <2>1, <3>1 DEF LinksInv, EdgesInv, CallGraphTypeOK
  <2>2. CASE Depth # 1
    <3> DEFINE caller == FrameFn(Depth - 1)
    <3>1. Link(caller, CGTop.fn)
      BY <2>2 DEF LeaveFunction, Depth, FrameFn
    <3>2. Depth - 1 \in 1 .. Depth /\ Depth - 1 < Depth /\ (Depth - 1) + 1 = Depth
      BY <1>3, <2>2
    <3>3. caller \in Fn
      BY <1>2, <3>2, FramesType
    <3>4. CGTop.fn \in Direct(caller)
      BY <1>2, <1>3, <3>2 DEF EdgesInv
    <3> HIDE DEF caller
    <3>5. /\ LinksInv' /\ callees' \in [Fn -> SUBSET Fn] /\ callers' \in [Fn -> SUBSET Fn]
          /\ \A g \in Fn : callees'[g] = IF g = caller THEN callees[g] \cup {CGTop.fn} ELSE callees[g]
      BY <1>2, <1>3, <3>1, <3>3, LinkInv
    <3>6. \A g \in Fn : callees[g] \subseteq callees'[g] /\ callees'[g] \subseteq Direct(g)
      BY <1>2, <3>4, <3>5 DEF EdgesInv
    <3>7. CGTop.fn \in callees'[caller]
      BY <3>3, <3>5
    <3> QED
      BY <3>5, <3>6, <3>7 DEF caller
  <2> QED
    BY <2>1, <2>2
<1>5. EdgesInv' /\ cg_frames' \in Seq(CGFrameType)
  BY <1>1, <1>2, <1>4, FrameDoneInv
<1>6. /\ cg_todo' \subseteq Fn /\ fn2cgn' \subseteq Fn /\ Fn \ cg_todo' \subseteq fn2cgn'
      /\ calls_indirect' \subseteq Fn /\ is_address_captured' = mod.otherUses \ cg_todo'
  BY <1>1, <1>2 DEF BuildInv, CallGraphTypeOK
<1> QED
  BY <1>1, <1>4, <1>5, <1>6, BuildStep

(* Every body has been walked: no call is pending any more.                *)
LEMMA BuildDoneInv == ASSUME CallGraphInv, BuildDone PROVE CallGraphInv'
<1>1. /\ phase = "build" /\ cg_todo = {} /\ cg_frames = <<>> /\ phase' = "tarjan" /\ cg_todo' = fn2cgn
      /\ UNCHANGED mod /\ UNCHANGED cg_frames /\ UNCHANGED <<fn2cgn, callees, callers, calls_indirect, is_address_captured>>
      /\ UNCHANGED is_recursive /\ UNCHANGED <<index, lowlink, on_stack, next_index, stack>>
  BY DEF BuildDone, edges, vertices
<1>2. CallGraphTypeOK /\ BuildInv /\ EdgesInv /\ LinksInv
  BY <1>1 DEF CallGraphInv, BuildInv
<1>3. fn2cgn = Fn
  BY <1>1, <1>2 DEF BuildInv, CallGraphTypeOK
<1>4. Depth = 0 /\ 1 .. Depth = {} /\ Depth' = 0
  BY <1>1 DEF Depth
<1>5. \A f, c : ~Pending(f, c)
  BY <1>4 DEF Pending
<1>6. \A f \in Fn : callees[f] = Direct(f)
  BY <1>2, <1>3, <1>5 DEF EdgesInv
<1>7. calls_indirect = {f \in Fn : Pointer \in mod.calls[f]}
  BY <1>2, <1>3, <1>5 DEF EdgesInv, CallGraphTypeOK
<1>8. is_address_captured = mod.otherUses
  BY <1>1, <1>2 DEF BuildInv
<1>9. /\ \A f : Direct(f)' = Direct(f)
      /\ OnCycle' = OnCycle
  BY <1>1, SameModule
<1>10. GraphBuilt'
  BY <1>1, <1>2, <1>3, <1>6, <1>7, <1>8, <1>9 DEF GraphBuilt, LinksInv
<1>11. TarjanInv'
  <2>1. /\ \A f \in Fn : index'[f] = -1
        /\ on_stack' = {} /\ next_index' = 0 /\ stack' = <<>> /\ Len(stack') = 0 /\ 1 .. 0 = {}
    BY <1>1, <1>2 DEF BuildInv
  <2>2. StackInv' /\ FramesInv'
    BY <1>4, <2>1 DEF StackInv, FramesInv, Unvisited
  <2>3. ExploredVisited' /\ LowlinkBelow' /\ LowlinkReached' /\ ReachesLater' /\ ReachesTop'
    BY <1>4, <2>1 DEF ExploredVisited, LowlinkBelow, LowlinkReached, ReachesLater, ReachesTop, Unvisited
  <2>4. Popped' = {}
    BY <2>1 DEF Popped, Unvisited
  <2>5. \A f \in Fn : f \in Direct(f)' => f \in is_recursive'
    BY <1>1, <1>2, <1>6, <1>9 DEF LinksInv
  <2>6. PoppedInv'
    BY <2>4, <2>5 DEF PoppedInv, Closed
  <2>7. cg_todo' = Fn
    BY <1>1, <1>3
  <2> QED
    BY <2>2, <2>3, <2>6, <2>7 DEF TarjanInv
<1>12. CallGraphTypeOK'
  BY <1>1, <1>2 DEF CallGraphTypeOK
<1>13. is_recursive' \subseteq OnCycle'
  BY <1>1, <1>9 DEF CallGraphInv
<1> QED
  BY <1>1, <1>10, <1>11, <1>12, <1>13 DEF CallGraphInv

-----------------------------------------------------------------------------
(* Tarjan's algorithm.                                                     *)
-----------------------------------------------------------------------------
(* Tarjan's algorithm.                                                     *)
LEMMA OnStackFacts ==
  ASSUME CallGraphTypeOK, TarjanInv
  PROVE  /\ \A f \in Fn : index[f] \in Int /\ lowlink[f] \in Int /\ -1 <= index[f] /\ index[f] < next_index
         /\ next_index \in Nat
         /\ \A u \in on_stack : u \in Fn /\ ~Unvisited(u)
         /\ \A i \in 1 .. Depth : FrameFn(i) \in on_stack /\ FrameFn(i) \in Fn
         /\ on_stack # {} => Depth > 0
<1>1. \A u \in on_stack : u \in Fn /\ ~Unvisited(u)
  BY DEF CallGraphTypeOK, TarjanInv, StackInv
<1> QED
  BY <1>1 DEF CallGraphTypeOK, TarjanInv, StackInv, FramesInv

(* A vertex is entered, from the frame at the top unless there is none.    *)
LEMMA EnterVertexInv ==
  ASSUME CallGraphTypeOK, GraphBuilt, TarjanInv,
         NEW w \in Fn, Unvisited(w), NEW below \in Seq(CGFrameType), Len(below) = Depth,
         \A i \in 1 .. Depth : /\ below[i].fn = FrameFn(i)
                               /\ i # Depth => below[i].work = cg_frames[i].work
                               /\ i = Depth => below[i].work = cg_frames[i].work \ {w},
         Depth > 0 => w \in Direct(FrameFn(Depth)),
         EnterVertex(w, below), UNCHANGED <<mod, callees, is_recursive>>,
         \A f \in Fn \ cg_todo' : f = w \/ f \notin cg_todo
  PROVE  TarjanInv' /\ cg_frames' \in Seq(CGFrameType)
<1> DEFINE d == Depth
           n == next_index
<1>1. d \in Nat /\ cg_frames \in Seq(CGFrameType)
  BY NoFrames DEF CallGraphTypeOK
<1>2. Direct(w) \subseteq Fn /\ callees[w] = Direct(w) /\ Direct(w) \in SUBSET (Fn \cup {Pointer})
  BY DirectType DEF GraphBuilt
<1>3. /\ cg_frames' \in Seq(CGFrameType) /\ Len(cg_frames') = d + 1
      /\ \A i \in 1 .. d : cg_frames'[i] = below[i]
      /\ cg_frames'[d + 1] = [fn |-> w, work |-> Direct(w)]
  BY <1>2, PushFacts DEF EnterVertex
<1>4. Depth' = d + 1
  BY <1>3 DEF Depth
<1>5. /\ \A i \in 1 .. d : /\ cg_frames'[i].fn = cg_frames[i].fn
                           /\ i # d => cg_frames'[i].work = cg_frames[i].work
                           /\ i = d => cg_frames'[i].work = cg_frames[i].work \ {w}
      /\ cg_frames'[d + 1].fn = w /\ cg_frames'[d + 1].work = Direct(w)
  BY <1>3 DEF FrameFn
<1>6. /\ \A f \in Fn : index'[f] = IF f = w THEN n ELSE index[f]
      /\ \A f \in Fn : lowlink'[f] = IF f = w THEN n ELSE lowlink[f]
      /\ on_stack' = on_stack \cup {w} /\ next_index' = n + 1 /\ stack' = Append(stack, w)
  BY DEF EnterVertex, CallGraphTypeOK
<1>7. /\ \A f \in Fn : index[f] \in Int /\ lowlink[f] \in Int /\ -1 <= index[f] /\ index[f] < n
      /\ n \in Nat
      /\ \A u \in on_stack : u \in Fn /\ index[u] # -1
      /\ \A i \in 1 .. d : cg_frames[i].fn \in on_stack /\ cg_frames[i].fn \in Fn
      /\ on_stack # {} => d > 0
  BY OnStackFacts DEF Unvisited, FrameFn
<1>8. w \notin on_stack /\ index[w] = -1
  BY <1>7 DEF Unvisited
<1>9. /\ \A f : Direct(f)' = Direct(f)
      /\ \A f, g : ReachesOrIs(f, g)' <=> ReachesOrIs(f, g)
      /\ OnCycle' = OnCycle
  BY SameModule
<1>10. d > 0 => w \in Direct(cg_frames[d].fn)
  BY DEF FrameFn
<1>11. /\ StackInv /\ FramesInv /\ ExploredVisited /\ LowlinkBelow /\ LowlinkReached
       /\ ReachesLater /\ ReachesTop /\ PoppedInv
  BY DEF TarjanInv
<1>12. Depth = d
  OBVIOUS
<1> HIDE DEF d, n
<1>13. 1 .. d + 1 = 1 .. d \cup {d + 1} /\ d + 1 \notin 1 .. d /\ \A i \in 1 .. d : i < d + 1 /\ (i < d => i + 1 \in 1 .. d) /\ (~(i < d) => i = d)
  BY <1>1
<1>14. \A i \in 1 .. d : cg_frames'[i].fn # w /\ cg_frames'[i].fn \in on_stack
  BY <1>5, <1>7, <1>8
(* What has been explored.                                                 *)
<1>15. Explored(w)' = {}
  BY <1>4, <1>5, <1>9, <1>13 DEF Explored, FrameFn
<1>16. ASSUME NEW f \in Fn, NEW c \in Explored(f)'
       PROVE  f # w /\ (c \in Explored(f) \/ (d > 0 /\ f = cg_frames[d].fn /\ c = w))
  <2>1. f # w
    BY <1>15, <1>16
  <2>2. c \in Direct(f) /\ \A i \in 1 .. d : cg_frames'[i].fn = f => c \notin cg_frames'[i].work
    BY <1>4, <1>9, <1>13, <1>16 DEF Explored, FrameFn
  <2>3. CASE \A i \in 1 .. d : cg_frames[i].fn = f => c \notin cg_frames[i].work
    BY <2>1, <2>2, <2>3, <1>12 DEF Explored, FrameFn
  <2>4. CASE \E i \in 1 .. d : cg_frames[i].fn = f /\ c \in cg_frames[i].work
    <3>1. PICK i \in 1 .. d : cg_frames[i].fn = f /\ c \in cg_frames[i].work
      BY <2>4
    <3>2. c \notin cg_frames'[i].work
      BY <2>2, <3>1, <1>5
    <3>3. i = d /\ c = w
      BY <3>1, <3>2, <1>5
    <3> QED
      BY <2>1, <3>1, <3>3, <1>1
  <2> QED
    BY <2>3, <2>4
<1>17. StackInv'
  <2> DEFINE m == Len(stack)
  <2>1. stack \in Seq(Fn) /\ m \in Nat
    BY LenProperties DEF CallGraphTypeOK
  <2>2. Len(stack') = m + 1 /\ (\A i \in 1 .. m : stack'[i] = stack[i]) /\ stack'[m + 1] = w
    BY <2>1, <1>6, AppendProperties
  <2>3. /\ on_stack = {stack[i] : i \in 1 .. m}
        /\ \A i, j \in 1 .. m : i < j => index[stack[i]] < index[stack[j]]
    BY <1>11 DEF StackInv
  <2> HIDE DEF m
  <2>4. 1 .. m + 1 = 1 .. m \cup {m + 1} /\ \A i \in 1 .. m : i < m + 1 /\ ~(m + 1 < i)
    BY <2>1
  <2>5. on_stack' = {stack'[i] : i \in 1 .. m + 1}
    <3>1. \A x : x \in on_stack <=> \E i \in 1 .. m : x = stack[i]
      BY <2>3
    <3>2. \A x : x \in {stack'[i] : i \in 1 .. m + 1} <=> (\E i \in 1 .. m : x = stack[i]) \/ x = w
      BY <2>2, <2>4
    <3> QED
      BY <3>1, <3>2, <1>6
  <2>6. \A i \in 1 .. m : stack[i] \in on_stack /\ stack[i] \in Fn /\ stack[i] # w
    BY <2>3, <1>7, <1>8
  <2>7. \A i, j \in 1 .. m + 1 : i < j => index'[stack'[i]] < index'[stack'[j]]
    <3> SUFFICES ASSUME NEW i \in 1 .. m + 1, NEW j \in 1 .. m + 1, i < j
                 PROVE  index'[stack'[i]] < index'[stack'[j]]
      OBVIOUS
    <3>1. i \in 1 .. m
      BY <2>1
    <3>2. index'[stack'[i]] = index[stack[i]]
      BY <3>1, <2>2, <2>6, <1>6
    <3>3. CASE j = m + 1
      BY <3>1, <3>2, <3>3, <2>2, <2>6, <1>6, <1>7
    <3>4. CASE j \in 1 .. m
      <4>1. index'[stack'[j]] = index[stack[j]]
        BY <3>4, <2>2, <2>6, <1>6
      <4> QED
        BY <3>1, <3>2, <3>4, <4>1, <2>3
    <3> QED
      BY <3>3, <3>4, <2>4
  <2>8. \A f \in Fn : -1 <= index'[f] /\ index'[f] < next_index'
    BY <1>6, <1>7
  <2>9. \A f \in on_stack' : index'[f] # -1
    BY <1>6, <1>7
  <2> QED
    BY <2>2, <2>5, <2>7, <2>8, <2>9 DEF StackInv, Unvisited
<1>18. FramesInv'
  <2>1. /\ \A i \in 1 .. d : cg_frames[i].fn \in on_stack /\ cg_frames[i].work \subseteq Direct(cg_frames[i].fn)
        /\ \A i, j \in 1 .. d : i < j => index[cg_frames[i].fn] < index[cg_frames[j].fn]
        /\ \A u \in on_stack : d > 0 /\ index[cg_frames[1].fn] <= index[u]
    BY <1>11, <1>12 DEF FramesInv, FrameFn
  <2>2. \A i \in 1 .. d + 1 : cg_frames'[i].fn \in on_stack' /\ cg_frames'[i].work \subseteq Direct(cg_frames'[i].fn)
    BY <2>1, <1>5, <1>6, <1>13
  <2>3. \A i \in 1 .. d : index'[cg_frames'[i].fn] = index[cg_frames[i].fn] /\ index[cg_frames[i].fn] < n
    BY <1>5, <1>6, <1>7, <1>14
  <2>4. index'[cg_frames'[d + 1].fn] = n
    BY <1>5, <1>6
  <2>5. \A i, j \in 1 .. d + 1 : i < j => i \in 1 .. d /\ (j \in 1 .. d \/ j = d + 1)
    BY <1>1
  <2>6. \A i, j \in 1 .. d + 1 : i < j => index'[cg_frames'[i].fn] < index'[cg_frames'[j].fn]
    BY <2>1, <2>3, <2>4, <2>5
  <2>7. \A u \in on_stack' : d + 1 > 0 /\ index'[cg_frames'[1].fn] <= index'[u]
    <3>1. CASE d = 0
      <4>1. on_stack' = {w}
        BY <3>1, <1>6, <1>7
      <4> QED
        BY <3>1, <4>1, <1>5, <1>6, <1>7
    <3>2. CASE d > 0
      <4>1. 1 \in 1 .. d
        BY <3>2, <1>1
      <4>2. \A u \in on_stack : index'[u] = index[u]
        BY <1>6, <1>7, <1>8
      <4>3. \A u \in on_stack : index'[cg_frames'[1].fn] <= index'[u]
        BY <4>1, <4>2, <2>1, <2>3
      <4>4. index'[cg_frames'[1].fn] <= index'[w]
        BY <4>1, <2>3, <1>6, <1>7
      <4> QED
        BY <4>3, <4>4, <1>1, <1>6
    <3> QED
      BY <3>1, <3>2, <1>1
  <2> QED
    BY <2>2, <2>6, <2>7, <1>4, <1>9 DEF FramesInv, FrameFn
<1>19. ExploredVisited'
  <2> SUFFICES ASSUME NEW f \in Fn, index'[f] # -1, NEW c \in Explored(f)' PROVE index'[c] # -1
    BY DEF ExploredVisited, Unvisited
  <2>1. f # w /\ (c \in Explored(f) \/ c = w) /\ c \in Fn
    BY <1>16, DirectType DEF Explored
  <2>2. c \in Explored(f) => index[c] # -1
    BY <2>1, <1>6, <1>11 DEF ExploredVisited, Unvisited
  <2> QED
    BY <2>1, <2>2, <1>6, <1>7
<1>20. ASSUME NEW u \in on_stack', NEW i \in 1 .. d, UpTo(u, i)'
       PROVE  u \in on_stack /\ UpTo(u, i)
  <2>1. index'[u] < index'[cg_frames'[i + 1].fn]
    BY <1>4, <1>13, <1>20 DEF UpTo, FrameFn
  <2>2. i + 1 \in 1 .. d \/ i + 1 = d + 1
    BY <1>13
  <2>3. i + 1 \in 1 .. d => index'[cg_frames'[i + 1].fn] = index[cg_frames[i + 1].fn] /\ index[cg_frames[i + 1].fn] < n
    BY <1>5, <1>6, <1>7, <1>14
  <2>4. u # w
    <3> SUFFICES ASSUME u = w PROVE FALSE
      OBVIOUS
    <3>1. index'[u] = n
      BY <1>6
    <3>2. index'[cg_frames'[d + 1].fn] = n
      BY <1>5, <1>6
    <3>3. CASE i + 1 \in 1 .. d
      <4>1. index[cg_frames[i + 1].fn] \in Int
        BY <3>3, <1>7
      <4> QED
        BY <3>3, <4>1, <2>1, <2>3, <3>1, <1>7
    <3>4. CASE i + 1 = d + 1
      BY <3>4, <2>1, <3>1, <3>2, <1>7
    <3> QED
      BY <3>3, <3>4, <2>2
  <2>5. u \in on_stack /\ index'[u] = index[u]
    BY <2>4, <1>6, <1>7
  <2>6. i < d => index[u] < index[cg_frames[i + 1].fn]
    BY <2>1, <2>3, <2>5, <1>13
  <2> QED
    BY <2>5, <2>6, <1>12 DEF UpTo, FrameFn
<1>21. LowlinkBelow'
  <2>1. /\ \A i \in 1 .. d : lowlink[cg_frames[i].fn] <= index[cg_frames[i].fn]
        /\ \A i \in 1 .. d : \A u \in on_stack : index[cg_frames[i].fn] <= index[u] /\ UpTo(u, i) =>
             \A c \in Explored(u) \cap on_stack : lowlink[cg_frames[i].fn] <= index[c]
    BY <1>11, <1>12 DEF LowlinkBelow, FrameFn, InSegment
  <2>2. \A i \in 1 .. d : /\ index'[cg_frames'[i].fn] = index[cg_frames[i].fn]
                          /\ lowlink'[cg_frames'[i].fn] = lowlink[cg_frames[i].fn]
    BY <1>5, <1>6, <1>7, <1>14
  <2>3. index'[cg_frames'[d + 1].fn] = n /\ lowlink'[cg_frames'[d + 1].fn] = n
    BY <1>5, <1>6
  <2>4. \A i \in 1 .. d + 1 : lowlink'[cg_frames'[i].fn] <= index'[cg_frames'[i].fn]
    BY <2>1, <2>2, <2>3, <1>7, <1>13
  <2>5. ASSUME NEW i \in 1 .. d + 1, NEW u \in on_stack', index'[cg_frames'[i].fn] <= index'[u], UpTo(u, i)',
               NEW c \in Explored(u)' \cap on_stack'
        PROVE  lowlink'[cg_frames'[i].fn] <= index'[c]
    <3>1. CASE i = d + 1
      <4>1. u \in Fn /\ (u # w => index'[u] = index[u] /\ index[u] < n)
        BY <1>6, <1>7
      <4>2. u = w
        BY <4>1, <3>1, <2>3, <2>5, <1>7
      <4> QED
        BY <4>2, <2>5, <1>15
    <3>2. CASE i \in 1 .. d
      <4>1. u \in on_stack /\ UpTo(u, i) /\ u \in Fn /\ index'[u] = index[u]
        BY <3>2, <2>5, <1>6, <1>7, <1>8, <1>20
      <4>2. index[cg_frames[i].fn] <= index[u]
        BY <3>2, <4>1, <2>2, <2>5
      <4>3. c \in Explored(u) \/ c = w
        BY <4>1, <2>5, <1>16
      <4>4. CASE c = w
        <5>1. index'[c] = n
          BY <4>4, <1>6
        <5>2. /\ lowlink'[cg_frames'[i].fn] = lowlink[cg_frames[i].fn]
              /\ lowlink[cg_frames[i].fn] <= index[cg_frames[i].fn] /\ index[cg_frames[i].fn] < n
              /\ lowlink[cg_frames[i].fn] \in Int /\ index[cg_frames[i].fn] \in Int
          BY <3>2, <2>1, <2>2, <1>7
        <5> QED
          BY <5>1, <5>2, <1>7
      <4>5. CASE c \in Explored(u) /\ c # w
        <5>1. c \in on_stack /\ index'[c] = index[c]
          BY <4>5, <2>5, <1>6, <1>7
        <5>2. lowlink[cg_frames[i].fn] <= index[c]
          BY <3>2, <4>1, <4>2, <4>5, <5>1, <2>1
        <5> QED
          BY <3>2, <5>1, <5>2, <2>2
      <4> QED
        BY <4>3, <4>4, <4>5
    <3> QED
      BY <3>1, <3>2, <1>13
  <2> QED
    BY <2>4, <2>5, <1>4 DEF LowlinkBelow, FrameFn, InSegment
<1>22. LowlinkReached'
  <2> SUFFICES ASSUME NEW i \in 1 .. d + 1
               PROVE  \E x \in on_stack' : index'[x] = lowlink'[cg_frames'[i].fn] /\ ReachesOrIs(cg_frames'[i].fn, x)
    BY <1>4, <1>9 DEF LowlinkReached, FrameFn
  <2>1. CASE i = d + 1
    <3>1. w \in on_stack' /\ index'[w] = lowlink'[w] /\ cg_frames'[i].fn = w /\ ReachesOrIs(w, w)
      BY <2>1, <1>5, <1>6 DEF ReachesOrIs
    <3> QED
      BY <3>1
  <2>2. CASE i \in 1 .. d
    <3>1. PICK x \in on_stack : index[x] = lowlink[cg_frames[i].fn] /\ ReachesOrIs(cg_frames[i].fn, x)
      BY <2>2, <1>11, <1>12 DEF LowlinkReached, FrameFn
    <3>2. x \in on_stack' /\ index'[x] = index[x]
      BY <3>1, <1>6, <1>7, <1>8
    <3>3. cg_frames'[i].fn = cg_frames[i].fn /\ lowlink'[cg_frames[i].fn] = lowlink[cg_frames[i].fn]
      BY <2>2, <1>5, <1>6, <1>7, <1>14
    <3> QED
      BY <3>1, <3>2, <3>3
  <2> QED
    BY <2>1, <2>2, <1>13
(* Everything on the stack reaches the top, whose callee w is.             *)
<1>23. ASSUME NEW f \in Fn, d > 0, ReachesOrIs(f, cg_frames[d].fn) PROVE ReachesOrIs(f, w)
  <2>1. d \in 1 .. d
    BY <1>1, <1>23
  <2> QED
    BY <2>1, <1>7, <1>10, <1>23, ReachesDirect
<1>24. ReachesLater'
  <2> SUFFICES ASSUME NEW i \in 1 .. d + 1, NEW u \in on_stack', index'[cg_frames'[i].fn] <= index'[u]
               PROVE  ReachesOrIs(cg_frames'[i].fn, u)
    BY <1>4, <1>9 DEF ReachesLater, FrameFn
  <2>1. \A j \in 1 .. d : \A x \in on_stack : index[cg_frames[j].fn] <= index[x] => ReachesOrIs(cg_frames[j].fn, x)
    BY <1>11, <1>12 DEF ReachesLater, FrameFn
  <2>2. CASE i = d + 1
    <3>1. u \in Fn /\ (u # w => index'[u] = index[u] /\ index[u] < n)
      BY <1>6, <1>7
    <3>2. cg_frames'[i].fn = w /\ index'[w] = n
      BY <2>2, <1>5, <1>6
    <3>3. u = w
      BY <3>1, <3>2, <1>7
    <3> QED
      BY <3>2, <3>3 DEF ReachesOrIs
  <2>3. CASE i \in 1 .. d
    <3>1. /\ cg_frames'[i].fn = cg_frames[i].fn /\ index'[cg_frames[i].fn] = index[cg_frames[i].fn]
          /\ cg_frames[i].fn \in Fn
      BY <2>3, <1>5, <1>6, <1>7, <1>14
    <3>2. CASE u = w
      <4>1. d \in 1 .. d /\ d > 0
        BY <2>3, <1>1
      <4>2. i = d \/ i < d
        BY <2>3, <1>1
      <4>3. index[cg_frames[i].fn] <= index[cg_frames[d].fn]
        <5>1. \A j \in 1 .. d : i < j => index[cg_frames[i].fn] < index[cg_frames[j].fn]
          BY <2>3, <1>11, <1>12 DEF FramesInv, FrameFn
        <5>2. index[cg_frames[i].fn] \in Int /\ index[cg_frames[d].fn] \in Int
          BY <2>3, <4>1, <1>7
        <5> QED
          BY <4>1, <4>2, <5>1, <5>2
      <4>4. ReachesOrIs(cg_frames[i].fn, cg_frames[d].fn)
        BY <2>1, <2>3, <4>1, <4>3, <1>7
      <4> QED
        BY <3>1, <3>2, <4>1, <4>4, <1>23
    <3>3. CASE u # w
      <4>1. u \in on_stack /\ index'[u] = index[u]
        BY <3>3, <1>6, <1>7
      <4> QED
        BY <2>1, <2>3, <3>1, <4>1
    <3> QED
      BY <3>2, <3>3
  <2> QED
    BY <2>2, <2>3, <1>13
<1>25. ReachesTop'
  <2> SUFFICES ASSUME NEW i \in 1 .. d + 1, NEW u \in on_stack', UpTo(u, i)'
               PROVE  ReachesOrIs(u, cg_frames'[i].fn)
    BY <1>4, <1>9 DEF ReachesTop, FrameFn
  <2>1. \A j \in 1 .. d : \A x \in on_stack : UpTo(x, j) => ReachesOrIs(x, cg_frames[j].fn)
    BY <1>11, <1>12 DEF ReachesTop, FrameFn
  <2>2. CASE i = d + 1
    <3>1. cg_frames'[i].fn = w
      BY <2>2, <1>5
    <3>2. CASE u = w
      BY <3>1, <3>2 DEF ReachesOrIs
    <3>3. CASE u # w
      <4>1. u \in on_stack /\ u \in Fn /\ d > 0
        BY <3>3, <1>6, <1>7
      <4>2. d \in 1 .. d /\ ~(d < d)
        BY <4>1, <1>1
      <4>3. UpTo(u, d)
        BY <4>2, <1>12 DEF UpTo
      <4> QED
        BY <2>1, <3>1, <4>1, <4>2, <4>3, <1>23
    <3> QED
      BY <3>2, <3>3
  <2>3. CASE i \in 1 .. d
    <3>1. u \in on_stack /\ UpTo(u, i)
      BY <2>3, <1>20
    <3> QED
      BY <2>1, <2>3, <3>1, <1>5
  <2> QED
    BY <2>2, <2>3, <1>13
<1>26. PoppedInv'
  <2>1. Popped' = Popped
    <3>1. \A f \in Fn : f # w => (index'[f] # -1 <=> index[f] # -1) /\ (f \in on_stack' <=> f \in on_stack)
      BY <1>6
    <3> QED
      BY <3>1, <1>6, <1>8 DEF Popped, Unvisited
  <2>2. Closed(Popped)' <=> Closed(Popped)
    BY <2>1, <1>9 DEF Closed
  <2> QED
    BY <2>1, <2>2, <1>9, <1>11 DEF PoppedInv
<1>27. \A f \in Fn \ cg_todo' : index'[f] # -1
  <2>1. \A f \in Fn \ cg_todo : index[f] # -1
    BY DEF TarjanInv, Unvisited
  <2> QED
    BY <2>1, <1>6, <1>7
<1> QED
  BY <1>3, <1>17, <1>18, <1>19, <1>21, <1>22, <1>24, <1>25, <1>26, <1>27 DEF TarjanInv, Unvisited

(* What a step of the second phase leaves alone.                           *)
LEMMA TarjanStep ==
  ASSUME CallGraphInv, phase = "tarjan", UNCHANGED <<mod, phase, edges>>, TarjanInv',
         cg_todo' \subseteq Fn, cg_frames' \in Seq(CGFrameType),
         index' \in [Fn -> Int] /\ lowlink' \in [Fn -> Int] /\ on_stack' \subseteq Fn,
         next_index' \in Nat /\ stack' \in Seq(Fn),
         is_recursive' \subseteq Fn /\ is_recursive' \subseteq OnCycle
  PROVE  CallGraphInv'
<1>1. \A f : Direct(f)' = Direct(f)
  BY SameModule
<1>2. OnCycle' = OnCycle
  BY SameModule
<1>3. GraphBuilt'
  BY <1>1 DEF CallGraphInv, GraphBuilt, edges
<1>4. CallGraphTypeOK'
  BY DEF CallGraphInv, CallGraphTypeOK, edges
<1> QED
  BY <1>2, <1>3, <1>4 DEF CallGraphInv

(* The types of what strongconnect enters.                                 *)
LEMMA EnterVertexType ==
  ASSUME CallGraphTypeOK, NEW w \in Fn, NEW below, EnterVertex(w, below)
  PROVE  /\ index' \in [Fn -> Int] /\ lowlink' \in [Fn -> Int] /\ on_stack' \subseteq Fn
         /\ next_index' \in Nat /\ stack' \in Seq(Fn)
<1>1. stack' \in Seq(Fn)
  BY AppendProperties DEF EnterVertex, CallGraphTypeOK
<1> QED
  BY <1>1 DEF EnterVertex, CallGraphTypeOK

(* Nothing but the declarations to come changes.                           *)
LEMMA TarjanUnchanged ==
  ASSUME TarjanInv, UNCHANGED <<mod, cg_frames, is_recursive>>,
         UNCHANGED <<index, lowlink, on_stack, next_index, stack>>,
         \A f \in Fn \ cg_todo' : f \notin cg_todo \/ ~Unvisited(f)
  PROVE  TarjanInv'
<1>1. /\ \A f : Direct(f)' = Direct(f)
      /\ \A f, g : ReachesOrIs(f, g)' <=> ReachesOrIs(f, g)
      /\ OnCycle' = OnCycle
  BY SameModule
<1>2. Depth' = Depth /\ (\A i : FrameFn(i)' = FrameFn(i)) /\ (\A f : Unvisited(f)' <=> Unvisited(f))
  BY DEF Depth, FrameFn, Unvisited
<1>3. StackInv' /\ FramesInv'
  BY <1>1, <1>2 DEF TarjanInv, StackInv, FramesInv
<1>4. \A f : Explored(f)' = Explored(f)
  BY <1>1, <1>2 DEF Explored
<1>5. \A u, i : (UpTo(u, i)' <=> UpTo(u, i)) /\ (InSegment(u, i)' <=> InSegment(u, i))
  BY <1>2 DEF UpTo, InSegment
<1>6. ExploredVisited' /\ LowlinkBelow'
  BY <1>2, <1>4, <1>5 DEF TarjanInv, ExploredVisited, LowlinkBelow
<1>7. LowlinkReached' /\ ReachesLater' /\ ReachesTop'
  BY <1>1, <1>2, <1>5 DEF TarjanInv, LowlinkReached, ReachesLater, ReachesTop
<1>8. Popped' = Popped
  BY <1>2 DEF Popped
<1>9. PoppedInv'
  BY <1>1, <1>8 DEF TarjanInv, PoppedInv, Closed
<1>10. \A f \in Fn \ cg_todo' : ~Unvisited(f)'
  BY <1>2 DEF TarjanInv
<1> QED
  BY <1>3, <1>6, <1>7, <1>9, <1>10 DEF TarjanInv

(* The loop of tarjan.                                                     *)
LEMMA VisitVertexInv == ASSUME CallGraphInv, NEW v \in Fn, VisitVertex(v) PROVE CallGraphInv'
<1>1. /\ phase = "tarjan" /\ cg_frames = <<>> /\ v \in cg_todo /\ cg_todo' = cg_todo \ {v}
      /\ UNCHANGED <<mod, phase, edges>> /\ UNCHANGED is_recursive
  BY DEF VisitVertex
<1>2. CallGraphTypeOK /\ GraphBuilt /\ TarjanInv /\ is_recursive \subseteq OnCycle /\ is_recursive \subseteq Fn
  BY <1>1 DEF CallGraphInv, CallGraphTypeOK
<1>3. CASE Unvisited(v)
  <2>1. EnterVertex(v, <<>>)
    BY <1>3 DEF VisitVertex
  <2>2. <<>> \in Seq(CGFrameType) /\ Len(<<>>) = Depth /\ Depth = 0
    BY <1>1 DEF Depth
  <2> DEFINE none == <<>>
  <2>3. \A i \in 1 .. Depth : /\ none[i].fn = FrameFn(i)
                              /\ i # Depth => none[i].work = cg_frames[i].work
                              /\ i = Depth => none[i].work = cg_frames[i].work \ {v}
    BY <2>2
  <2>4. none \in Seq(CGFrameType) /\ Len(none) = Depth /\ ~(Depth > 0) /\ EnterVertex(v, none)
    BY <2>1, <2>2
  <2>5. \A f \in Fn \ cg_todo' : f = v \/ f \notin cg_todo
    BY <1>1
  <2>6. UNCHANGED <<mod, callees, is_recursive>>
    BY <1>1 DEF edges
  <2> HIDE DEF none
  <2>7. TarjanInv' /\ cg_frames' \in Seq(CGFrameType)
    BY <1>2, <1>3, <2>3, <2>4, <2>5, <2>6, EnterVertexInv
  <2>8. /\ index' \in [Fn -> Int] /\ lowlink' \in [Fn -> Int] /\ on_stack' \subseteq Fn
        /\ next_index' \in Nat /\ stack' \in Seq(Fn)
    BY <1>2, <2>4, EnterVertexType
  <2>9. cg_todo' \subseteq Fn
    BY <1>1, <1>2 DEF CallGraphTypeOK
  <2> QED
    BY <1>1, <1>2, <2>7, <2>8, <2>9, TarjanStep
<1>4. CASE ~Unvisited(v)
  <2>1. UNCHANGED <<cg_frames, vertices>> /\ UNCHANGED <<index, lowlink, on_stack, next_index, stack>>
    BY <1>4 DEF VisitVertex, vertices
  <2>2. \A f \in Fn \ cg_todo' : f \notin cg_todo \/ ~Unvisited(f)
    BY <1>1, <1>4
  <2>3. TarjanInv'
    BY <1>1, <1>2, <2>1, <2>2, TarjanUnchanged
  <2>4. /\ cg_todo' \subseteq Fn /\ cg_frames' \in Seq(CGFrameType)
         /\ index' \in [Fn -> Int] /\ lowlink' \in [Fn -> Int] /\ on_stack' \subseteq Fn
         /\ next_index' \in Nat /\ stack' \in Seq(Fn)
    BY <1>1, <1>2, <2>1 DEF CallGraphTypeOK
  <2> QED
    BY <1>1, <1>2, <2>3, <2>4, TarjanStep
<1> QED
  BY <1>3, <1>4

(* A successor that has been visited.                                      *)
LEMMA FollowEdgeInv ==
  ASSUME CallGraphTypeOK, TarjanInv, cg_frames # <<>>, NEW w \in Direct(CGTop.fn), ~Unvisited(w),
         lowlink' = LowlinkVia(CGTop.fn, w), cg_frames' = WithoutWork(w),
         UNCHANGED <<index, on_stack, next_index, stack>>, UNCHANGED <<mod, cg_todo, is_recursive>>
  PROVE  TarjanInv' /\ cg_frames' \in Seq(CGFrameType) /\ lowlink' \in [Fn -> Int]
<1> DEFINE d == Depth
           v == CGTop.fn
<1>1. /\ d \in Nat \ {0} /\ d \in 1 .. d /\ v = cg_frames[d].fn /\ v \in Fn /\ w \in Fn
      /\ CGTop.work = cg_frames[d].work /\ cg_frames \in Seq(CGFrameType)
  BY TopFrame, DirectType DEF CallGraphTypeOK, FrameFn
<1>2. /\ cg_frames' \in Seq(CGFrameType) /\ Len(cg_frames') = d
      /\ \A i \in 1 .. d : /\ cg_frames'[i].fn = cg_frames[i].fn
                           /\ i # d => cg_frames'[i].work = cg_frames[i].work
      /\ cg_frames'[d].work = cg_frames[d].work \ {w}
  BY <1>1, WithoutWorkFacts DEF FrameFn
<1>3. Depth' = d /\ Depth = d
  BY <1>2 DEF Depth
<1>4. /\ \A f \in Fn : index[f] \in Int /\ lowlink[f] \in Int
      /\ \A u \in on_stack : u \in Fn
      /\ \A i \in 1 .. d : cg_frames[i].fn \in on_stack /\ cg_frames[i].fn \in Fn
  BY OnStackFacts DEF FrameFn
<1>5. lowlink \in [Fn -> Int] /\ index \in [Fn -> Int]
  BY DEF CallGraphTypeOK
<1>6. /\ lowlink' \in [Fn -> Int]
      /\ \A f \in Fn : f # v => lowlink'[f] = lowlink[f]
      /\ lowlink'[v] <= lowlink[v]
      /\ w \in on_stack => lowlink'[v] <= index[w]
      /\ lowlink'[v] = lowlink[v] \/ (w \in on_stack /\ lowlink'[v] = index[w])
  <2>1. CASE w \in on_stack
    <3>1. lowlink' = [lowlink EXCEPT ![v] = MinOf(lowlink[v], index[w])]
      BY <2>1 DEF LowlinkVia
    <3>2. MinOf(lowlink[v], index[w]) \in Int
      BY <1>1, <1>4 DEF MinOf
    <3>3. lowlink'[v] = MinOf(lowlink[v], index[w])
      BY <3>1, <1>1, <1>5
    <3>4. /\ MinOf(lowlink[v], index[w]) <= lowlink[v] /\ MinOf(lowlink[v], index[w]) <= index[w]
          /\ MinOf(lowlink[v], index[w]) \in {lowlink[v], index[w]}
      BY <1>1, <1>4 DEF MinOf
    <3> QED
      BY <2>1, <3>1, <3>2, <3>3, <3>4, <1>1, <1>5
  <2>2. CASE w \notin on_stack
    <3>1. lowlink' = lowlink
      BY <2>2 DEF LowlinkVia
    <3> QED
      BY <2>2, <3>1, <1>1, <1>4, <1>5
  <2> QED
    BY <2>1, <2>2
<1>7. /\ \A f : Direct(f)' = Direct(f)
      /\ \A f, g : ReachesOrIs(f, g)' <=> ReachesOrIs(f, g)
      /\ OnCycle' = OnCycle
  BY SameModule
<1>8. /\ StackInv /\ FramesInv /\ ExploredVisited /\ LowlinkBelow /\ LowlinkReached
      /\ ReachesLater /\ ReachesTop /\ PoppedInv
  BY DEF TarjanInv
<1> HIDE DEF d
<1>9. \A i \in 1 .. d : i < d => i + 1 \in 1 .. d
  BY <1>1
<1>10. \A f : Unvisited(f)' <=> Unvisited(f)
  BY DEF Unvisited
<1>11. ASSUME NEW f \in Fn, NEW c \in Explored(f)' PROVE c \in Explored(f) \/ (f = v /\ c = w)
  <2>1. c \in Direct(f) /\ \A i \in 1 .. d : cg_frames'[i].fn = f => c \notin cg_frames'[i].work
    BY <1>3, <1>7, <1>11 DEF Explored, FrameFn
  <2>2. \A i \in 1 .. d : cg_frames[i].fn = f => c \notin cg_frames[i].work \/ (i = d /\ c = w)
    BY <2>1, <1>2
  <2> QED
    BY <2>1, <2>2, <1>1, <1>3 DEF Explored, FrameFn
<1>12. StackInv'
  BY <1>8, <1>10 DEF StackInv
<1>13. FramesInv'
  <2>1. /\ \A i \in 1 .. d : cg_frames[i].fn \in on_stack /\ cg_frames[i].work \subseteq Direct(cg_frames[i].fn)
        /\ \A i, j \in 1 .. d : i < j => index[cg_frames[i].fn] < index[cg_frames[j].fn]
        /\ \A u \in on_stack : d > 0 /\ index[cg_frames[1].fn] <= index[u]
    BY <1>8, <1>3 DEF FramesInv, FrameFn
  <2>2. \A i \in 1 .. d : cg_frames'[i].fn \in on_stack /\ cg_frames'[i].work \subseteq Direct(cg_frames'[i].fn)
    BY <2>1, <1>2
  <2>3. \A i, j \in 1 .. d : i < j => index[cg_frames'[i].fn] < index[cg_frames'[j].fn]
    BY <2>1, <1>2
  <2>4. 1 \in 1 .. d
    BY <1>1
  <2>5. \A u \in on_stack : d > 0 /\ index[cg_frames'[1].fn] <= index[u]
    BY <2>1, <2>4, <1>2
  <2> QED
    BY <2>2, <2>3, <2>5, <1>3, <1>7 DEF FramesInv, FrameFn
<1>14. ExploredVisited'
  BY <1>8, <1>10, <1>11 DEF ExploredVisited
<1>15. \A u : \A i \in 1 .. d : UpTo(u, i)' <=> UpTo(u, i)
  BY <1>2, <1>3, <1>9 DEF UpTo, FrameFn
<1>16. \A i \in 1 .. d : i < d => index[cg_frames[i].fn] < index[v] /\ cg_frames[i].fn # v
  <2>1. \A i, j \in 1 .. d : i < j => index[cg_frames[i].fn] < index[cg_frames[j].fn]
    BY <1>8, <1>3 DEF FramesInv, FrameFn
  <2> QED
    BY <2>1, <1>1, <1>4
<1>17. LowlinkBelow'
  <2>1. /\ \A i \in 1 .. d : lowlink[cg_frames[i].fn] <= index[cg_frames[i].fn]
        /\ \A i \in 1 .. d : \A u \in on_stack : index[cg_frames[i].fn] <= index[u] /\ UpTo(u, i) =>
             \A c \in Explored(u) \cap on_stack : lowlink[cg_frames[i].fn] <= index[c]
    BY <1>8, <1>3 DEF LowlinkBelow, FrameFn, InSegment
  <2>2. \A i \in 1 .. d : i = d \/ lowlink'[cg_frames[i].fn] = lowlink[cg_frames[i].fn]
    BY <1>1, <1>4, <1>6, <1>16
  <2>3. \A i \in 1 .. d : /\ lowlink'[cg_frames[i].fn] <= lowlink[cg_frames[i].fn]
                          /\ lowlink'[cg_frames[i].fn] \in Int
    BY <2>2, <1>1, <1>4, <1>6
  <2>4. \A i \in 1 .. d : lowlink'[cg_frames[i].fn] <= index[cg_frames[i].fn]
    BY <2>1, <2>3, <1>4
  <2>5. ASSUME NEW i \in 1 .. d, NEW u \in on_stack, index[cg_frames[i].fn] <= index[u], UpTo(u, i),
               NEW c \in Explored(u)' \cap on_stack
        PROVE  lowlink'[cg_frames[i].fn] <= index[c]
    <3>1. CASE c \in Explored(u)
      <4>1. lowlink[cg_frames[i].fn] <= index[c]
        BY <2>1, <2>5, <3>1
      <4> QED
        BY <4>1, <2>3, <2>5, <1>4
    <3>2. CASE u = v /\ c = w
      <4>1. i = d
        <5> SUFFICES ASSUME i < d PROVE FALSE
          BY <1>1
        <5>1. index[v] < index[cg_frames[i + 1].fn] /\ i + 1 \in 1 .. d
          BY <2>5, <3>2, <1>3, <1>9 DEF UpTo, FrameFn
        <5>2. index[cg_frames[i + 1].fn] <= index[v]
          BY <5>1, <1>1, <1>4, <1>16
        <5> QED
          BY <5>1, <5>2, <1>1, <1>4
      <4> QED
        BY <3>2, <4>1, <2>5, <1>1, <1>6
    <3> QED
      BY <3>1, <3>2, <2>5, <1>4, <1>11
  <2>6. \A i \in 1 .. d : cg_frames'[i].fn = cg_frames[i].fn
    BY <1>2
  <2> QED
    BY <2>4, <2>5, <2>6, <1>3, <1>15 DEF LowlinkBelow, FrameFn, InSegment
<1>18. LowlinkReached'
  <2> SUFFICES ASSUME NEW i \in 1 .. d
               PROVE  \E x \in on_stack : index[x] = lowlink'[cg_frames[i].fn] /\ ReachesOrIs(cg_frames[i].fn, x)
    BY <1>2, <1>3, <1>7 DEF LowlinkReached, FrameFn
  <2>1. \E x \in on_stack : index[x] = lowlink[cg_frames[i].fn] /\ ReachesOrIs(cg_frames[i].fn, x)
    BY <1>3, <1>8 DEF LowlinkReached, FrameFn
  <2>2. CASE lowlink'[cg_frames[i].fn] = lowlink[cg_frames[i].fn]
    BY <2>1, <2>2
  <2>3. CASE lowlink'[cg_frames[i].fn] # lowlink[cg_frames[i].fn]
    <3>1. i = d /\ w \in on_stack /\ lowlink'[v] = index[w]
      BY <2>3, <1>1, <1>4, <1>6, <1>16
    <3>2. ReachesOrIs(v, w)
      BY <1>1, DirectIsReachable DEF ReachesOrIs
    <3> QED
      BY <3>1, <3>2, <1>1
  <2> QED
    BY <2>2, <2>3
<1>19. ReachesLater'
  BY <1>2, <1>3, <1>7, <1>8 DEF ReachesLater, FrameFn
<1>20. ReachesTop'
  <2>1. \A i \in 1 .. d : \A u \in on_stack : UpTo(u, i) => ReachesOrIs(u, cg_frames[i].fn)
    BY <1>3, <1>8 DEF ReachesTop, FrameFn
  <2> QED
    BY <2>1, <1>2, <1>3, <1>7, <1>15 DEF ReachesTop, FrameFn
<1>21. PoppedInv'
  <2>1. Popped' = Popped
    BY <1>10 DEF Popped
  <2> QED
    BY <2>1, <1>7, <1>8 DEF PoppedInv, Closed
<1>22. \A f \in Fn \ cg_todo' : ~Unvisited(f)'
  BY <1>10 DEF TarjanInv
<1> QED
  BY <1>2, <1>6, <1>12, <1>13, <1>14, <1>17, <1>18, <1>19, <1>20, <1>21, <1>22 DEF TarjanInv

(* The loop of strongconnect.                                              *)
LEMMA VisitSuccessorInv == ASSUME CallGraphInv, NEW w \in Fn, VisitSuccessor(w) PROVE CallGraphInv'
<1>1. /\ phase = "tarjan" /\ cg_frames # <<>> /\ w \in CGTop.work
      /\ UNCHANGED <<mod, phase, edges>> /\ UNCHANGED is_recursive /\ UNCHANGED cg_todo
  BY DEF VisitSuccessor
<1>2. CallGraphTypeOK /\ GraphBuilt /\ TarjanInv /\ is_recursive \subseteq OnCycle /\ is_recursive \subseteq Fn
  BY <1>1 DEF CallGraphInv, CallGraphTypeOK
<1>3. /\ Depth \in Nat \ {0} /\ Depth \in 1 .. Depth /\ CGTop = cg_frames[Depth] /\ CGTop.fn = FrameFn(Depth)
      /\ CGTop.fn \in Fn /\ cg_frames \in Seq(CGFrameType)
  BY <1>1, <1>2, TopFrame DEF CallGraphTypeOK
<1>4. w \in Direct(CGTop.fn)
  BY <1>1, <1>2, <1>3 DEF TarjanInv, FramesInv
<1>5. CASE Unvisited(w)
  <2>1. EnterVertex(w, WithoutWork(w))
    BY <1>5 DEF VisitSuccessor
  <2> DEFINE below == WithoutWork(w)
  <2>2. /\ below \in Seq(CGFrameType) /\ Len(below) = Depth
        /\ \A i \in 1 .. Depth : /\ below[i].fn = FrameFn(i)
                                 /\ i # Depth => below[i] = cg_frames[i]
        /\ below[Depth].work = CGTop.work \ {w}
    BY <1>1, <1>3, WithoutWorkFacts
  <2>3. \A i \in 1 .. Depth : /\ below[i].fn = FrameFn(i)
                              /\ i # Depth => below[i].work = cg_frames[i].work
                              /\ i = Depth => below[i].work = cg_frames[i].work \ {w}
    BY <2>2, <1>3
  <2>4. \A f \in Fn \ cg_todo' : f = w \/ f \notin cg_todo
    BY <1>1
  <2>5. UNCHANGED <<mod, callees, is_recursive>>
    BY <1>1 DEF edges
  <2> HIDE DEF below
  <2>6. EnterVertex(w, below)
    BY <2>1 DEF below
  <2>7. TarjanInv' /\ cg_frames' \in Seq(CGFrameType)
    BY <1>2, <1>3, <1>4, <1>5, <2>2, <2>3, <2>4, <2>5, <2>6, EnterVertexInv
  <2>8. /\ index' \in [Fn -> Int] /\ lowlink' \in [Fn -> Int] /\ on_stack' \subseteq Fn
        /\ next_index' \in Nat /\ stack' \in Seq(Fn)
    BY <1>2, <2>6, EnterVertexType
  <2>9. cg_todo' \subseteq Fn
    BY <1>1, <1>2 DEF CallGraphTypeOK
  <2> QED
    BY <1>1, <1>2, <2>7, <2>8, <2>9, TarjanStep
<1>6. CASE ~Unvisited(w)
  <2>1. /\ lowlink' = LowlinkVia(CGTop.fn, w) /\ cg_frames' = WithoutWork(w)
        /\ UNCHANGED <<index, on_stack, next_index, stack>>
    BY <1>6 DEF VisitSuccessor
  <2>2. UNCHANGED <<mod, cg_todo, is_recursive>>
    BY <1>1
  <2>3. TarjanInv' /\ cg_frames' \in Seq(CGFrameType) /\ lowlink' \in [Fn -> Int]
    BY <1>1, <1>2, <1>4, <1>6, <2>1, <2>2, FollowEdgeInv
  <2>4. /\ cg_todo' \subseteq Fn /\ index' \in [Fn -> Int] /\ on_stack' \subseteq Fn
        /\ next_index' \in Nat /\ stack' \in Seq(Fn)
    BY <1>1, <1>2, <2>1 DEF CallGraphTypeOK
  <2> QED
    BY <1>1, <1>2, <2>3, <2>4, TarjanStep
<1> QED
  BY <1>5, <1>6

(* What is above a function of Tarjan's stack was entered after it.        *)
LEMMA ComponentFacts ==
  ASSUME CallGraphTypeOK, TarjanInv, NEW v \in on_stack
  PROVE  /\ Component(v) = {u \in on_stack : index[v] <= index[u]}
         /\ Position(v) \in 1 .. Len(stack) /\ stack[Position(v)] = v
<1> DEFINE p == Position(v)
           m == Len(stack)
<1>1. stack \in Seq(Fn) /\ m \in Nat /\ DOMAIN stack = 1 .. m
  BY LenProperties DEF CallGraphTypeOK
<1>2. /\ on_stack = {stack[i] : i \in 1 .. m}
      /\ \A i, j \in 1 .. m : i < j => index[stack[i]] < index[stack[j]]
  BY DEF TarjanInv, StackInv
<1>3. p \in 1 .. m /\ stack[p] = v
  <2>1. \E i \in DOMAIN stack : stack[i] = v
    BY <1>1, <1>2
  <2> QED
    BY <2>1, <1>1 DEF Position
<1>4. \A i \in 1 .. m : index[stack[i]] \in Int
  BY <1>2, OnStackFacts
<1>5. Component(v) = ToSet(SubSeq(stack, p, m))
  BY DEF Component
<1> HIDE DEF p, m
<1>6. \A i \in 1 .. m : index[v] <= index[stack[i]] <=> p <= i
  <2> SUFFICES ASSUME NEW i \in 1 .. m PROVE index[v] <= index[stack[i]] <=> p <= i
    OBVIOUS
  <2>1. CASE i < p
    <3>1. index[stack[i]] < index[v]
      BY <2>1, <1>2, <1>3
    <3> QED
      BY <3>1, <2>1, <1>1, <1>3, <1>4
  <2>2. CASE i = p
    BY <2>2, <1>1, <1>3, <1>4
  <2>3. CASE p < i
    <3>1. index[v] < index[stack[i]]
      BY <2>3, <1>2, <1>3
    <3> QED
      BY <3>1, <2>3, <1>1, <1>3, <1>4
  <2> QED
    BY <2>1, <2>2, <2>3, <1>1, <1>3
<1>7. ToSet(SubSeq(stack, p, m)) = {stack[i] : i \in p .. m}
  <2> DEFINE s == SubSeq(stack, p, m)
  <2>1. \A i \in p .. m : stack[i] \in Fn
    BY <1>1, <1>3 DEF m
  <2>2. /\ s \in Seq(Fn) /\ Len(s) = m - p + 1
        /\ \A i \in 1 .. m - p + 1 : s[i] = stack[p + i - 1]
    BY <2>1, <1>1, <1>3, SubSeqProperties
  <2> HIDE DEF s
  <2>3. DOMAIN s = 1 .. m - p + 1
    BY <2>2, LenProperties
  <2>4. ToSet(s) = {s[i] : i \in 1 .. m - p + 1}
    BY <2>3 DEF ToSet
  <2>5. \A i \in 1 .. m - p + 1 : p + i - 1 \in p .. m
    BY <1>1, <1>3
  <2>6. \A j \in p .. m : j - p + 1 \in 1 .. m - p + 1 /\ p + (j - p + 1) - 1 = j
    BY <1>1, <1>3
  <2>7. \A x : x \in {s[i] : i \in 1 .. m - p + 1} => x \in {stack[i] : i \in p .. m}
    BY <2>2, <2>5
  <2>8. \A x : x \in {stack[i] : i \in p .. m} => x \in {s[i] : i \in 1 .. m - p + 1}
    <3> SUFFICES ASSUME NEW j \in p .. m PROVE stack[j] \in {s[i] : i \in 1 .. m - p + 1}
      OBVIOUS
    <3>1. s[j - p + 1] = stack[j] /\ j - p + 1 \in 1 .. m - p + 1
      BY <2>2, <2>6
    <3> QED
      BY <3>1
  <2> QED
    BY <2>4, <2>7, <2>8 DEF s
<1>8. \A i : i \in p .. m <=> i \in 1 .. m /\ p <= i
  BY <1>1, <1>3
<1>9. {stack[i] : i \in p .. m} = {u \in on_stack : index[v] <= index[u]}
  <2>1. \A x : x \in {stack[i] : i \in p .. m} <=> \E i \in 1 .. m : x = stack[i] /\ p <= i
    BY <1>8
  <2>2. \A x : x \in {u \in on_stack : index[v] <= index[u]} <=> \E i \in 1 .. m : x = stack[i] /\ index[v] <= index[stack[i]]
    BY <1>2
  <2> QED
    BY <2>1, <2>2, <1>6
<1> QED
  BY <1>3, <1>5, <1>7, <1>9 DEF p, m

(* The stack without a component.                                          *)
LEMMA PoppedStack ==
  ASSUME CallGraphTypeOK, TarjanInv, NEW v \in on_stack, PopComponent(v),
         UNCHANGED <<index, next_index>>
  PROVE  /\ stack' \in Seq(Fn) /\ StackInv'
         /\ on_stack' = {u \in on_stack : index[u] < index[v]}
<1> DEFINE p == Position(v)
           m == Len(stack)
           n == p - 1
<1>1. stack \in Seq(Fn) /\ m \in Nat
  BY LenProperties DEF CallGraphTypeOK
<1>2. /\ on_stack = {stack[i] : i \in 1 .. m}
      /\ \A i, j \in 1 .. m : i < j => index[stack[i]] < index[stack[j]]
      /\ \A f \in Fn : -1 <= index[f] /\ index[f] < next_index
      /\ \A f \in on_stack : ~Unvisited(f)
  BY DEF TarjanInv, StackInv
<1>3. p \in 1 .. m /\ stack[p] = v /\ Component(v) = {u \in on_stack : index[v] <= index[u]}
  BY ComponentFacts
<1>4. \A u \in on_stack : index[u] \in Int
  BY OnStackFacts
<1>5. on_stack' = {u \in on_stack : index[u] < index[v]}
  BY <1>3, <1>4 DEF PopComponent
<1>6. stack' = SubSeq(stack, 1, n)
  BY DEF PopComponent
<1> HIDE DEF p, m
<1>7. n \in 0 .. m /\ n \in Int /\ 1 \in Int /\ n - 1 + 1 = n /\ \A i \in 1 .. n : i \in 1 .. m /\ i < p /\ 1 + i - 1 = i
  BY <1>1, <1>3
<1>8. \A i \in 1 .. n : stack[i] \in Fn
  BY <1>1, <1>7 DEF m
<1> HIDE DEF n
<1>9. /\ stack' \in Seq(Fn) /\ Len(stack') = n
      /\ \A i \in 1 .. n : stack'[i] = stack[i]
  <2>1. /\ SubSeq(stack, 1, n) \in Seq(Fn)
        /\ Len(SubSeq(stack, 1, n)) = IF 1 <= n THEN n - 1 + 1 ELSE 0
        /\ \A i \in 1 .. n - 1 + 1 : SubSeq(stack, 1, n)[i] = stack[1 + i - 1]
    BY <1>7, <1>8, SubSeqProperties
  <2>2. (IF 1 <= n THEN n - 1 + 1 ELSE 0) = n
    BY <1>7, <1>1
  <2> QED
    BY <2>1, <2>2, <1>6, <1>7
<1>10. \A i \in 1 .. m : index[stack[i]] < index[v] <=> i \in 1 .. n
  <2> SUFFICES ASSUME NEW i \in 1 .. m PROVE index[stack[i]] < index[v] <=> i \in 1 .. n
    OBVIOUS
  <2>1. CASE i < p
    <3>1. index[stack[i]] < index[v]
      BY <2>1, <1>2, <1>3
    <3>2. i \in 1 .. n
      BY <2>1, <1>1, <1>3 DEF n
    <3> QED
      BY <3>1, <3>2
  <2>2. CASE i = p
    BY <2>2, <1>2, <1>3, <1>4, <1>7
  <2>3. CASE p < i
    <3>1. index[v] < index[stack[i]] /\ index[stack[i]] \in Int /\ index[v] \in Int
      BY <2>3, <1>2, <1>3, <1>4
    <3>2. i \notin 1 .. n
      BY <2>3, <1>3, <1>7
    <3> QED
      BY <3>1, <3>2
  <2> QED
    BY <2>1, <2>2, <2>3, <1>1, <1>3
<1>11. on_stack' = {stack'[i] : i \in 1 .. n}
  <2>1. \A x : x \in on_stack' <=> \E i \in 1 .. m : x = stack[i] /\ index[stack[i]] < index[v]
    BY <1>2, <1>5
  <2>2. \A x : x \in {stack'[i] : i \in 1 .. n} <=> \E i \in 1 .. n : x = stack[i]
    BY <1>9
  <2> QED
    BY <2>1, <2>2, <1>7, <1>10
<1>12. \A i, j \in 1 .. n : i < j => index[stack'[i]] < index[stack'[j]]
  BY <1>2, <1>7, <1>9
<1> QED
  BY <1>2, <1>5, <1>9, <1>11, <1>12 DEF StackInv, Unvisited

(* A frame less: what both ways out of strongconnect have in common.       *)
LEMMA LeaveFacts ==
  ASSUME CallGraphTypeOK, TarjanInv, LeaveVertex
  PROVE  /\ cg_frames # <<>> /\ cg_frames' \in Seq(CGFrameType) /\ Depth \in Nat \ {0} /\ Depth' = Depth - 1
         /\ \A i \in 1 .. Depth - 1 : cg_frames'[i] = cg_frames[i]
         /\ CGTop.fn = FrameFn(Depth) /\ FrameFn(Depth) \in on_stack
         /\ \A f \in Fn : /\ Explored(f)' \subseteq Explored(f)
                          /\ (\A i \in 1 .. Depth - 1 : FrameFn(i) # f) => Explored(f) = Direct(f)
         /\ lowlink' \in [Fn -> Int]
         /\ \A f \in Fn : lowlink'[f] = IF Depth > 1 /\ f = FrameFn(Depth - 1)
                                        THEN MinOf(lowlink[f], lowlink[FrameFn(Depth)]) ELSE lowlink[f]
<1> DEFINE d == Depth
           v == cg_frames[d].fn
<1>1. /\ phase = "tarjan" /\ cg_frames # <<>> /\ CGTop.work = {} /\ cg_frames' = Front(cg_frames)
      /\ UNCHANGED <<mod, phase, cg_todo, edges, index, next_index>>
  BY DEF LeaveVertex
<1>2. /\ d \in Nat \ {0} /\ d \in 1 .. d /\ CGTop = cg_frames[d] /\ v = CGTop.fn /\ v \in Fn
      /\ cg_frames \in Seq(CGFrameType)
  BY <1>1, TopFrame DEF CallGraphTypeOK, FrameFn
<1>3. /\ cg_frames' \in Seq(CGFrameType) /\ Len(cg_frames') = d - 1
      /\ \A i \in 1 .. d - 1 : cg_frames'[i] = cg_frames[i]
  BY <1>1, <1>2, PopFacts
<1>4. Depth' = d - 1
  BY <1>3 DEF Depth
<1>5. v \in on_stack
  BY <1>2, OnStackFacts DEF FrameFn
<1>6. \A f : Direct(f)' = Direct(f)
  BY <1>1, SameModule
<1>7. lowlink' = IF d = 1 THEN lowlink
                 ELSE [lowlink EXCEPT ![FrameFn(d - 1)] = MinOf(lowlink[FrameFn(d - 1)], lowlink[v])]
  BY <1>2 DEF LeaveVertex, FrameFn, Depth
<1>8. d # 1 => FrameFn(d - 1) \in Fn
  <2>1. d # 1 => d - 1 \in 1 .. d
    BY <1>2
  <2> QED
    BY <2>1, OnStackFacts
<1>9. lowlink \in [Fn -> Int]
  BY DEF CallGraphTypeOK
<1>10. /\ lowlink' \in [Fn -> Int]
       /\ \A f \in Fn : lowlink'[f] = IF d > 1 /\ f = FrameFn(d - 1) THEN MinOf(lowlink[f], lowlink[v]) ELSE lowlink[f]
  <2>1. CASE d = 1
    BY <2>1, <1>7, <1>9
  <2>2. CASE d # 1
    <3> DEFINE parent == FrameFn(d - 1)
    <3>1. parent \in Fn /\ d > 1
      BY <2>2, <1>2, <1>8
    <3>2. MinOf(lowlink[parent], lowlink[v]) \in Int
      BY <3>1, <1>2, <1>9 DEF MinOf
    <3>3. lowlink' = [lowlink EXCEPT ![parent] = MinOf(lowlink[parent], lowlink[v])]
      BY <2>2, <1>7
    <3> HIDE DEF parent
    <3>4. \A f \in Fn : lowlink'[f] = IF f = parent THEN MinOf(lowlink[f], lowlink[v]) ELSE lowlink[f]
      BY <3>1, <3>3, <1>9
    <3>5. lowlink' \in [Fn -> Int]
      BY <3>1, <3>2, <3>3, <1>9
    <3> QED
      BY <3>1, <3>4, <3>5 DEF parent
  <2> QED
    BY <2>1, <2>2
<1>11. cg_frames[d].work = {}
  BY <1>1, <1>2
<1>12. Depth = d /\ FrameFn(d) = v
  BY DEF FrameFn
<1> HIDE DEF d
<1>13. \A i \in 1 .. d : i \in 1 .. d - 1 \/ i = d
  BY <1>2
<1>14. ASSUME NEW f \in Fn
       PROVE  /\ Explored(f)' \subseteq Explored(f)
              /\ (\A i \in 1 .. d - 1 : FrameFn(i) # f) => Explored(f) = Direct(f)
  <2>1. Explored(f) = {c \in Direct(f) : \A i \in 1 .. d : cg_frames[i].fn = f => c \notin cg_frames[i].work}
    BY <1>12 DEF Explored, FrameFn
  <2>2. Explored(f)' = {c \in Direct(f) : \A i \in 1 .. d - 1 : cg_frames'[i].fn = f => c \notin cg_frames'[i].work}
    BY <1>4, <1>6 DEF Explored, FrameFn
  <2>3. Explored(f)' \subseteq Explored(f)
    BY <2>1, <2>2, <1>3, <1>11, <1>13
  <2>4. (\A i \in 1 .. d - 1 : cg_frames[i].fn # f) => Explored(f) = Direct(f)
    BY <2>1, <1>11, <1>13
  <2> QED
    BY <2>3, <2>4 DEF FrameFn
<1> QED
  BY <1>1, <1>2, <1>3, <1>4, <1>5, <1>10, <1>12, <1>14

(* A vertex that is no root returns to its caller: what is above it on the *)
(* stack becomes part of the caller's segment.                             *)
LEMMA ReturnInv ==
  ASSUME CallGraphTypeOK, TarjanInv, LeaveVertex, lowlink[CGTop.fn] # index[CGTop.fn]
  PROVE  TarjanInv' /\ UNCHANGED <<stack, on_stack, is_recursive>>
<1> DEFINE d == Depth
           v == cg_frames[d].fn
           parent == cg_frames[d - 1].fn
<1>1. /\ d \in Nat \ {0} /\ Depth' = d - 1 /\ v = CGTop.fn /\ v \in on_stack
      /\ \A i \in 1 .. d - 1 : cg_frames'[i] = cg_frames[i]
      /\ \A f \in Fn : Explored(f)' \subseteq Explored(f)
      /\ \A f \in Fn : lowlink'[f] = IF d > 1 /\ f = parent THEN MinOf(lowlink[f], lowlink[v]) ELSE lowlink[f]
  BY LeaveFacts DEF FrameFn
<1>2. UNCHANGED <<stack, on_stack, is_recursive>>
  BY DEF LeaveVertex
<1>3. UNCHANGED <<mod, cg_todo, index, next_index>>
  BY DEF LeaveVertex
<1>4. /\ \A f \in Fn : index[f] \in Int /\ lowlink[f] \in Int
      /\ \A u \in on_stack : u \in Fn
      /\ \A i \in 1 .. d : cg_frames[i].fn \in on_stack /\ cg_frames[i].fn \in Fn
  BY OnStackFacts DEF FrameFn
<1>5. /\ \A f : Direct(f)' = Direct(f)
      /\ \A f, g : ReachesOrIs(f, g)' <=> ReachesOrIs(f, g)
      /\ OnCycle' = OnCycle
  BY <1>3, SameModule
<1>6. /\ StackInv /\ FramesInv /\ ExploredVisited /\ LowlinkBelow /\ LowlinkReached
      /\ ReachesLater /\ ReachesTop /\ PoppedInv
  BY DEF TarjanInv
<1>7. Depth = d
  OBVIOUS
<1>8. lowlink[v] # index[v]
  BY <1>1
<1> HIDE DEF d
<1>9. /\ \A i \in 1 .. d : cg_frames[i].fn \in on_stack /\ cg_frames[i].work \subseteq Direct(cg_frames[i].fn)
      /\ \A i, j \in 1 .. d : i < j => index[cg_frames[i].fn] < index[cg_frames[j].fn]
      /\ \A u \in on_stack : d > 0 /\ index[cg_frames[1].fn] <= index[u]
  BY <1>6, <1>7 DEF FramesInv, FrameFn
<1>10. d \in 1 .. d /\ 1 \in 1 .. d /\ \A i \in 1 .. d - 1 : i \in 1 .. d /\ i < d
  BY <1>1
<1>11. /\ \A i \in 1 .. d : lowlink[cg_frames[i].fn] <= index[cg_frames[i].fn]
       /\ \A i \in 1 .. d : \A u \in on_stack : index[cg_frames[i].fn] <= index[u] /\ UpTo(u, i) =>
            \A c \in Explored(u) \cap on_stack : lowlink[cg_frames[i].fn] <= index[c]
  BY <1>6, <1>7 DEF LowlinkBelow, FrameFn, InSegment
(* The function at the top reaches one that was entered before it.         *)
<1>12. PICK x \in on_stack : index[x] = lowlink[v] /\ ReachesOrIs(v, x)
  BY <1>6, <1>7, <1>10 DEF LowlinkReached, FrameFn
<1>13. index[x] < index[v]
  BY <1>4, <1>8, <1>10, <1>11, <1>12
<1>14. d > 1 /\ d - 1 \in 1 .. d - 1 /\ d - 1 \in 1 .. d /\ d - 1 < d /\ (d - 1) + 1 = d
  <2>1. d # 1
    <3> SUFFICES ASSUME d = 1 PROVE FALSE
      OBVIOUS
    <3>1. index[v] <= index[x]
      BY <1>9, <1>12
    <3> QED
      BY <3>1, <1>1, <1>4, <1>12, <1>13
  <2> QED
    BY <2>1, <1>1
<1>15. parent \in Fn /\ parent \in on_stack /\ index[parent] < index[v]
  BY <1>4, <1>9, <1>10, <1>14
<1>16. \A f \in Fn : lowlink'[f] = IF f = parent THEN MinOf(lowlink[f], lowlink[v]) ELSE lowlink[f]
  BY <1>1, <1>14
<1>17. /\ lowlink'[parent] <= lowlink[parent] /\ lowlink'[parent] <= lowlink[v]
       /\ lowlink'[parent] \in {lowlink[parent], lowlink[v]} /\ lowlink'[parent] \in Int
  BY <1>1, <1>4, <1>15, <1>16 DEF MinOf
<1> HIDE DEF parent, v
<1>18. \A i \in 1 .. d - 1 : i = d - 1 \/ (i < d - 1 /\ i + 1 \in 1 .. d - 1 /\ i + 1 \in 1 .. d /\ cg_frames[i].fn # parent)
  <2> SUFFICES ASSUME NEW i \in 1 .. d - 1, i # d - 1
               PROVE  i < d - 1 /\ i + 1 \in 1 .. d - 1 /\ i + 1 \in 1 .. d /\ cg_frames[i].fn # parent
    OBVIOUS
  <2>1. i < d - 1 /\ i + 1 \in 1 .. d - 1 /\ i + 1 \in 1 .. d
    BY <1>1
  <2>2. index[cg_frames[i].fn] < index[parent]
    BY <2>1, <1>9, <1>10, <1>14 DEF parent
  <2> QED
    BY <2>1, <2>2, <1>4, <1>15
<1>19. \A i \in 1 .. d - 1 : lowlink'[cg_frames[i].fn] = IF i = d - 1 THEN lowlink'[parent] ELSE lowlink[cg_frames[i].fn]
  BY <1>4, <1>10, <1>16, <1>18 DEF parent
<1>20. ASSUME NEW i \in 1 .. d - 1, NEW u
       PROVE  /\ UpTo(u, i)' <=> (i # d - 1 => index[u] < index[cg_frames[i + 1].fn])
              /\ UpTo(u, i) <=> index[u] < index[cg_frames[i + 1].fn]
  <2>1. UpTo(u, i) <=> index[u] < index[cg_frames[i + 1].fn]
    BY <1>7, <1>10 DEF UpTo, FrameFn
  <2>2. UpTo(u, i)' <=> (i < d - 1 => index[u] < index[cg_frames'[i + 1].fn])
    BY <1>1, <1>3 DEF UpTo, FrameFn
  <2>3. i < d - 1 <=> i # d - 1
    BY <1>1
  <2>4. i < d - 1 => cg_frames'[i + 1].fn = cg_frames[i + 1].fn
    BY <2>3, <1>1, <1>18
  <2> QED
    BY <2>1, <2>2, <2>3, <2>4
<1>21. \A f : Unvisited(f)' <=> Unvisited(f)
  BY <1>3 DEF Unvisited
<1>22. StackInv'
  BY <1>2, <1>3, <1>6, <1>21 DEF StackInv
<1>23. FramesInv'
  <2>1. \A i \in 1 .. d - 1 : cg_frames'[i].fn \in on_stack /\ cg_frames'[i].work \subseteq Direct(cg_frames'[i].fn)
    BY <1>1, <1>9, <1>10
  <2>2. \A i, j \in 1 .. d - 1 : i < j => index[cg_frames'[i].fn] < index[cg_frames'[j].fn]
    BY <1>1, <1>9, <1>10
  <2>3. 1 \in 1 .. d - 1 /\ d - 1 > 0
    BY <1>14
  <2>4. \A u \in on_stack : index[cg_frames'[1].fn] <= index[u]
    BY <2>3, <1>1, <1>9
  <2> QED
    BY <2>1, <2>2, <2>3, <2>4, <1>1, <1>2, <1>3, <1>5 DEF FramesInv, FrameFn
<1>24. ExploredVisited'
  BY <1>1, <1>6, <1>21 DEF ExploredVisited
<1>25. LowlinkBelow'
  <2>1. \A i \in 1 .. d - 1 : lowlink'[cg_frames[i].fn] <= index[cg_frames[i].fn]
    <3> SUFFICES ASSUME NEW i \in 1 .. d - 1 PROVE lowlink'[cg_frames[i].fn] <= index[cg_frames[i].fn]
      OBVIOUS
    <3>1. lowlink[cg_frames[i].fn] <= index[cg_frames[i].fn] /\ index[cg_frames[i].fn] \in Int /\ lowlink[cg_frames[i].fn] \in Int
      BY <1>4, <1>10, <1>11
    <3>2. CASE i = d - 1
      BY <3>1, <3>2, <1>17 DEF parent
    <3>3. CASE i # d - 1
      BY <3>1, <3>3, <1>19
    <3> QED
      BY <3>2, <3>3
  <2>2. ASSUME NEW i \in 1 .. d - 1, NEW u \in on_stack, index[cg_frames[i].fn] <= index[u], UpTo(u, i)',
               NEW c \in Explored(u)' \cap on_stack
        PROVE  lowlink'[cg_frames[i].fn] <= index[c]
    <3>1. u \in Fn /\ c \in Fn /\ c \in Explored(u) /\ c \in on_stack /\ index[c] \in Int /\ i \in 1 .. d
      BY <2>2, <1>1, <1>4, <1>10
    <3>2. CASE UpTo(u, i)
      <4>1. lowlink[cg_frames[i].fn] <= index[c] /\ lowlink[cg_frames[i].fn] \in Int
        BY <2>2, <3>1, <3>2, <1>4, <1>11
      <4>2. CASE i = d - 1
        BY <4>1, <4>2, <3>1, <1>4, <1>15, <1>17 DEF parent
      <4>3. CASE i # d - 1
        BY <4>1, <4>3, <1>19
      <4> QED
        BY <4>2, <4>3
    <3>3. CASE ~UpTo(u, i)
      <4>1. i = d - 1
        BY <2>2, <3>3, <1>20
      <4>2. ~(index[u] < index[v])
        BY <4>1, <3>3, <1>14, <1>20 DEF v
      <4>3. index[v] <= index[u]
        BY <4>2, <3>1, <1>1, <1>4
      <4>4. UpTo(u, d)
        BY <1>1, <1>7 DEF UpTo
      <4>5. lowlink[v] <= index[c]
        BY <3>1, <4>3, <4>4, <1>10, <1>11 DEF v
      <4>6. lowlink'[cg_frames[i].fn] <= lowlink[v] /\ lowlink'[cg_frames[i].fn] \in Int /\ lowlink[v] \in Int
        BY <4>1, <1>1, <1>4, <1>17 DEF parent
      <4> QED
        BY <3>1, <4>5, <4>6
    <3> QED
      BY <3>2, <3>3
  <2>3. \A i \in 1 .. d - 1 : cg_frames'[i].fn = cg_frames[i].fn
    BY <1>1
  <2> QED
    BY <2>1, <2>2, <2>3, <1>1, <1>2, <1>3 DEF LowlinkBelow, FrameFn, InSegment
<1>26. LowlinkReached'
  <2> SUFFICES ASSUME NEW i \in 1 .. d - 1
               PROVE  \E y \in on_stack : index[y] = lowlink'[cg_frames[i].fn] /\ ReachesOrIs(cg_frames[i].fn, y)
    BY <1>1, <1>2, <1>3, <1>5 DEF LowlinkReached, FrameFn
  <2>1. \E y \in on_stack : index[y] = lowlink[cg_frames[i].fn] /\ ReachesOrIs(cg_frames[i].fn, y)
    BY <1>6, <1>7, <1>10 DEF LowlinkReached, FrameFn
  <2>2. CASE lowlink'[cg_frames[i].fn] = lowlink[cg_frames[i].fn]
    BY <2>1, <2>2
  <2>3. CASE lowlink'[cg_frames[i].fn] # lowlink[cg_frames[i].fn]
    <3>1. i = d - 1 /\ cg_frames[i].fn = parent
      BY <2>3, <1>19 DEF parent
    <3>2. lowlink'[parent] = lowlink[v]
      BY <2>3, <3>1, <1>17
    <3>3. index[parent] <= index[v]
      BY <1>1, <1>4, <1>15
    <3>4. ReachesOrIs(parent, v)
      BY <3>3, <1>1, <1>6, <1>7, <1>14 DEF ReachesLater, FrameFn, parent
    <3>5. ReachesOrIs(parent, x)
      BY <3>4, <1>1, <1>4, <1>12, <1>15, ReachesTransitive
    <3> QED
      BY <3>1, <3>2, <3>5, <1>12
  <2> QED
    BY <2>2, <2>3
<1>27. ReachesLater'
  <2>1. \A i \in 1 .. d : \A u \in on_stack : index[cg_frames[i].fn] <= index[u] => ReachesOrIs(cg_frames[i].fn, u)
    BY <1>6, <1>7 DEF ReachesLater, FrameFn
  <2> QED
    BY <2>1, <1>1, <1>2, <1>3, <1>5, <1>10 DEF ReachesLater, FrameFn
<1>28. ReachesTop'
  <2> SUFFICES ASSUME NEW i \in 1 .. d - 1, NEW u \in on_stack, UpTo(u, i)'
               PROVE  ReachesOrIs(u, cg_frames[i].fn)
    BY <1>1, <1>2, <1>5 DEF ReachesTop, FrameFn
  <2>1. \A j \in 1 .. d : \A y \in on_stack : UpTo(y, j) => ReachesOrIs(y, cg_frames[j].fn)
    BY <1>6, <1>7 DEF ReachesTop, FrameFn
  <2>2. CASE UpTo(u, i)
    BY <2>1, <2>2, <1>10
  <2>3. CASE ~UpTo(u, i)
    <3>1. i = d - 1
      BY <2>3, <1>20
    <3>2. UpTo(u, d)
      BY <1>1, <1>7 DEF UpTo
    <3>3. ReachesOrIs(u, v)
      BY <2>1, <3>2, <1>10 DEF v
    <3>4. UpTo(x, d - 1)
      BY <1>13, <1>14, <1>20 DEF v
    <3>5. ReachesOrIs(x, parent)
      BY <2>1, <3>4, <1>12, <1>14 DEF parent
    <3>6. u \in Fn /\ v \in Fn /\ x \in Fn /\ parent \in Fn
      BY <1>1, <1>4, <1>12, <1>15
    <3>7. ReachesOrIs(u, x)
      BY <3>3, <3>6, <1>12, ReachesTransitive
    <3>8. ReachesOrIs(u, parent)
      BY <3>5, <3>6, <3>7, ReachesTransitive
    <3> QED
      BY <3>1, <3>8 DEF parent
  <2> QED
    BY <2>2, <2>3
<1>29. PoppedInv'
  <2>1. Popped' = Popped
    BY <1>2, <1>21 DEF Popped
  <2> QED
    BY <2>1, <1>2, <1>5, <1>6 DEF PoppedInv, Closed
<1>30. \A f \in Fn \ cg_todo' : ~Unvisited(f)'
  BY <1>3, <1>21 DEF TarjanInv
<1> QED
  BY <1>2, <1>22, <1>23, <1>24, <1>25, <1>26, <1>27, <1>28, <1>29, <1>30 DEF TarjanInv

(* A root: what it and the stack above it call is there too, or has been   *)
(* popped before, and all of it reaches the root and is reached from it.   *)
LEMMA RootFacts ==
  ASSUME CallGraphTypeOK, TarjanInv, LeaveVertex, lowlink[CGTop.fn] = index[CGTop.fn]
  PROVE  /\ Component(CGTop.fn) = {u \in on_stack : index[CGTop.fn] <= index[u]}
         /\ CGTop.fn \in Component(CGTop.fn) /\ Component(CGTop.fn) \subseteq on_stack
         /\ \A g \in Component(CGTop.fn) :
              /\ Direct(g) \subseteq Component(CGTop.fn) \cup Popped
              /\ ReachesOrIs(CGTop.fn, g) /\ ReachesOrIs(g, CGTop.fn)
<1> DEFINE d == Depth
           v == cg_frames[d].fn
<1>1. /\ d \in Nat \ {0} /\ CGTop.fn = v /\ v \in on_stack
      /\ \A f \in Fn : (\A i \in 1 .. d - 1 : FrameFn(i) # f) => Explored(f) = Direct(f)
  BY LeaveFacts DEF FrameFn
<1>2. Component(v) = {u \in on_stack : index[v] <= index[u]}
  BY <1>1, ComponentFacts
<1>3. /\ \A f \in Fn : index[f] \in Int /\ lowlink[f] \in Int
      /\ \A u \in on_stack : u \in Fn
  BY OnStackFacts
<1>4. Depth = d /\ FrameFn(d) = v /\ d \in 1 .. d
  BY <1>1 DEF FrameFn
<1>5. lowlink[v] = index[v]
  BY <1>1
<1> HIDE DEF d, v
<1>6. /\ \A i, j \in 1 .. d : i < j => index[FrameFn(i)] < index[FrameFn(j)]
      /\ ExploredVisited /\ ReachesLater /\ ReachesTop
      /\ \A u \in on_stack : InSegment(u, d) =>
           \A c \in Explored(u) \cap on_stack : lowlink[FrameFn(d)] <= index[c]
  BY <1>4 DEF TarjanInv, FramesInv, LowlinkBelow
<1>7. v \in Component(v) /\ Component(v) \subseteq on_stack
  BY <1>1, <1>2, <1>3
<1>8. ASSUME NEW g \in Component(v)
      PROVE  Direct(g) \subseteq Component(v) \cup Popped /\ ReachesOrIs(v, g) /\ ReachesOrIs(g, v)
  <2>1. g \in on_stack /\ g \in Fn /\ index[v] <= index[g]
    BY <1>2, <1>3
  <2>2. UpTo(g, d)
    BY <1>1, <1>4 DEF UpTo
  <2>3. \A i \in 1 .. d - 1 : FrameFn(i) # g
    <3> SUFFICES ASSUME NEW i \in 1 .. d - 1, FrameFn(i) = g PROVE FALSE
      OBVIOUS
    <3>1. i \in 1 .. d /\ i < d
      BY <1>1
    <3>2. index[g] < index[v]
      BY <3>1, <1>4, <1>6
    <3> QED
      BY <3>2, <2>1, <1>1, <1>3
  <2>4. Explored(g) = Direct(g)
    BY <1>1, <2>1, <2>3
  <2>5. ~Unvisited(g)
    BY <2>1 DEF TarjanInv, StackInv
  <2>6. \A c \in Direct(g) : c \in Fn /\ ~Unvisited(c)
    BY <1>6, <2>1, <2>4, <2>5, DirectType DEF ExploredVisited
  <2>7. InSegment(g, d)
    BY <1>4, <2>1, <2>2 DEF InSegment
  <2>8. \A c \in Direct(g) : c \in on_stack => index[v] <= index[c]
    BY <1>4, <1>5, <1>6, <2>1, <2>4, <2>7
  <2>9. Direct(g) \subseteq Component(v) \cup Popped
    BY <1>2, <2>6, <2>8 DEF Popped
  <2>10. ReachesOrIs(v, g)
    BY <1>4, <1>6, <2>1 DEF ReachesLater
  <2>11. ReachesOrIs(g, v)
    BY <1>4, <1>6, <2>1, <2>2 DEF ReachesTop
  <2> QED
    BY <2>9, <2>10, <2>11
<1> QED
  BY <1>1, <1>2, <1>7, <1>8

(* So it is recursive, unless it is one function that does not call        *)
(* itself.                                                                 *)
LEMMA RootPopped ==
  ASSUME CallGraphTypeOK, TarjanInv, is_recursive \subseteq OnCycle,
         LeaveVertex, lowlink[CGTop.fn] = index[CGTop.fn]
  PROVE  PoppedInv' /\ is_recursive' \subseteq OnCycle'
<1> DEFINE v == CGTop.fn
           C == Component(v)
<1>1. PopComponent(v) /\ UNCHANGED <<mod, index>>
  BY DEF LeaveVertex
<1>2. /\ v \in C /\ C \subseteq on_stack
      /\ \A g \in C : Direct(g) \subseteq C \cup Popped /\ ReachesOrIs(v, g) /\ ReachesOrIs(g, v)
  BY RootFacts
<1>3. \A u \in on_stack : u \in Fn /\ ~Unvisited(u)
  BY OnStackFacts DEF TarjanInv, StackInv
<1>4. /\ \A f : Direct(f)' = Direct(f)
      /\ OnCycle' = OnCycle
  BY <1>1, SameModule
<1>5. on_stack' = on_stack \ C /\ is_recursive' = is_recursive \cup (IF C = {v} THEN {} ELSE C)
  BY <1>1 DEF PopComponent
<1>6. PoppedInv
  BY DEF TarjanInv
<1> HIDE DEF C, v
<1>7. \A f : Unvisited(f)' <=> Unvisited(f)
  BY <1>1 DEF Unvisited
<1>8. Popped' = Popped \cup C
  BY <1>2, <1>3, <1>5, <1>7 DEF Popped
<1>9. Closed(Popped)'
  <2>1. Closed(Popped)' <=> \A g \in Popped' : Direct(g) \subseteq Popped'
    BY <1>4 DEF Closed
  <2>2. \A g \in Popped : Direct(g) \subseteq Popped
    BY <1>6 DEF PoppedInv, Closed
  <2> QED
    BY <1>2, <1>8, <2>1, <2>2
<1>10. ASSUME NEW f \in C, f \in OnCycle PROVE f \in is_recursive'
  <2>1. CASE C # {v}
    BY <2>1, <1>5
  <2>2. CASE C = {v}
    <3>1. f = v /\ v \in Fn /\ v \in on_stack
      BY <2>2, <1>2, <1>3
    <3>2. CASE v \in Direct(v)
      BY <3>1, <3>2, <1>5, <1>6 DEF PoppedInv
    <3>3. CASE v \notin Direct(v)
      <4>1. Direct(v) \subseteq Popped
        BY <3>3, <2>2, <1>2
      <4>2. Popped \in SUBSET Fn
        BY DEF Popped
      <4>3. Reachable(v) \subseteq Popped
        BY <4>1, <4>2, <1>6, ReachableLeast DEF PoppedInv
      <4>4. v \notin Popped
        BY <3>1 DEF Popped
      <4>5. v \in Reachable(v)
        BY <3>1, <1>10 DEF OnCycle
      <4> QED
        BY <4>3, <4>4, <4>5
    <3> QED
      BY <3>2, <3>3
  <2> QED
    BY <2>1, <2>2
<1>11. PoppedInv'
  <2>1. \A f \in Popped' : f \in OnCycle' => f \in is_recursive'
    BY <1>4, <1>5, <1>6, <1>8, <1>10 DEF PoppedInv
  <2>2. \A f \in Fn : f \in Direct(f)' => f \in is_recursive'
    BY <1>4, <1>5, <1>6 DEF PoppedInv
  <2> QED
    BY <1>9, <2>1, <2>2 DEF PoppedInv
<1>12. ASSUME NEW f \in C, C # {v} PROVE f \in OnCycle
  <2>1. PICK g \in C : g # v
    BY <1>2, <1>12
  <2>2. v \in OnCycle /\ g \in OnCycle
    BY <2>1, <1>2, <1>3, MutualIsCycle
  <2>3. CASE f = v
    BY <2>2, <2>3
  <2>4. CASE f # v
    BY <2>4, <1>2, <1>3, MutualIsCycle
  <2> QED
    BY <2>3, <2>4
<1> QED
  BY <1>4, <1>5, <1>11, <1>12

(* A root pops its component, and the frames below it keep what they know  *)
(* of the rest.                                                            *)
LEMMA RootInv ==
  ASSUME CallGraphTypeOK, TarjanInv, is_recursive \subseteq OnCycle,
         LeaveVertex, lowlink[CGTop.fn] = index[CGTop.fn]
  PROVE  TarjanInv' /\ stack' \in Seq(Fn) /\ on_stack' \subseteq Fn
<1> DEFINE d == Depth
           v == cg_frames[d].fn
           parent == cg_frames[d - 1].fn
<1>1. /\ d \in Nat \ {0} /\ Depth' = d - 1 /\ v = CGTop.fn /\ v \in on_stack
      /\ \A i \in 1 .. d - 1 : cg_frames'[i] = cg_frames[i]
      /\ \A f \in Fn : Explored(f)' \subseteq Explored(f)
      /\ \A f \in Fn : lowlink'[f] = IF d > 1 /\ f = parent THEN MinOf(lowlink[f], lowlink[v]) ELSE lowlink[f]
  BY LeaveFacts DEF FrameFn
<1>2. PopComponent(v) /\ UNCHANGED <<mod, cg_todo, index, next_index>>
  BY <1>1 DEF LeaveVertex
<1>3. stack' \in Seq(Fn) /\ StackInv' /\ on_stack' = {u \in on_stack : index[u] < index[v]}
  BY <1>1, <1>2, PoppedStack
<1>4. /\ \A f \in Fn : index[f] \in Int /\ lowlink[f] \in Int
      /\ \A u \in on_stack : u \in Fn
      /\ \A i \in 1 .. d : cg_frames[i].fn \in on_stack /\ cg_frames[i].fn \in Fn
  BY OnStackFacts DEF FrameFn
<1>5. /\ \A f : Direct(f)' = Direct(f)
      /\ \A f, g : ReachesOrIs(f, g)' <=> ReachesOrIs(f, g)
      /\ OnCycle' = OnCycle
  BY <1>2, SameModule
<1>6. /\ StackInv /\ FramesInv /\ ExploredVisited /\ LowlinkBelow /\ LowlinkReached
      /\ ReachesLater /\ ReachesTop
  BY DEF TarjanInv
<1>7. Depth = d
  OBVIOUS
<1>8. lowlink[v] = index[v]
  BY <1>1
<1> HIDE DEF d
<1>9. /\ \A i \in 1 .. d : cg_frames[i].fn \in on_stack /\ cg_frames[i].work \subseteq Direct(cg_frames[i].fn)
      /\ \A i, j \in 1 .. d : i < j => index[cg_frames[i].fn] < index[cg_frames[j].fn]
      /\ \A u \in on_stack : d > 0 /\ index[cg_frames[1].fn] <= index[u]
  BY <1>6, <1>7 DEF FramesInv, FrameFn
<1>10. d \in 1 .. d /\ 1 \in 1 .. d /\ \A i \in 1 .. d - 1 : i \in 1 .. d /\ i < d
  BY <1>1
<1>11. /\ \A i \in 1 .. d : lowlink[cg_frames[i].fn] <= index[cg_frames[i].fn]
       /\ \A i \in 1 .. d : \A u \in on_stack : index[cg_frames[i].fn] <= index[u] /\ UpTo(u, i) =>
            \A c \in Explored(u) \cap on_stack : lowlink[cg_frames[i].fn] <= index[c]
  BY <1>6, <1>7 DEF LowlinkBelow, FrameFn, InSegment
<1>12. \A i \in 1 .. d - 1 : index[cg_frames[i].fn] < index[v]
  BY <1>9, <1>10
(* No lowlink changes.                                                     *)
<1>13. ASSUME NEW i \in 1 .. d - 1 PROVE lowlink'[cg_frames[i].fn] = lowlink[cg_frames[i].fn]
  <2> DEFINE f == cg_frames[i].fn
  <2>1. f \in Fn /\ index[f] \in Int /\ lowlink[f] \in Int /\ index[v] \in Int
    BY <1>1, <1>4, <1>10
  <2>2. lowlink[f] <= index[f] /\ index[f] < index[v]
    BY <1>10, <1>11, <1>12
  <2>3. MinOf(lowlink[f], lowlink[v]) = lowlink[f]
    BY <2>1, <2>2, <1>8 DEF MinOf
  <2>4. lowlink'[f] = IF d > 1 /\ f = parent THEN MinOf(lowlink[f], lowlink[v]) ELSE lowlink[f]
    BY <2>1, <1>1
  <2> QED
    BY <2>3, <2>4
<1>14. ASSUME NEW i \in 1 .. d - 1, NEW u \in on_stack', UpTo(u, i)'
       PROVE  UpTo(u, i)
  <2>1. index[u] < index[v]
    BY <1>3
  <2>2. UpTo(u, i) <=> index[u] < index[cg_frames[i + 1].fn]
    BY <1>7, <1>10 DEF UpTo, FrameFn
  <2>3. i < d - 1 => index[u] < index[cg_frames'[i + 1].fn]
    BY <1>1, <1>2, <1>14 DEF UpTo, FrameFn
  <2>4. CASE i = d - 1
    <3>1. i + 1 = d
      BY <2>4, <1>1
    <3> QED
      BY <3>1, <2>1, <2>2
  <2>5. CASE i # d - 1
    <3>1. i < d - 1 /\ i + 1 \in 1 .. d - 1
      BY <2>5, <1>1
    <3> QED
      BY <3>1, <2>2, <2>3, <1>1
  <2> QED
    BY <2>4, <2>5
<1>15. \A f : Unvisited(f)' <=> Unvisited(f)
  BY <1>2 DEF Unvisited
<1>16. on_stack' \subseteq on_stack
  BY <1>3
<1> HIDE DEF parent, v
<1>17. FramesInv'
  <2>1. \A i \in 1 .. d - 1 : cg_frames'[i].fn \in on_stack' /\ cg_frames'[i].work \subseteq Direct(cg_frames'[i].fn)
    BY <1>1, <1>3, <1>9, <1>10, <1>12
  <2>2. \A i, j \in 1 .. d - 1 : i < j => index[cg_frames'[i].fn] < index[cg_frames'[j].fn]
    BY <1>1, <1>9, <1>10
  <2>3. ASSUME NEW u \in on_stack' PROVE d - 1 > 0 /\ index[cg_frames'[1].fn] <= index[u]
    <3>1. u \in on_stack /\ index[u] < index[v] /\ index[u] \in Int /\ index[v] \in Int
      BY <1>1, <1>3, <1>4
    <3>2. index[cg_frames[1].fn] <= index[u]
      BY <3>1, <1>9
    <3>3. d # 1
      <4> SUFFICES ASSUME d = 1 PROVE FALSE
        OBVIOUS
      <4>1. index[v] <= index[u]
        BY <3>2 DEF v
      <4> QED
        BY <4>1, <3>1
    <3>4. d - 1 > 0 /\ 1 \in 1 .. d - 1
      BY <3>3, <1>1
    <3> QED
      BY <3>2, <3>4, <1>1
  <2> QED
    BY <2>1, <2>2, <2>3, <1>1, <1>2, <1>5 DEF FramesInv, FrameFn
<1>18. ExploredVisited'
  BY <1>1, <1>6, <1>15 DEF ExploredVisited
<1>19. LowlinkBelow'
  <2>1. \A i \in 1 .. d - 1 : lowlink'[cg_frames[i].fn] <= index[cg_frames[i].fn]
    BY <1>10, <1>11, <1>13
  <2>2. ASSUME NEW i \in 1 .. d - 1, NEW u \in on_stack', index[cg_frames[i].fn] <= index[u], UpTo(u, i)',
               NEW c \in Explored(u)' \cap on_stack'
        PROVE  lowlink'[cg_frames[i].fn] <= index[c]
    <3>1. u \in on_stack /\ c \in Explored(u) \cap on_stack /\ i \in 1 .. d
      BY <2>2, <1>1, <1>4, <1>10, <1>16
    <3>2. UpTo(u, i)
      BY <2>2, <1>14
    <3> QED
      BY <2>2, <3>1, <3>2, <1>11, <1>13
  <2>3. \A i \in 1 .. d - 1 : cg_frames'[i].fn = cg_frames[i].fn
    BY <1>1
  <2> QED
    BY <2>1, <2>2, <2>3, <1>1, <1>2 DEF LowlinkBelow, FrameFn, InSegment
<1>20. LowlinkReached'
  <2> SUFFICES ASSUME NEW i \in 1 .. d - 1
               PROVE  \E y \in on_stack' : index[y] = lowlink'[cg_frames[i].fn] /\ ReachesOrIs(cg_frames[i].fn, y)
    BY <1>1, <1>2, <1>5 DEF LowlinkReached, FrameFn
  <2>1. PICK y \in on_stack : index[y] = lowlink[cg_frames[i].fn] /\ ReachesOrIs(cg_frames[i].fn, y)
    BY <1>6, <1>7, <1>10 DEF LowlinkReached, FrameFn
  <2>2. index[y] <= index[cg_frames[i].fn] /\ index[cg_frames[i].fn] < index[v]
    BY <2>1, <1>10, <1>11, <1>12
  <2>3. index[y] \in Int /\ index[cg_frames[i].fn] \in Int /\ index[v] \in Int
    BY <2>1, <1>1, <1>4, <1>10
  <2>4. index[y] < index[v]
    BY <2>2, <2>3
  <2> QED
    BY <2>1, <2>4, <1>3, <1>13
<1>21. ReachesLater'
  <2>1. \A i \in 1 .. d : \A u \in on_stack : index[cg_frames[i].fn] <= index[u] => ReachesOrIs(cg_frames[i].fn, u)
    BY <1>6, <1>7 DEF ReachesLater, FrameFn
  <2> QED
    BY <2>1, <1>1, <1>2, <1>5, <1>10, <1>16 DEF ReachesLater, FrameFn
<1>22. ReachesTop'
  <2>1. \A j \in 1 .. d : \A y \in on_stack : UpTo(y, j) => ReachesOrIs(y, cg_frames[j].fn)
    BY <1>6, <1>7 DEF ReachesTop, FrameFn
  <2>2. \A i \in 1 .. d - 1 : \A u \in on_stack' : UpTo(u, i)' => ReachesOrIs(u, cg_frames[i].fn)
    BY <2>1, <1>10, <1>14, <1>16
  <2> QED
    BY <2>2, <1>1, <1>5 DEF ReachesTop, FrameFn
<1>23. PoppedInv'
  BY RootPopped
<1>24. \A f \in Fn \ cg_todo' : ~Unvisited(f)'
  BY <1>2, <1>15 DEF TarjanInv
<1>25. on_stack' \subseteq Fn
  BY <1>4, <1>16
<1> QED
  BY <1>3, <1>17, <1>18, <1>19, <1>20, <1>21, <1>22, <1>23, <1>24, <1>25 DEF TarjanInv

(* The end of strongconnect.                                               *)
LEMMA LeaveVertexInv == ASSUME CallGraphInv, LeaveVertex PROVE CallGraphInv'
<1>1. /\ phase = "tarjan" /\ cg_frames # <<>>
      /\ UNCHANGED <<mod, phase, edges>> /\ UNCHANGED <<index, next_index>> /\ UNCHANGED cg_todo
  BY DEF LeaveVertex
<1>2. /\ CallGraphTypeOK /\ GraphBuilt /\ TarjanInv /\ is_recursive \subseteq OnCycle /\ is_recursive \subseteq Fn
      /\ cg_todo \subseteq Fn /\ on_stack \subseteq Fn /\ stack \in Seq(Fn) /\ next_index \in Nat /\ index \in [Fn -> Int]
  BY <1>1 DEF CallGraphInv, CallGraphTypeOK
<1>3. cg_frames' \in Seq(CGFrameType) /\ lowlink' \in [Fn -> Int]
  BY <1>2, LeaveFacts
<1>4. OnCycle' = OnCycle /\ OnCycle \subseteq Fn
  BY <1>1, SameModule DEF OnCycle
<1>5. /\ TarjanInv' /\ stack' \in Seq(Fn) /\ on_stack' \subseteq Fn
      /\ is_recursive' \subseteq OnCycle'
  <2>1. CASE lowlink[CGTop.fn] = index[CGTop.fn]
    BY <2>1, <1>2, RootInv, RootPopped
  <2>2. CASE lowlink[CGTop.fn] # index[CGTop.fn]
    BY <2>2, <1>2, <1>4, ReturnInv
  <2> QED
    BY <2>1, <2>2
<1>6. is_recursive' \subseteq Fn
  BY <1>4, <1>5
<1> QED
  BY <1>1, <1>2, <1>3, <1>4, <1>5, <1>6, TarjanStep

(* The end.                                                                *)
LEMMA TarjanDoneInv == ASSUME CallGraphInv, TarjanDone PROVE CallGraphInv'
<1>1. /\ phase = "tarjan" /\ cg_todo = {} /\ cg_frames = <<>> /\ phase' = "done"
      /\ UNCHANGED <<mod, cg_todo, cg_frames, edges, is_recursive, vertices>>
  BY DEF TarjanDone
<1>2. /\ UNCHANGED <<mod, cg_todo, cg_frames, is_recursive>>
      /\ UNCHANGED <<fn2cgn, callees, callers, calls_indirect, is_address_captured>>
      /\ UNCHANGED <<index, lowlink, on_stack, next_index, stack>>
  BY <1>1 DEF edges, vertices
<1>3. CallGraphTypeOK /\ GraphBuilt /\ TarjanInv /\ is_recursive \subseteq OnCycle
  BY <1>1 DEF CallGraphInv
<1>4. CallGraphTypeOK'
  BY <1>1, <1>2, <1>3 DEF CallGraphTypeOK
<1>5. /\ \A f : Direct(f)' = Direct(f)
      /\ \A f, g : ReachesOrIs(f, g)' <=> ReachesOrIs(f, g)
      /\ OnCycle' = OnCycle
  BY <1>2, SameModule
<1>6. GraphBuilt'
  BY <1>2, <1>3, <1>5 DEF GraphBuilt
<1>7. TarjanInv'
  BY <1>2, <1>3, <1>5, TarjanUnchanged
<1> QED
  BY <1>1, <1>2, <1>3, <1>4, <1>5, <1>6, <1>7 DEF CallGraphInv

(* Nothing happens.                                                        *)
LEMMA StutterInv == ASSUME CallGraphInv, UNCHANGED callgraph PROVE CallGraphInv'
<1>1. /\ UNCHANGED <<mod, phase, cg_todo, cg_frames, is_recursive>>
      /\ UNCHANGED <<fn2cgn, callees, callers, calls_indirect, is_address_captured>>
      /\ UNCHANGED <<index, lowlink, on_stack, next_index, stack>>
  BY DEF callgraph, edges, vertices
<1>2. /\ \A f : Direct(f)' = Direct(f)
      /\ OnCycle' = OnCycle
  BY <1>1, SameModule
<1>3. CallGraphTypeOK' /\ is_recursive' \subseteq OnCycle'
  BY <1>1, <1>2 DEF CallGraphInv, CallGraphTypeOK
<1>4. ASSUME phase = "build" PROVE BuildInv'
  <2>1. Depth' = Depth /\ \A i : FrameFn(i)' = FrameFn(i)
    BY <1>1 DEF Depth, FrameFn
  <2>2. \A f, c : Pending(f, c)' <=> Pending(f, c)
    BY <1>1, <2>1 DEF Pending
  <2>3. EdgesInv' /\ LinksInv'
    BY <1>1, <1>2, <1>4, <2>1, <2>2 DEF CallGraphInv, BuildInv, EdgesInv, LinksInv
  <2> QED
    BY <1>1, <1>4, <2>3 DEF CallGraphInv, BuildInv
<1>5. ASSUME phase # "build" PROVE GraphBuilt' /\ TarjanInv'
  <2>1. GraphBuilt'
    BY <1>1, <1>2, <1>5 DEF CallGraphInv, GraphBuilt
  <2>2. TarjanInv'
    BY <1>1, <1>5, TarjanUnchanged DEF CallGraphInv
  <2> QED
    BY <2>1, <2>2
<1> QED
  BY <1>1, <1>3, <1>4, <1>5 DEF CallGraphInv

(* Every step.                                                             *)
LEMMA CallGraphNextInv == ASSUME CallGraphInv, [CallGraphNext]_callgraph PROVE CallGraphInv'
<1>1. ASSUME NEW f \in Fn, AnalyzeDecl(f) PROVE CallGraphInv'
  BY <1>1, AnalyzeDeclInv
<1>2. ASSUME NEW f \in Fn, VisitCallsite(f) PROVE CallGraphInv'
  BY <1>2, VisitCallsiteInv
<1>3. ASSUME NEW f \in Fn, VisitVertex(f) PROVE CallGraphInv'
  BY <1>3, VisitVertexInv
<1>4. ASSUME NEW f \in Fn, VisitSuccessor(f) PROVE CallGraphInv'
  BY <1>4, VisitSuccessorInv
<1>5. CASE VisitIndirectCall
  BY <1>5, VisitIndirectCallInv
<1>6. CASE LeaveFunction
  BY <1>6, LeaveFunctionInv
<1>7. CASE BuildDone
  BY <1>7, BuildDoneInv
<1>8. CASE LeaveVertex
  BY <1>8, LeaveVertexInv
<1>9. CASE TarjanDone
  BY <1>9, TarjanDoneInv
<1>10. CASE UNCHANGED callgraph
  BY <1>10, StutterInv
<1> QED
  BY <1>1, <1>2, <1>3, <1>4, <1>5, <1>6, <1>7, <1>8, <1>9, <1>10 DEF CallGraphNext

(* What the invariant says of a module, of its calls and of its recursion. *)
LEMMA CallGraphInvImplies == ASSUME CallGraphInv PROVE GraphComplete /\ RecursiveIffOnCycle
<1>1. GraphComplete
  BY DEF CallGraphInv, GraphComplete, GraphBuilt, Direct
<1>2. ASSUME phase = "done" PROVE is_recursive = OnCycle
  <2>1. TarjanInv /\ cg_todo = {} /\ cg_frames = <<>> /\ CallGraphTypeOK /\ is_recursive \subseteq OnCycle
    BY <1>2 DEF CallGraphInv
  <2>2. Depth = 0
    BY <2>1, NoFrames DEF CallGraphTypeOK
  <2>3. on_stack = {}
    BY <2>1, <2>2 DEF TarjanInv, FramesInv
  <2>4. Popped = Fn
    BY <2>1, <2>3 DEF TarjanInv, Popped
  <2>5. OnCycle \subseteq is_recursive
    BY <2>1, <2>4 DEF TarjanInv, PoppedInv, OnCycle
  <2> QED
    BY <2>1, <2>5
<1> QED
  BY <1>1, <1>2 DEF RecursiveIffOnCycle, CallGraphInv

(* shd_new_callgraph: once the walk is over the graph has every direct     *)
(* call of every function, seen from both ends, and the callers of         *)
(* pointers; is_recursive only ever has functions that can call            *)
(* themselves, directly or through others, and in the end has them all.    *)
THEOREM CallGraphIsExact == CallGraphSpec => [](GraphComplete /\ RecursiveIffOnCycle)
<1>1. CallGraphInit => CallGraphInv
  BY InitInv
<1>2. CallGraphInv /\ [CallGraphNext]_callgraph => CallGraphInv'
  BY CallGraphNextInv
<1>3. CallGraphInv => GraphComplete /\ RecursiveIffOnCycle
  BY CallGraphInvImplies
<1> QED
  BY <1>1, <1>2, <1>3, PTL DEF CallGraphSpec
=============================================================================
