----------------------- MODULE SubgroupSchedulerProof -----------------------
(***************************************************************************)
(* Proofs about SubgroupScheduler, for any number of lanes and functions   *)
(* and any bound on what the program does.                                 *)
(***************************************************************************)
EXTENDS SubgroupScheduler, SequenceTheorems, WellFoundedInduction, TLAPS

(* The node of the entry join point, at the root of the tree.              *)
Root == [threads |-> Lanes, depth |-> 0]

-----------------------------------------------------------------------------
(* Facts about the helpers.                                                *)

(* OpGroupNonUniformElect and BroadcastFirst: a non-empty set of lanes has *)
(* a first one.                                                            *)
LEMMA FirstLane ==
  ASSUME NEW S \in SUBSET Lanes, S # {}
  PROVE  First(S) \in S
<1>1. S \subseteq Nat
  BY NAssumption DEF Lanes
<1>2. IsWellFoundedOn(OpToRel(<, Nat), Nat)
  BY NatLessThanWellFounded
<1>3. PICK x \in S : \A y \in S : ~ (<<y, x>> \in OpToRel(<, Nat))
  BY <1>1, <1>2, WFMin
<1>4. \A y \in S : x <= y
  <2> TAKE y \in S
  <2>1. ~ (y < x)
    BY <1>1, <1>3 DEF OpToRel
  <2> QED
    BY <1>1, <2>1
<1> QED
  BY <1>3, <1>4 DEF First

(* Update changes the lanes it names and keeps the type.                   *)
LEMMA UpdateType ==
  ASSUME NEW T, NEW f \in [Lanes -> T], NEW S \in SUBSET Lanes, NEW new \in [S -> T]
  PROVE  /\ Update(f, new) \in [Lanes -> T]
         /\ \A t \in Lanes : t \in S => Update(f, new)[t] = new[t]
         /\ \A t \in Lanes : t \notin S => Update(f, new)[t] = f[t]
  BY DEF Update

LEMMA UpdateAt ==
  ASSUME NEW f, NEW S, NEW new, DOMAIN new = S, NEW t \in Lanes
  PROVE  Update(f, new)[t] = IF t \in S THEN new[t] ELSE f[t]
  BY DEF Update

LEMMA Singleton ==
  ASSUME NEW x
  PROVE  /\ Len(<<x>>) = 1 /\ <<x>> # <<>>
         /\ \A i \in 1 .. Len(<<x>>) : i = 1 /\ <<x>>[i] = x
  OBVIOUS

(* A node is its own parent: a lane may always run at its own node.        *)
LEMMA IsParentOfItself == ASSUME NEW v \in TreeNode PROVE IsParent(v, v)
  BY DEF IsParent, TreeNode

(* Pushing a leaf one level down keeps its mask.                           *)
LEMMA DeeperType ==
  ASSUME NEW v \in TreeNode
  PROVE  /\ Deeper(v) \in TreeNode
         /\ Deeper(v).threads = v.threads
         /\ Deeper(v).depth = v.depth + 1
<1>1. v = [threads |-> v.threads, depth |-> v.depth] /\ v.depth \in Nat
  BY DEF TreeNode
<1>2. Deeper(v) = [threads |-> v.threads, depth |-> v.depth + 1]
  BY <1>1 DEF Deeper
<1> QED
  BY <1>1, <1>2 DEF TreeNode

(* No node is below the root but the root itself, and every node is below  *)
(* it: a lane at the exit is never preferred to another lane.              *)
LEMMA RootIsTop ==
  ASSUME NEW v \in TreeNode
  PROVE  IsParent(v, Root) /\ (IsParent(Root, v) => v = Root)
<1>1. IsParent(v, Root)
  BY DEF IsParent, Root, TreeNode
<1>2. ASSUME IsParent(Root, v) PROVE v = Root
  <2>1. v.threads = Lanes /\ v.depth = 0
    BY <1>2 DEF IsParent, Root, TreeNode
  <2> QED
    BY <2>1 DEF Root, TreeNode
<1> QED
  BY <1>1, <1>2
-----------------------------------------------------------------------------
(* The inductive invariant.                                                *)

(* The diverged groups are parts of the lanes the dispatcher called.       *)
GroupsInv ==
  \A g \in groups : g # {} /\ \A h \in groups : g = h \/ g \cap h = {}

(* Lanes leave together, once nothing runs any more.                       *)
AliveInv == alive = Lanes \/ (alive = {} /\ groups = {} /\ scan = 0)

UnstartedInv ==
  ~started =>
    alive = Lanes /\ groups = {} /\ scan = 0 /\ \A t \in Lanes : conts[t] = <<>>

(* A lane waits at the root exactly when it waits for the exit.            *)
NodesInv ==
  started => \A t \in Lanes :
    /\ resume_at[t] = Exit => scheduler_vector[t] = Root
    /\ resume_at[t] # Exit => scheduler_vector[t].depth >= 1

(* The outermost join point is the entry's, the others are controls'.      *)
ContsInv ==
  \A t \in Lanes : \A i \in 1 .. Len(conts[t]) :
    /\ i = 1 => conts[t][i].destination = Exit /\ conts[t][i].node = Root
    /\ i # 1 => conts[t][i].destination # Exit /\ conts[t][i].node.depth >= 1

RunningInv == \A g \in groups : \A t \in g : resume_at[t] # Exit

(* Before the entry function's prelude has run.                            *)
Fresh ==
  /\ \A t \in Lanes : /\ conts[t] = <<>>
                      /\ resume_at[t] = next_fn /\ scheduler_vector[t] = active_branch
  /\ groups = {} \/ groups = {Lanes}
  /\ scan = 0 /\ next_fn # Exit

EnteredInv == started => Fresh \/ \A t \in Lanes : conts[t] = <<>> => resume_at[t] = Exit

(* The loop of find_schedulable_leaf: if the best lane so far is at the    *)
(* exit, so is every lane it has seen.                                     *)
ScanInv ==
  scan # 0 =>
    /\ reduced < scan
    /\ scheduler_vector[reduced] = Root =>
         \A t \in Lanes : t < scan => scheduler_vector[t] = Root

(* When the exit is next, every lane is at it.                             *)
NextInv ==
  started /\ scan = 0 /\ next_fn = Exit =>
    active_branch = Root /\ \A t \in Lanes : scheduler_vector[t] = Root

ControlInv ==
  /\ LaneOwnsBranch
  /\ GroupsInv /\ AliveInv /\ UnstartedInv /\ NodesInv /\ ContsInv
  /\ RunningInv /\ EnteredInv /\ ScanInv /\ NextInv
  /\ SchedulerNeverIdles

IInv == TypeOK /\ ControlInv

LEMMA InitInv == Init => IInv
<1> SUFFICES ASSUME Init PROVE IInv
  OBVIOUS
<1> USE DEF Init
<1>1. TypeOK
  <2>1. NoNode \in TreeNode /\ 0 \in Lanes
    BY NAssumption DEF TreeNode, NoNode, Lanes
  <2>2. <<>> \in Seq(JoinPoint)
    OBVIOUS
  <2>3. scan \in 0 .. N /\ work \in 0 .. MaxWork
    BY NAssumption, BoundAssumption
  <2>4. conts \in [Lanes -> Seq(JoinPoint)]
    BY <2>2
  <2>5. scheduler_vector \in [Lanes -> TreeNode] /\ active_branch \in TreeNode
    BY <2>1
  <2>6. resume_at \in [Lanes -> Fns \cup {Exit}] /\ stack_size \in [Lanes -> Nat]
    OBVIOUS
  <2>7. /\ scheduler_cursor \in Lanes /\ next_fn \in Fns \cup {Exit}
        /\ current_fn \in Fns \cup {Exit} /\ reduced \in Lanes
        /\ started \in BOOLEAN /\ alive \in SUBSET Lanes
        /\ groups \in SUBSET (SUBSET Lanes)
    <3>1. /\ scheduler_cursor = 0 /\ next_fn = Exit /\ current_fn = Exit /\ reduced = 0
          /\ started = FALSE /\ alive = Lanes /\ groups = {}
      OBVIOUS
    <3> QED
      BY ONLY <2>1, <3>1
  <2>8. yielded \in BOOLEAN
    OBVIOUS
  <2>9. iterations_left \in Nat \cup {Unlimited}
    BY LimitAssumption DEF Unlimited
  <2> QED
    BY ONLY <2>3, <2>4, <2>5, <2>6, <2>7, <2>8, <2>9 DEF TypeOK
<1>2. LaneOwnsBranch /\ UnstartedInv /\ NodesInv /\ EnteredInv /\ SchedulerNeverIdles
  BY DEF LaneOwnsBranch, UnstartedInv, NodesInv, EnteredInv, SchedulerNeverIdles, AtDispatcher
<1>3. GroupsInv /\ AliveInv /\ ContsInv /\ RunningInv /\ ScanInv /\ NextInv
  BY DEF GroupsInv, AliveInv, ContsInv, RunningInv, ScanInv, NextInv
<1> QED
  BY <1>1, <1>2, <1>3 DEF IInv, ControlInv

-----------------------------------------------------------------------------
(* Type correctness, action by action.                                     *)

LEMMA BranchType ==
  ASSUME NEW vec \in [Lanes -> TreeNode], NEW S \in SUBSET Lanes,
         NEW dest \in [S -> Fns], NEW t \in S
  PROVE  Branch(vec, S, dest, t) \in TreeNode
  BY DEF Branch, TreeNode

LEMMA ForkToType ==
  ASSUME TypeOK, NEW vec \in [Lanes -> TreeNode], NEW S \in SUBSET Lanes, S # {},
         NEW dest \in [S -> Fns], ForkTo(vec, S, dest)
  PROVE  /\ scheduler_vector' \in [Lanes -> TreeNode]
         /\ resume_at' \in [Lanes -> Fns \cup {Exit}]
         /\ next_fn' \in Fns \cup {Exit}
         /\ active_branch' \in TreeNode
<1>1. [t \in S |-> Branch(vec, S, dest, t)] \in [S -> TreeNode]
  BY BranchType
<1>2. scheduler_vector' \in [Lanes -> TreeNode]
  BY <1>1, UpdateType DEF ForkTo
<1>3. resume_at' \in [Lanes -> Fns \cup {Exit}]
  <2>1. dest \in [S -> Fns \cup {Exit}]
    OBVIOUS
  <2> QED
    BY <2>1, UpdateType DEF ForkTo, TypeOK
<1>4. First(S) \in S
  BY FirstLane
<1> QED
  BY <1>2, <1>3, <1>4, BranchType DEF ForkTo

LEMMA LaunchType == ASSUME TypeOK, Launch PROVE TypeOK'
<1>1. [t \in Lanes |-> [threads |-> Lanes, depth |-> 1]] \in [Lanes -> TreeNode]
  BY DEF TreeNode
<1>2. [t \in Lanes |-> Entry] \in [Lanes -> Fns] /\ Lanes # {}
  BY NAssumption DEF Fns, Lanes
<1> QED
  BY <1>1, <1>2, ForkToType DEF Launch, TypeOK, ForkTo, leaf, program

(* The count of the dispatcher's iterations stays what it is: nothing, or  *)
(* a number that is never below zero.                                      *)
LEMMA CountedType ==
  ASSUME iterations_left \in Nat \cup {Unlimited}, iterations_left # 0
  PROVE  /\ Counted \in Nat \cup {Unlimited}
         /\ Counted = Unlimited <=> iterations_left = Unlimited
  BY DEF Counted, Unlimited

LEMMA DispatchType ==
  ASSUME TypeOK, Dispatch \/ DispatchExit \/ DispatchBail PROVE TypeOK'
<1>1. iterations_left' \in Nat \cup {Unlimited}
  BY CountedType DEF TypeOK, Dispatch, DispatchExit, DispatchBail
<1>2. CASE Dispatch
  BY <1>1, <1>2 DEF TypeOK, Dispatch, ActiveBranchMask, sched, leaf, program
<1>3. CASE DispatchExit
  BY <1>1, <1>3 DEF TypeOK, DispatchExit, ActiveBranchMask, sched, leaf, program
<1>4. CASE DispatchBail
  BY <1>1, <1>4 DEF TypeOK, DispatchBail, sched, leaf, program
<1> QED
  BY <1>2, <1>3, <1>4

LEMMA FindSchedulableLeafType == ASSUME TypeOK, FindSchedulableLeaf PROVE TypeOK'
<1>1. CASE scan < N
  <2>1. scan \in Lanes /\ scan + 1 \in 0 .. N
    BY <1>1, NAssumption DEF TypeOK, Lanes, FindSchedulableLeaf
  <2>2. reduced' = Reduce2(reduced, scan) /\ scan' = scan + 1 /\ UNCHANGED sched
    BY <1>1, NAssumption DEF TypeOK, FindSchedulableLeaf
  <2>3. reduced' \in Lanes
    BY <2>1, <2>2 DEF TypeOK, Reduce2
  <2> QED
    BY <2>1, <2>2, <2>3 DEF TypeOK, FindSchedulableLeaf, sched, program
<1>2. CASE scan >= N
  <2>1. 0 \in Lanes /\ 0 \in 0 .. N
    BY NAssumption DEF Lanes
  <2>2. /\ next_fn' = resume_at[reduced] /\ active_branch' = scheduler_vector[reduced]
        /\ scan' = 0 /\ reduced' = 0
        /\ UNCHANGED <<scheduler_vector, resume_at, scheduler_cursor>>
    BY <1>2, NAssumption DEF TypeOK, FindSchedulableLeaf
  <2> QED
    BY <2>1, <2>2 DEF TypeOK, FindSchedulableLeaf, program
<1> QED
  BY <1>1, <1>2 DEF FindSchedulableLeaf

LEMMA GroupsType ==
  ASSUME TypeOK, Diverge \/ Reconverge PROVE TypeOK'
<1>1. ASSUME Diverge PROVE TypeOK'
  BY <1>1 DEF TypeOK, Diverge, sched, leaf, program
<1>2. ASSUME Reconverge PROVE TypeOK'
  BY <1>2 DEF TypeOK, Reconverge, sched, leaf, program
<1> QED
  BY <1>1, <1>2

LEMMA EntryJoinPointType == ASSUME TypeOK, EntryJoinPoint PROVE TypeOK'
<1>1. PICK g \in groups :
        /\ conts' = Update(conts, [t \in g |-> <<[node |-> [threads |-> g, depth |-> 0],
                                  destination |-> Exit, payload |-> 0]>>])
        /\ UNCHANGED <<sched, leaf, started, iterations_left, alive, current_fn, groups, stack_size, yielded, work>>
  BY DEF EntryJoinPoint
<1>2. [node |-> [threads |-> g, depth |-> 0], destination |-> Exit, payload |-> 0] \in JoinPoint
  BY DEF JoinPoint, TreeNode, TypeOK
<1>3. [t \in g |-> <<[node |-> [threads |-> g, depth |-> 0], destination |-> Exit,
                     payload |-> 0]>>] \in [g -> Seq(JoinPoint)]
  BY <1>2
<1>4. conts' \in [Lanes -> Seq(JoinPoint)]
  BY <1>1, <1>3, UpdateType DEF TypeOK
<1> QED
  BY <1>1, <1>4 DEF TypeOK, sched, leaf

LEMMA CreateControlPointType == ASSUME TypeOK, GroupsInv, CreateControlPoint PROVE TypeOK'
<1> DEFINE jp(g, fn, t) == [node |-> [threads |-> g,
                                      depth |-> scheduler_vector[First(g)].depth],
                            destination |-> fn, payload |-> stack_size[t]]
<1>1. PICK g \in groups, fn \in Tails :
        /\ work < MaxWork /\ work' = work + 1
        /\ conts' = Update(conts, [t \in g |-> Append(conts[t], jp(g, fn, t))])
        /\ scheduler_vector' = Update(scheduler_vector,
                                      [t \in g |-> Deeper(scheduler_vector[t])])
        /\ UNCHANGED <<resume_at, scheduler_cursor, next_fn, active_branch, leaf,
                       started, iterations_left, alive, current_fn, groups, stack_size, yielded>>
  BY DEF CreateControlPoint
<1>2. g \in SUBSET Lanes /\ First(g) \in Lanes
  <2>1. g \in SUBSET Lanes /\ g # {}
    BY DEF TypeOK, GroupsInv
  <2> QED
    BY <2>1, FirstLane
<1>3. \A t \in g : jp(g, fn, t) \in JoinPoint
  <2> TAKE t \in g
  <2>1. [threads |-> g, depth |-> scheduler_vector[First(g)].depth] \in TreeNode
    BY <1>2 DEF TypeOK, TreeNode
  <2>2. fn \in Fns \cup {Exit} /\ stack_size[t] \in Nat
    BY <1>2 DEF Fns, TypeOK
  <2> QED
    BY <2>1, <2>2 DEF JoinPoint
<1>4. conts' \in [Lanes -> Seq(JoinPoint)]
  <2>1. [t \in g |-> Append(conts[t], jp(g, fn, t))] \in [g -> Seq(JoinPoint)]
    <3> HIDE DEF jp
    <3> QED
      BY <1>2, <1>3 DEF TypeOK
  <2> QED
    BY <1>1, <1>2, <2>1, UpdateType DEF TypeOK
<1>5. scheduler_vector' \in [Lanes -> TreeNode]
  <2>1. [t \in g |-> Deeper(scheduler_vector[t])] \in [g -> TreeNode]
    BY <1>2, DeeperType DEF TypeOK
  <2> QED
    BY <1>1, <1>2, <2>1, UpdateType DEF TypeOK
<1>6. work' \in 0 .. MaxWork
  BY <1>1, BoundAssumption DEF TypeOK
<1> QED
  BY <1>1, <1>4, <1>5, <1>6 DEF TypeOK, leaf

LEMMA ForkType == ASSUME TypeOK, GroupsInv, Fork PROVE TypeOK'
<1>0. PICK g \in groups : \E dest \in [g -> Callees] :
        /\ work < MaxWork /\ work' = work + 1
        /\ ForkTo(scheduler_vector, g, dest)
        /\ stack_size' = Update(stack_size, [t \in g |-> stack_size[t] + 1])
        /\ groups' = groups \ {g}
        /\ UNCHANGED <<started, iterations_left, alive, current_fn, conts, yielded>>
  BY DEF Fork
<1>1. PICK dest \in [g -> Callees] :
        /\ work < MaxWork /\ work' = work + 1
        /\ ForkTo(scheduler_vector, g, dest)
        /\ stack_size' = Update(stack_size, [t \in g |-> stack_size[t] + 1])
        /\ groups' = groups \ {g}
        /\ UNCHANGED <<started, iterations_left, alive, current_fn, conts, yielded>>
  BY <1>0
<1>2. g \in SUBSET Lanes /\ g # {} /\ dest \in [g -> Fns]
  BY DEF TypeOK, GroupsInv, Fns
<1>3. stack_size' \in [Lanes -> Nat]
  <2>1. [t \in g |-> stack_size[t] + 1] \in [g -> Nat]
    BY <1>2 DEF TypeOK
  <2> QED
    BY <1>1, <1>2, <2>1, UpdateType DEF TypeOK
<1>4. work' \in 0 .. MaxWork
  BY <1>1, BoundAssumption DEF TypeOK
<1>5. scheduler_vector \in [Lanes -> TreeNode]
  BY DEF TypeOK
<1>6. UNCHANGED <<scheduler_cursor, scan, reduced>>
  BY <1>1 DEF ForkTo, leaf
<1>7. /\ scheduler_vector' \in [Lanes -> TreeNode]
      /\ resume_at' \in [Lanes -> Fns \cup {Exit}]
      /\ next_fn' \in Fns \cup {Exit}
      /\ active_branch' \in TreeNode
  BY <1>1, <1>2, <1>5, ForkToType
<1> QED
  BY <1>1, <1>3, <1>4, <1>6, <1>7 DEF TypeOK

LEMMA PrefixOfSequence ==
  ASSUME NEW s \in Seq(JoinPoint), NEW n \in 0 .. Len(s)
  PROVE  /\ SubSeq(s, 1, n) \in Seq(JoinPoint)
         /\ Len(SubSeq(s, 1, n)) = n
         /\ \A i \in 1 .. n : SubSeq(s, 1, n)[i] = s[i]
  OBVIOUS

(* The join point a lane joins, and what its join does to its state.       *)
LEMMA JoinedType ==
  ASSUME TypeOK, NEW t \in Lanes, NEW k \in 1 .. MaxFrames, k <= Len(conts[t])
  PROVE  /\ Len(conts[t]) - k + 1 \in 1 .. Len(conts[t])
         /\ conts[t][Len(conts[t]) - k + 1] \in JoinPoint
         /\ Popped(conts[t], k) \in Seq(JoinPoint)
         /\ Len(Popped(conts[t], k)) = Len(conts[t]) - k
         /\ \A i \in 1 .. Len(conts[t]) - k : Popped(conts[t], k)[i] = conts[t][i]
<1>1. conts[t] \in Seq(JoinPoint) /\ Len(conts[t]) \in Nat
  BY DEF TypeOK
<1>2. /\ Len(conts[t]) - k + 1 \in 1 .. Len(conts[t])
      /\ Len(conts[t]) - k \in 0 .. Len(conts[t])
  BY <1>1, BoundAssumption
<1>3. conts[t][Len(conts[t]) - k + 1] \in JoinPoint
  BY ONLY <1>1, <1>2
<1> QED
  BY ONLY <1>1, <1>2, <1>3, PrefixOfSequence DEF Popped

LEMMA JoinType == ASSUME TypeOK, GroupsInv, Join PROVE TypeOK'
<1> DEFINE jp(k, t) == conts[t][Len(conts[t]) - k + 1]
<1>1. PICK g \in groups, k \in 1 .. MaxFrames :
        /\ \A t \in g : k <= Len(conts[t])
        /\ conts' = Update(conts, [t \in g |-> Popped(conts[t], k)])
        /\ resume_at' = Update(resume_at, [t \in g |-> jp(k, t).destination])
        /\ scheduler_vector' = Update(scheduler_vector, [t \in g |-> jp(k, t).node])
        /\ stack_size' = Update(stack_size, [t \in g |-> jp(k, t).payload])
        /\ StartFindSchedulableLeaf
        /\ groups' = groups \ {g}
        /\ UNCHANGED <<scheduler_cursor, next_fn, active_branch,
                       started, iterations_left, alive, current_fn, yielded, work>>
  BY DEF Join
<1>2. g \in SUBSET Lanes
  BY DEF TypeOK
<1>3. \A t \in g : jp(k, t) \in JoinPoint /\ Popped(conts[t], k) \in Seq(JoinPoint)
  BY <1>1, <1>2, JoinedType
<1> HIDE DEF jp
<1>4. conts' \in [Lanes -> Seq(JoinPoint)]
  <2>1. [t \in g |-> Popped(conts[t], k)] \in [g -> Seq(JoinPoint)]
    BY <1>3
  <2> QED
    BY <1>1, <1>2, <2>1, UpdateType DEF TypeOK
<1>5. resume_at' \in [Lanes -> Fns \cup {Exit}]
  <2>1. [t \in g |-> jp(k, t).destination] \in [g -> Fns \cup {Exit}]
    BY <1>3 DEF JoinPoint
  <2> QED
    BY <1>1, <1>2, <2>1, UpdateType DEF TypeOK
<1>6. scheduler_vector' \in [Lanes -> TreeNode]
  <2>1. [t \in g |-> jp(k, t).node] \in [g -> TreeNode]
    BY <1>3 DEF JoinPoint
  <2> QED
    BY <1>1, <1>2, <2>1, UpdateType DEF TypeOK
<1>7. stack_size' \in [Lanes -> Nat]
  <2>1. [t \in g |-> jp(k, t).payload] \in [g -> Nat]
    BY <1>3 DEF JoinPoint
  <2> QED
    BY <1>1, <1>2, <2>1, UpdateType DEF TypeOK
<1>8. scan' \in 0 .. N /\ reduced' \in Lanes
  BY <1>1, NAssumption DEF StartFindSchedulableLeaf, Lanes
<1> QED
  BY <1>1, <1>4, <1>5, <1>6, <1>7, <1>8 DEF TypeOK

LEMMA YieldType == ASSUME TypeOK, Yield PROVE TypeOK'
<1>1. PICK g \in groups, fn \in Tails :
        /\ work < MaxWork /\ work' = work + 1
        /\ yielded' = TRUE
        /\ resume_at' = Update(resume_at, [t \in g |-> fn])
        /\ scheduler_cursor' = NextCursor
        /\ StartFindSchedulableLeaf
        /\ groups' = groups \ {g}
        /\ UNCHANGED <<scheduler_vector, next_fn, active_branch,
                       started, iterations_left, alive, current_fn, conts, stack_size>>
  BY DEF Yield
<1>2. resume_at' \in [Lanes -> Fns \cup {Exit}]
  <2>1. [t \in g |-> fn] \in [g -> Fns \cup {Exit}] /\ g \in SUBSET Lanes
    BY DEF Fns, TypeOK
  <2> QED
    BY <1>1, <2>1, UpdateType DEF TypeOK
<1>3. scheduler_cursor' \in Lanes
  BY <1>1, NAssumption DEF NextCursor, Lanes, TypeOK
<1>4. scan' \in 0 .. N /\ reduced' \in Lanes
  BY <1>1, NAssumption DEF StartFindSchedulableLeaf, Lanes
<1>5. work' \in 0 .. MaxWork
  BY <1>1, BoundAssumption DEF TypeOK
<1> QED
  BY <1>1, <1>2, <1>3, <1>4, <1>5 DEF TypeOK

LEMMA TypeStep == ASSUME IInv, [Next]_vars PROVE TypeOK'
<1>1. TypeOK /\ GroupsInv
  BY DEF IInv, ControlInv
<1>2. CASE Step
  BY <1>1, <1>2, LaunchType, DispatchType, FindSchedulableLeafType, GroupsType,
     EntryJoinPointType, CreateControlPointType, ForkType, JoinType, YieldType
  DEF Step
<1>3. CASE UNCHANGED vars
  BY <1>1, <1>3 DEF TypeOK, vars, sched, leaf, program
<1> QED
  BY <1>2, <1>3 DEF Next, Finished

-----------------------------------------------------------------------------
(* The rest of the invariant, action by action.                            *)

(* A group runs something else than the exit, at least one level deep.     *)
LEMMA BusyGroup ==
  ASSUME IInv, NEW g \in groups
  PROVE  /\ g \in SUBSET Lanes /\ First(g) \in g
         /\ started /\ alive = Lanes
         /\ \A t \in g : resume_at[t] # Exit /\ scheduler_vector[t].depth >= 1
         /\ scan = 0 => next_fn # Exit
<1>1. g \in SUBSET Lanes /\ g # {}
  BY DEF IInv, TypeOK, ControlInv, GroupsInv
<1>2. First(g) \in g
  BY <1>1, FirstLane
<1>3. started /\ alive = Lanes
  BY DEF IInv, ControlInv, UnstartedInv, AliveInv
<1>4. \A t \in g : resume_at[t] # Exit /\ scheduler_vector[t].depth >= 1
  BY <1>1, <1>3 DEF IInv, ControlInv, RunningInv, NodesInv
<1>5. ASSUME scan = 0, next_fn = Exit PROVE FALSE
  <2>1. scheduler_vector[First(g)] = Root
    BY <1>1, <1>2, <1>3, <1>5 DEF IInv, ControlInv, NextInv
  <2> QED
    BY <1>2, <1>4, <2>1 DEF Root
<1> QED
  BY <1>1, <1>2, <1>3, <1>4, <1>5

(* A group that holds a join point is past the prelude.                    *)
LEMMA BusyNotFresh ==
  ASSUME IInv, NEW g \in groups, \A t \in g : conts[t] # <<>>
  PROVE  ~ Fresh /\ \A t \in Lanes : conts[t] = <<>> => resume_at[t] = Exit
<1>1. First(g) \in Lanes /\ conts[First(g)] # <<>> /\ started
  BY BusyGroup
<1>2. ~ Fresh
  BY <1>1 DEF Fresh
<1> QED
  BY <1>1, <1>2 DEF IInv, ControlInv, EnteredInv

LEMMA LaunchInv == ASSUME IInv, TypeOK', Launch PROVE ControlInv'
<1> DEFINE top == [threads |-> Lanes, depth |-> 1]
           vec == [t \in Lanes |-> top]
           dest == [t \in Lanes |-> Entry]
<1>1. /\ groups = {} /\ scan = 0 /\ alive = Lanes /\ \A t \in Lanes : conts[t] = <<>>
      /\ 0 \in Lanes /\ First(Lanes) \in Lanes
  <2>1. 0 \in Lanes /\ ~ started
    BY NAssumption DEF Lanes, Launch
  <2>2. groups = {} /\ scan = 0 /\ \A t \in Lanes : conts[t] = <<>>
    BY <2>1 DEF IInv, ControlInv, UnstartedInv
  <2>3. alive = Lanes
    BY <2>1 DEF IInv, ControlInv, UnstartedInv
  <2>4. First(Lanes) \in Lanes
    BY <2>1, FirstLane
  <2> QED
    BY <2>1, <2>2, <2>3, <2>4
<1>2. \A t \in Lanes : Branch(vec, Lanes, dest, t) = top
  <2>1. First(Lanes) \in Lanes
    BY <1>1
  <2> QED
    BY <2>1 DEF Branch
<1>3. /\ started' /\ groups' = {} /\ scan' = 0 /\ alive' = Lanes /\ conts' = conts
      /\ \A t \in Lanes : scheduler_vector'[t] = top /\ resume_at'[t] = Entry
      /\ next_fn' = Entry /\ active_branch' = top
  <2>1. /\ started' /\ UNCHANGED <<alive, groups, conts, scan>>
        /\ ForkTo(vec, Lanes, dest)
    BY DEF Launch, ForkTo, leaf, program
  <2>2. First(Lanes) \in Lanes
    BY <1>1
  <2>3. /\ \A t \in Lanes : scheduler_vector'[t] = top /\ resume_at'[t] = Entry
        /\ next_fn' = Entry /\ active_branch' = top
    BY <1>2, <2>1, <2>2 DEF ForkTo, Update
  <2> QED
    BY <1>1, <2>1, <2>3
<1>4. Exit # Entry
  BY DEF Exit, Entry
<1>5. LaneOwnsBranch' /\ GroupsInv' /\ AliveInv' /\ UnstartedInv' /\ ContsInv' /\ RunningInv'
  BY <1>1, <1>3 DEF LaneOwnsBranch, GroupsInv, AliveInv, UnstartedInv, ContsInv, RunningInv
<1>6. NodesInv' /\ EnteredInv' /\ ScanInv' /\ NextInv'
  BY <1>1, <1>3, <1>4 DEF NodesInv, EnteredInv, Fresh, ScanInv, NextInv
<1>7. SchedulerNeverIdles'
  <2>1. 0 \in ActiveBranchMask'
    BY <1>1, <1>3 DEF ActiveBranchMask, IsParent
  <2> QED
    BY <2>1 DEF SchedulerNeverIdles
<1> QED
  BY <1>5, <1>6, <1>7 DEF ControlInv

LEMMA DispatchInv == ASSUME IInv, TypeOK', Dispatch PROVE ControlInv'
<1>1. /\ started /\ groups = {} /\ scan = 0 /\ next_fn # Exit
      /\ ActiveBranchMask # {} /\ groups' = {ActiveBranchMask}
      /\ UNCHANGED <<sched, leaf, started, alive, program>>
  BY DEF Dispatch, AtDispatcher
<1>2. alive = Lanes
  BY <1>1 DEF IInv, ControlInv, AliveInv, ActiveBranchMask
<1>3. LaneOwnsBranch' /\ AliveInv' /\ UnstartedInv' /\ NodesInv' /\ ContsInv' /\ ScanInv' /\ NextInv'
  BY <1>1, <1>2 DEF IInv, ControlInv, LaneOwnsBranch, AliveInv, UnstartedInv, NodesInv,
     ContsInv, ScanInv, NextInv, sched, leaf, program
<1>4. GroupsInv' /\ RunningInv'
  BY <1>1 DEF GroupsInv, RunningInv, ActiveBranchMask, sched
<1>5. SchedulerNeverIdles'
  BY <1>1 DEF SchedulerNeverIdles, AtDispatcher
<1>6. EnteredInv'
  <2>1. CASE Fresh
    <3>1. ActiveBranchMask = Lanes
      <4>1. \A t \in Lanes : IsParent(scheduler_vector[t], active_branch)
        <5> TAKE t \in Lanes
        <5>1. scheduler_vector[t] \in TreeNode /\ scheduler_vector[t] = active_branch
          BY <2>1 DEF Fresh, IInv, TypeOK
        <5>2. scheduler_vector[t].depth \in Nat
          BY <5>1 DEF TreeNode
        <5> QED
          BY <5>1, <5>2 DEF IsParent
      <4> QED
        BY <1>2, <2>1, <4>1 DEF Fresh, ActiveBranchMask
    <3> QED
      BY <1>1, <2>1, <3>1 DEF EnteredInv, Fresh, leaf, sched, program
  <2>2. CASE ~ Fresh
    BY <1>1, <2>2 DEF IInv, ControlInv, EnteredInv, sched, program
  <2> QED
    BY <2>1, <2>2
<1> QED
  BY <1>3, <1>4, <1>5, <1>6 DEF ControlInv
LEMMA DispatchExitInv ==
  ASSUME IInv, TypeOK', DispatchExit PROVE ControlInv' /\ alive' = {}
<1>1. /\ started /\ groups = {} /\ scan = 0 /\ next_fn = Exit
      /\ ActiveBranchMask # {} /\ alive' = alive \ ActiveBranchMask
      /\ UNCHANGED <<sched, leaf, started, groups, program>>
  BY DEF DispatchExit, AtDispatcher
<1>2. alive = Lanes
  BY <1>1 DEF IInv, ControlInv, AliveInv, ActiveBranchMask
<1>3. active_branch = Root /\ \A t \in Lanes : scheduler_vector[t] = Root
  BY <1>1 DEF IInv, ControlInv, NextInv
<1>4. \A t \in Lanes : resume_at[t] = Exit
  <2>1. ~ (Root.depth >= 1)
    BY DEF Root
  <2> QED
    BY <1>1, <1>3, <2>1 DEF IInv, ControlInv, NodesInv
<1>5. IsParent(Root, Root)
  BY DEF IsParent, Root
<1>6. alive' = {}
  BY <1>1, <1>2, <1>3, <1>4, <1>5 DEF ActiveBranchMask
<1>7. AliveInv' /\ SchedulerNeverIdles' /\ GroupsInv' /\ RunningInv' /\ UnstartedInv'
  BY <1>1, <1>6
  DEF AliveInv, SchedulerNeverIdles, GroupsInv, RunningInv, UnstartedInv, leaf
<1>8. LaneOwnsBranch' /\ NodesInv' /\ ContsInv' /\ EnteredInv' /\ ScanInv' /\ NextInv'
  BY <1>1 DEF IInv, ControlInv, LaneOwnsBranch, NodesInv, ContsInv, EnteredInv, Fresh,
     ScanInv, NextInv, sched, leaf, program
<1> QED
  BY <1>6, <1>7, <1>8 DEF ControlInv

(* All lanes bail out together.                                            *)
LEMMA DispatchBailInv ==
  ASSUME IInv, TypeOK', DispatchBail PROVE ControlInv'
<1>1. /\ started /\ groups = {} /\ scan = 0 /\ alive' = {}
      /\ UNCHANGED <<sched, leaf, started, groups, program>>
  BY DEF DispatchBail, AtDispatcher
<1>2. AliveInv' /\ SchedulerNeverIdles' /\ GroupsInv' /\ RunningInv' /\ UnstartedInv'
  BY <1>1 DEF AliveInv, SchedulerNeverIdles, GroupsInv, RunningInv, UnstartedInv, leaf
<1>3. LaneOwnsBranch' /\ NodesInv' /\ ContsInv' /\ EnteredInv' /\ ScanInv' /\ NextInv'
  BY <1>1 DEF IInv, ControlInv, LaneOwnsBranch, NodesInv, ContsInv, EnteredInv, Fresh,
     ScanInv, NextInv, sched, leaf, program
<1> QED
  BY <1>2, <1>3 DEF ControlInv

(* One comparison of the loop: it keeps a lane at the exit only when both  *)
(* are.                                                                    *)
LEMMA ReducedAtExit ==
  ASSUME TypeOK, NEW a \in Lanes, NEW b \in Lanes,
         scheduler_vector[Reduce2(a, b)] = Root
  PROVE  scheduler_vector[a] = Root /\ scheduler_vector[b] = Root
<1>1. scheduler_vector[a] \in TreeNode /\ scheduler_vector[b] \in TreeNode
  BY DEF TypeOK
<1>2. CASE Reduce2(a, b) = a
  <2>1. scheduler_vector[a] = Root
    BY <1>2
  <2>2. IsParent(scheduler_vector[b], scheduler_vector[a])
    BY <1>1, <2>1, RootIsTop
  <2>3. IsParent(scheduler_vector[a], scheduler_vector[b]) \/ a = b
    BY <1>2, <2>2 DEF Reduce2
  <2> QED
    BY <1>1, <2>1, <2>3, RootIsTop
<1>3. CASE Reduce2(a, b) = b /\ Reduce2(a, b) # a
  <2>1. scheduler_vector[b] = Root
    BY <1>3
  <2>2. IsParent(scheduler_vector[a], scheduler_vector[b])
    BY <1>1, <2>1, RootIsTop
  <2>3. Reduce2(a, b) = a
    BY <2>2 DEF Reduce2
  <2> QED
    BY <1>3, <2>3
<1> QED
  BY <1>2, <1>3 DEF Reduce2

LEMMA FindSchedulableLeafInv ==
  ASSUME IInv, TypeOK', FindSchedulableLeaf PROVE ControlInv'
<1>1. /\ scan # 0 /\ scan \in 0 .. N /\ N \in Nat /\ reduced \in Lanes
      /\ UNCHANGED <<scheduler_vector, resume_at, started, alive, groups, conts>>
  BY NAssumption DEF FindSchedulableLeaf, IInv, TypeOK, sched, program
<1>2. started /\ alive = Lanes /\ ~ Fresh
  BY <1>1 DEF IInv, ControlInv, UnstartedInv, AliveInv, Fresh
<1>3. \A t \in Lanes : conts[t] = <<>> => resume_at[t] = Exit
  BY <1>2 DEF IInv, ControlInv, EnteredInv
<1>4. /\ LaneOwnsBranch' /\ GroupsInv' /\ NodesInv' /\ ContsInv' /\ RunningInv'
  BY <1>1 DEF IInv, ControlInv, LaneOwnsBranch, GroupsInv, NodesInv, ContsInv, RunningInv
<1>5. AliveInv' /\ UnstartedInv' /\ EnteredInv'
  BY <1>1, <1>2, <1>3 DEF AliveInv, UnstartedInv, EnteredInv
<1>6. ScanInv' /\ NextInv' /\ SchedulerNeverIdles'
  <2>1. CASE scan < N
    <3>1. reduced' = Reduce2(reduced, scan) /\ scan' = scan + 1
      BY <1>1, <2>1 DEF FindSchedulableLeaf
    <3>2. scan \in Lanes /\ reduced < scan
      BY <1>1, <2>1 DEF IInv, ControlInv, ScanInv, Lanes
    <3>3. reduced' = reduced \/ reduced' = scan
      BY <3>1 DEF Reduce2
    <3>4. ASSUME scheduler_vector[reduced'] = Root, NEW t \in Lanes, t < scan + 1
          PROVE  scheduler_vector[t] = Root
      <4>1. scheduler_vector[reduced] = Root /\ scheduler_vector[scan] = Root
        BY <1>1, <3>1, <3>2, <3>4, ReducedAtExit DEF IInv
      <4>2. t < scan \/ t = scan
        BY <1>1, <3>4 DEF Lanes
      <4> QED
        BY <1>1, <4>1, <4>2 DEF IInv, ControlInv, ScanInv
    <3>5. reduced' < scan' /\ scan' # 0
      BY <1>1, <3>1, <3>2, <3>3 DEF Lanes
    <3> QED
      BY <1>1, <3>1, <3>4, <3>5 DEF ScanInv, NextInv, SchedulerNeverIdles, AtDispatcher
  <2>2. CASE scan = N
    <3>1. /\ next_fn' = resume_at[reduced] /\ active_branch' = scheduler_vector[reduced]
          /\ scan' = 0
      BY <1>1, <2>2 DEF FindSchedulableLeaf
    <3>2. NextInv'
      <4>1. SUFFICES ASSUME resume_at[reduced] = Exit
                     PROVE  \A t \in Lanes : scheduler_vector[t] = Root
        BY <1>1, <3>1 DEF NextInv
      <4>2. scheduler_vector[reduced] = Root
        BY <1>1, <1>2, <4>1 DEF IInv, ControlInv, NodesInv
      <4>3. \A t \in Lanes : t < scan
        BY <1>1, <2>2 DEF Lanes
      <4> QED
        BY <1>1, <4>2, <4>3 DEF IInv, ControlInv, ScanInv
    <3>3. SchedulerNeverIdles'
      <4>1. IsParent(scheduler_vector[reduced], scheduler_vector[reduced])
        BY <1>1, IsParentOfItself DEF IInv, TypeOK
      <4>2. reduced \in ActiveBranchMask'
        BY <1>1, <1>2, <3>1, <4>1 DEF ActiveBranchMask
      <4> QED
        BY <4>2 DEF SchedulerNeverIdles
    <3> QED
      BY <3>1, <3>2, <3>3 DEF ScanInv
  <2> QED
    BY <1>1, <2>1, <2>2
<1> QED
  BY <1>4, <1>5, <1>6 DEF ControlInv
(* Lanes that part or meet inside a function change nothing but the groups.*)
LEMMA RegroupInv ==
  ASSUME IInv, NEW g \in groups, NEW h \in groups', \A t \in g : conts[t] # <<>>,
         UNCHANGED <<sched, leaf, started, alive, program>>,
         GroupsInv', UNION groups' \subseteq UNION groups
  PROVE  ControlInv'
<1>1. started /\ alive = Lanes /\ \A t \in Lanes : conts[t] = <<>> => resume_at[t] = Exit
  BY BusyGroup, BusyNotFresh
<1>2. AliveInv' /\ UnstartedInv' /\ EnteredInv'
  BY <1>1 DEF AliveInv, UnstartedInv, EnteredInv, sched, program
<1>3. LaneOwnsBranch' /\ NodesInv' /\ ContsInv' /\ ScanInv' /\ NextInv'
  BY DEF IInv, ControlInv, LaneOwnsBranch, NodesInv, ContsInv, ScanInv, NextInv,
     sched, leaf, program
<1>4. RunningInv'
  <2>1. \A t \in UNION groups : resume_at[t] # Exit
    BY DEF IInv, ControlInv, RunningInv
  <2> QED
    BY <2>1 DEF RunningInv, sched
<1>5. SchedulerNeverIdles'
  BY DEF SchedulerNeverIdles, AtDispatcher
<1> QED
  BY <1>2, <1>3, <1>4, <1>5 DEF ControlInv

LEMMA DivergeInv == ASSUME IInv, TypeOK', Diverge PROVE ControlInv'
<1>0. PICK g \in groups : \E S \in SUBSET g :
        /\ First(g) \in S /\ S # g
        /\ \A t \in g : conts[t] # <<>>
        /\ groups' = (groups \ {g}) \cup {S, g \ S}
        /\ UNCHANGED <<sched, leaf, started, alive, program>>
  BY DEF Diverge
<1>1. PICK S \in SUBSET g :
        /\ First(g) \in S /\ S # g
        /\ \A t \in g : conts[t] # <<>>
        /\ groups' = (groups \ {g}) \cup {S, g \ S}
        /\ UNCHANGED <<sched, leaf, started, alive, program>>
  BY <1>0
<1>2. GroupsInv
  BY DEF IInv, ControlInv
<1>3. S # {} /\ g \ S # {}
  BY <1>1
<1>4. \A h \in groups \ {g} : h \cap g = {}
  BY <1>2 DEF GroupsInv
<1>5. GroupsInv'
  <2>1. SUFFICES ASSUME NEW a \in groups', NEW b \in groups'
                 PROVE  a # {} /\ (a = b \/ a \cap b = {})
    BY DEF GroupsInv
  <2>2. \A c \in groups' : c \in groups \ {g} \/ c = S \/ c = g \ S
    BY <1>1
  <2>3. a # {}
    BY <1>2, <1>3, <2>2 DEF GroupsInv
  <2>4. CASE a \in groups \ {g}
    BY <1>2, <1>4, <2>2, <2>3, <2>4 DEF GroupsInv
  <2>5. CASE b \in groups \ {g}
    BY <1>2, <1>4, <2>2, <2>3, <2>5 DEF GroupsInv
  <2> QED
    BY <2>2, <2>3, <2>4, <2>5
<1>6. S \in groups' /\ UNION groups' \subseteq UNION groups
  BY <1>1
<1> QED
  BY <1>1, <1>5, <1>6, RegroupInv

LEMMA ReconvergeInv == ASSUME IInv, TypeOK', Reconverge PROVE ControlInv'
<1>1. PICK g \in groups, h \in groups :
        /\ g # h
        /\ \A t \in g, u \in h : conts[t] = conts[u]
        /\ groups' = (groups \ {g, h}) \cup {g \cup h}
        /\ UNCHANGED <<sched, leaf, started, alive, program>>
  BY DEF Reconverge
<1>2. GroupsInv
  BY DEF IInv, ControlInv
<1>3. /\ g # {} /\ h # {}
      /\ \A i \in groups \ {g, h} : i \cap (g \cup h) = {}
  BY <1>2 DEF GroupsInv
<1>4. GroupsInv'
  BY <1>1, <1>2, <1>3 DEF GroupsInv
<1>5. g \cup h \in groups' /\ UNION groups' \subseteq UNION groups
  BY <1>1
<1>6. \A t \in g : conts[t] # <<>>
  <2>1. started /\ ~ Fresh
    BY <1>1, BusyGroup DEF Fresh
  <2>2. g \in SUBSET Lanes /\ \A t \in g : resume_at[t] # Exit
    BY BusyGroup
  <2> QED
    BY <2>1, <2>2 DEF IInv, ControlInv, EnteredInv
<1> QED
  BY <1>1, <1>4, <1>5, <1>6, RegroupInv

(* Only the first lanes to run, all of them, find no join point: the mask  *)
(* of the entry join point is the subgroup.                                *)
LEMMA EntryJoinPointInv == ASSUME IInv, TypeOK', EntryJoinPoint PROVE ControlInv'
<1> DEFINE jp(g) == [node |-> [threads |-> g, depth |-> 0],
                     destination |-> Exit, payload |-> 0]
<1>1. PICK g \in groups :
        /\ \A t \in g : conts[t] = <<>>
        /\ conts' = Update(conts, [t \in g |-> <<jp(g)>>])
        /\ UNCHANGED <<sched, leaf, started, alive, current_fn, groups, stack_size, yielded, work>>
  BY DEF EntryJoinPoint
<1>2. g = Lanes /\ started
  <2>1. First(g) \in g /\ g \in SUBSET Lanes /\ started /\ resume_at[First(g)] # Exit
    BY BusyGroup
  <2>2. conts[First(g)] = <<>>
    BY <1>1, <2>1
  <2>3. Fresh
    BY <2>1, <2>2 DEF IInv, ControlInv, EnteredInv
  <2> QED
    BY <2>1, <2>3 DEF Fresh
<1>3. /\ jp(g).node = Root /\ jp(g).destination = Exit
      /\ \A t \in Lanes : t \in jp(g).node.threads
  BY <1>2 DEF Root
<1> HIDE DEF jp
<1>4. \A t \in Lanes : conts'[t] = <<jp(g)>>
  <2> DEFINE new == [t \in g |-> <<jp(g)>>]
  <2>1. conts' = Update(conts, new) /\ DOMAIN new = g
    BY <1>1
  <2>2. \A t \in Lanes : new[t] = <<jp(g)>>
    BY <1>2
  <2> HIDE DEF new
  <2> QED
    BY ONLY <1>2, <2>1, <2>2, UpdateAt
<1>5. \A t \in Lanes : /\ Len(conts'[t]) = 1 /\ conts'[t] # <<>>
                       /\ \A i \in 1 .. Len(conts'[t]) : i = 1 /\ conts'[t][i] = jp(g)
  BY ONLY <1>4, Singleton
<1>6. LaneOwnsBranch' /\ ContsInv' /\ EnteredInv' /\ UnstartedInv'
  <2>1. \A t \in Lanes : t \in scheduler_vector'[t].threads
    BY <1>1, <1>2 DEF IInv, ControlInv, LaneOwnsBranch, sched
  <2> QED
    BY <1>1, <1>2, <1>3, <1>5, <2>1
    DEF LaneOwnsBranch, ContsInv, EnteredInv, UnstartedInv
<1>7. /\ GroupsInv' /\ AliveInv' /\ NodesInv' /\ RunningInv' /\ ScanInv' /\ NextInv'
      /\ SchedulerNeverIdles'
  BY <1>1 DEF IInv, ControlInv, GroupsInv, AliveInv, NodesInv, RunningInv, ScanInv, NextInv,
     SchedulerNeverIdles, AtDispatcher, sched, leaf
<1> QED
  BY <1>6, <1>7 DEF ControlInv
LEMMA CreateControlPointInv ==
  ASSUME IInv, TypeOK', CreateControlPoint PROVE ControlInv'
<1> DEFINE jp(g, fn, t) == [node |-> [threads |-> g,
                                      depth |-> scheduler_vector[First(g)].depth],
                            destination |-> fn, payload |-> stack_size[t]]
<1>1. PICK g \in groups, fn \in Tails :
        /\ scan = 0
        /\ \A t \in g : Len(conts[t]) \in 1 .. MaxFrames - 1
        /\ conts' = Update(conts, [t \in g |-> Append(conts[t], jp(g, fn, t))])
        /\ scheduler_vector' = Update(scheduler_vector,
                                      [t \in g |-> Deeper(scheduler_vector[t])])
        /\ UNCHANGED <<resume_at, scheduler_cursor, next_fn, active_branch, leaf,
                       started, alive, current_fn, groups, stack_size, yielded>>
  BY DEF CreateControlPoint
<1>2. /\ g \in SUBSET Lanes /\ First(g) \in g /\ started /\ alive = Lanes
      /\ next_fn # Exit
      /\ \A t \in g : resume_at[t] # Exit /\ scheduler_vector[t].depth >= 1
  BY <1>1, BusyGroup
<1>3. \A t \in Lanes : scheduler_vector[t] \in TreeNode /\ conts[t] \in Seq(JoinPoint)
  BY DEF IInv, TypeOK
<1>4. \A t \in Lanes : conts[t] = <<>> => resume_at[t] = Exit
  <2>1. \A t \in g : conts[t] # <<>>
    BY <1>1
  <2> QED
    BY <2>1, BusyNotFresh
<1>5. \A t \in g : /\ jp(g, fn, t).node.threads = g
                   /\ jp(g, fn, t).node.depth >= 1
                   /\ jp(g, fn, t).destination # Exit
  BY <1>2, FnAssumption
<1> HIDE DEF jp
<1>6. \A t \in Lanes :
        conts'[t] = IF t \in g THEN Append(conts[t], jp(g, fn, t)) ELSE conts[t]
  <2> DEFINE new == [t \in g |-> Append(conts[t], jp(g, fn, t))]
  <2>1. conts' = Update(conts, new) /\ DOMAIN new = g
    BY <1>1
  <2>2. \A t \in g : new[t] = Append(conts[t], jp(g, fn, t))
    OBVIOUS
  <2> HIDE DEF new
  <2> QED
    <3> TAKE t \in Lanes
    <3>1. conts'[t] = IF t \in g THEN new[t] ELSE conts[t]
      BY ONLY <2>1, UpdateAt
    <3> QED
      BY <2>2, <3>1
<1>7. \A t \in Lanes :
        scheduler_vector'[t] = IF t \in g THEN Deeper(scheduler_vector[t])
                               ELSE scheduler_vector[t]
  BY ONLY <1>1, UpdateAt
<1>8. \A t \in Lanes :
        /\ scheduler_vector'[t].threads = scheduler_vector[t].threads
        /\ t \in g => scheduler_vector'[t].depth >= 1
        /\ t \notin g => scheduler_vector'[t] = scheduler_vector[t]
  BY <1>2, <1>3, <1>7, DeeperType DEF TreeNode
<1>9. \A t \in Lanes : \A i \in 1 .. Len(conts'[t]) :
        \/ i \in 1 .. Len(conts[t]) /\ conts'[t][i] = conts[t][i]
        \/ t \in g /\ i # 1 /\ conts'[t][i] = jp(g, fn, t)
  <2> TAKE t \in Lanes
  <2>1. CASE t \notin g
    BY <1>6, <2>1
  <2>2. CASE t \in g
    <3>1. conts'[t] = Append(conts[t], jp(g, fn, t)) /\ conts[t] \in Seq(JoinPoint)
      BY <1>3, <1>6, <2>2
    <3>2. Len(conts[t]) \in Nat /\ Len(conts[t]) >= 1
      BY <1>1, <2>2, BoundAssumption
    <3> QED
      BY ONLY <2>2, <3>1, <3>2
  <2> QED
    BY <2>1, <2>2
<1>10. LaneOwnsBranch' /\ ContsInv'
  <2>1. LaneOwnsBranch'
    BY <1>2, <1>5, <1>8, <1>9 DEF IInv, ControlInv, LaneOwnsBranch
  <2>2. ContsInv'
    BY <1>5, <1>9 DEF IInv, ControlInv, ContsInv
  <2> QED
    BY <2>1, <2>2
<1>11. NodesInv' /\ RunningInv' /\ GroupsInv' /\ AliveInv'
  BY <1>1, <1>2, <1>8 DEF IInv, ControlInv, NodesInv, RunningInv, GroupsInv, AliveInv
<1>12. EnteredInv'
  <2>1. \A t \in g : resume_at'[t] # Exit /\ Len(conts'[t]) # 0 /\ conts'[t] # <<>>
    <3> TAKE t \in g
    <3>1. t \in Lanes /\ conts[t] \in Seq(JoinPoint) /\ resume_at'[t] # Exit
      BY <1>1, <1>2, <1>3
    <3>2. conts'[t] = Append(conts[t], jp(g, fn, t))
      BY <1>6, <3>1
    <3> QED
      BY ONLY <3>1, <3>2
  <2>2. \A t \in Lanes : t \notin g => conts'[t] = conts[t] /\ resume_at'[t] = resume_at[t]
    BY <1>1, <1>6
  <2> QED
    BY <1>4, <2>1, <2>2 DEF EnteredInv
<1>13. UnstartedInv' /\ ScanInv' /\ NextInv' /\ SchedulerNeverIdles'
  BY <1>1, <1>2
  DEF UnstartedInv, ScanInv, NextInv, SchedulerNeverIdles, AtDispatcher, leaf
<1> QED
  BY <1>10, <1>11, <1>12, <1>13 DEF ControlInv

(* The other groups are untouched when one group ends its turn.            *)
LEMMA OtherGroups ==
  ASSUME IInv, NEW g \in groups, groups' = groups \ {g},
         \A t \in Lanes : t \notin g => resume_at'[t] = resume_at[t]
  PROVE  GroupsInv' /\ RunningInv'
<1>1. \A h \in groups \ {g} : h \in SUBSET Lanes /\ h \cap g = {}
  BY DEF IInv, TypeOK, ControlInv, GroupsInv
<1>2. GroupsInv'
  BY DEF IInv, ControlInv, GroupsInv
<1>3. RunningInv'
  BY <1>1 DEF IInv, ControlInv, RunningInv
<1> QED
  BY <1>2, <1>3

LEMMA ForkInv == ASSUME IInv, TypeOK', Fork PROVE ControlInv'
<1>1. PICK g \in groups : \E dest \in [g -> Callees] :
        /\ scan = 0 /\ \A t \in g : conts[t] # <<>>
        /\ ForkTo(scheduler_vector, g, dest)
        /\ groups' = groups \ {g}
        /\ UNCHANGED <<started, alive, current_fn, conts, yielded>>
  BY DEF Fork
<1>2. PICK dest \in [g -> Callees] :
        /\ scan = 0 /\ \A t \in g : conts[t] # <<>>
        /\ ForkTo(scheduler_vector, g, dest)
        /\ groups' = groups \ {g}
        /\ UNCHANGED <<started, alive, current_fn, conts, yielded>>
  BY <1>1
<1>3. /\ g \in SUBSET Lanes /\ First(g) \in g /\ started /\ alive = Lanes
      /\ \A t \in g : resume_at[t] # Exit /\ scheduler_vector[t].depth >= 1
  BY BusyGroup
<1>4. \A t \in Lanes : conts[t] = <<>> => resume_at[t] = Exit
  BY <1>2, BusyNotFresh
<1>5. \A t \in Lanes : scheduler_vector[t] \in TreeNode
  BY DEF IInv, TypeOK
<1>6. \A t \in g : dest[t] # Exit /\ dest[t] \in Fns
  BY FnAssumption DEF Fns
<1>7. \A t \in g : LET b == Branch(scheduler_vector, g, dest, t)
                   IN  b \in TreeNode /\ t \in b.threads /\ b.depth >= 1
  BY <1>3, <1>5 DEF Branch, TreeNode
<1>8. /\ \A t \in Lanes :
           /\ scheduler_vector'[t] = IF t \in g THEN Branch(scheduler_vector, g, dest, t)
                                     ELSE scheduler_vector[t]
           /\ resume_at'[t] = IF t \in g THEN dest[t] ELSE resume_at[t]
      /\ next_fn' = dest[First(g)]
      /\ active_branch' = Branch(scheduler_vector, g, dest, First(g))
      /\ UNCHANGED leaf
  BY ONLY <1>2, UpdateAt DEF ForkTo
<1>9. GroupsInv' /\ RunningInv'
  BY <1>2, <1>8, OtherGroups
<1>10. LaneOwnsBranch'
  BY <1>2, <1>3, <1>7, <1>8 DEF IInv, ControlInv, LaneOwnsBranch
<1>11. NodesInv'
  BY <1>3, <1>6, <1>7, <1>8 DEF IInv, ControlInv, NodesInv
<1>12. EnteredInv'
  BY <1>2, <1>4, <1>8 DEF EnteredInv
<1>13. AliveInv' /\ UnstartedInv' /\ ScanInv' /\ NextInv' /\ ContsInv'
  BY <1>2, <1>3, <1>6, <1>8
  DEF IInv, ControlInv, AliveInv, UnstartedInv, ScanInv, NextInv, ContsInv, leaf
<1>14. SchedulerNeverIdles'
  <2>1. /\ First(g) \in alive' /\ resume_at'[First(g)] = next_fn'
        /\ scheduler_vector'[First(g)] = active_branch' /\ active_branch' \in TreeNode
    BY <1>2, <1>3, <1>7, <1>8
  <2>2. First(g) \in ActiveBranchMask'
    BY <2>1, IsParentOfItself DEF ActiveBranchMask
  <2> QED
    BY <2>2 DEF SchedulerNeverIdles
<1> QED
  BY <1>9, <1>10, <1>11, <1>12, <1>13, <1>14 DEF ControlInv
LEMMA JoinInv == ASSUME IInv, TypeOK', Join PROVE ControlInv'
<1> DEFINE jp(k, t) == conts[t][Len(conts[t]) - k + 1]
<1>1. PICK g \in groups, k \in 1 .. MaxFrames :
        /\ \A t \in g : k <= Len(conts[t])
        /\ conts' = Update(conts, [t \in g |-> Popped(conts[t], k)])
        /\ resume_at' = Update(resume_at, [t \in g |-> jp(k, t).destination])
        /\ scheduler_vector' = Update(scheduler_vector, [t \in g |-> jp(k, t).node])
        /\ StartFindSchedulableLeaf
        /\ groups' = groups \ {g}
        /\ UNCHANGED <<scheduler_cursor, next_fn, active_branch,
                       started, alive, current_fn, yielded, work>>
  BY DEF Join
<1>2. /\ g \in SUBSET Lanes /\ First(g) \in g /\ started /\ alive = Lanes
      /\ \A t \in g : resume_at[t] # Exit /\ scheduler_vector[t].depth >= 1
  BY BusyGroup
<1>3. \A t \in Lanes : conts[t] = <<>> => resume_at[t] = Exit
  <2>1. \A t \in g : conts[t] # <<>>
    BY <1>1, BoundAssumption
  <2> QED
    BY <2>1, BusyNotFresh
<1>4. \A t \in g :
        /\ Len(conts[t]) \in Nat /\ Len(conts[t]) - k + 1 \in 1 .. Len(conts[t])
        /\ Popped(conts[t], k) \in Seq(JoinPoint)
        /\ Len(Popped(conts[t], k)) = Len(conts[t]) - k
        /\ \A i \in 1 .. Len(conts[t]) - k : Popped(conts[t], k)[i] = conts[t][i]
  <2> TAKE t \in g
  <2>1. t \in Lanes /\ k <= Len(conts[t]) /\ TypeOK
    BY <1>1, <1>2 DEF IInv
  <2>2. Len(conts[t]) \in Nat
    BY <2>1 DEF TypeOK
  <2> QED
    BY <2>1, <2>2, JoinedType
<1>5. \A t \in g :
        /\ t \in jp(k, t).node.threads
        /\ Len(conts[t]) = k => jp(k, t).destination = Exit /\ jp(k, t).node = Root
        /\ Len(conts[t]) # k => jp(k, t).destination # Exit /\ jp(k, t).node.depth >= 1
  <2> TAKE t \in g
  <2>1. /\ Len(conts[t]) - k + 1 \in 1 .. Len(conts[t])
        /\ Len(conts[t]) - k + 1 = 1 <=> Len(conts[t]) = k
    <3>1. Len(conts[t]) \in Nat /\ Len(conts[t]) - k + 1 \in 1 .. Len(conts[t])
      BY ONLY <1>4
    <3>2. k \in Int
      BY ONLY BoundAssumption
    <3>3. conts[t] \in Seq(JoinPoint)
      BY <1>2 DEF IInv, TypeOK
    <3> QED
      BY ONLY <3>1, <3>2, <3>3
  <2> QED
    BY <1>2, <2>1 DEF IInv, ControlInv, LaneOwnsBranch, ContsInv
<1> HIDE DEF jp
<1>6. \A t \in Lanes :
        /\ conts'[t] = IF t \in g THEN Popped(conts[t], k) ELSE conts[t]
        /\ resume_at'[t] = IF t \in g THEN jp(k, t).destination ELSE resume_at[t]
        /\ scheduler_vector'[t] = IF t \in g THEN jp(k, t).node ELSE scheduler_vector[t]
  BY ONLY <1>1, UpdateAt
<1>7. GroupsInv' /\ RunningInv'
  BY <1>1, <1>6, OtherGroups
<1>8. \A t \in Lanes : \A i \in 1 .. Len(conts'[t]) :
        i \in 1 .. Len(conts[t]) /\ conts'[t][i] = conts[t][i]
  <2> TAKE t \in Lanes
  <2>1. CASE t \in g
    BY <1>4, <1>6, <2>1
  <2>2. CASE t \notin g
    BY <1>6, <2>2
  <2> QED
    BY <2>1, <2>2
<1>9. LaneOwnsBranch' /\ ContsInv'
  <2>1. LaneOwnsBranch'
    BY <1>2, <1>5, <1>6, <1>8 DEF IInv, ControlInv, LaneOwnsBranch
  <2>2. ContsInv'
    BY <1>8 DEF IInv, ControlInv, ContsInv
  <2> QED
    BY <2>1, <2>2
<1>10. NodesInv'
  BY <1>2, <1>5, <1>6 DEF IInv, ControlInv, NodesInv
<1>11. EnteredInv'
  <2>1. \A t \in g : conts'[t] = <<>> => resume_at'[t] = Exit
    <3> TAKE t \in g
    <3>1. conts'[t] = <<>> => Len(conts[t]) = k
      <4>1. /\ t \in Lanes /\ Len(conts[t]) \in Nat
            /\ Len(Popped(conts[t], k)) = Len(conts[t]) - k
        BY ONLY <1>2, <1>4
      <4>2. Len(conts'[t]) = Len(conts[t]) - k
        BY ONLY <1>6, <4>1
      <4>3. k \in Int /\ Len(<<>>) = 0
        BY ONLY BoundAssumption
      <4> QED
        BY ONLY <4>1, <4>2, <4>3
    <3> QED
      BY <1>2, <1>5, <1>6, <3>1
  <2> QED
    BY <1>3, <1>6, <2>1 DEF EnteredInv
<1>12. ScanInv'
  <2>1. scan' = 1 /\ reduced' = 0
    BY <1>1 DEF StartFindSchedulableLeaf
  <2>2. \A t \in Lanes : t < 1 => t = 0
    BY NAssumption DEF Lanes
  <2> QED
    BY <2>1, <2>2 DEF ScanInv
<1>13. AliveInv' /\ UnstartedInv' /\ NextInv' /\ SchedulerNeverIdles'
  BY <1>1, <1>2
  DEF AliveInv, UnstartedInv, NextInv, SchedulerNeverIdles, AtDispatcher,
      StartFindSchedulableLeaf
<1> QED
  BY <1>7, <1>9, <1>10, <1>11, <1>12, <1>13 DEF ControlInv

LEMMA YieldInv == ASSUME IInv, TypeOK', Yield PROVE ControlInv'
<1>1. PICK g \in groups, fn \in Tails :
        /\ \A t \in g : conts[t] # <<>>
        /\ resume_at' = Update(resume_at, [t \in g |-> fn])
        /\ StartFindSchedulableLeaf
        /\ groups' = groups \ {g}
        /\ UNCHANGED <<scheduler_vector, next_fn, active_branch,
                       started, alive, current_fn, conts, stack_size>>
  BY DEF Yield
<1>2. /\ g \in SUBSET Lanes /\ started /\ alive = Lanes
      /\ \A t \in g : scheduler_vector[t].depth >= 1
  BY BusyGroup
<1>3. \A t \in Lanes : conts[t] = <<>> => resume_at[t] = Exit
  BY <1>1, BusyNotFresh
<1>4. \A t \in Lanes : resume_at'[t] = IF t \in g THEN fn ELSE resume_at[t]
  BY ONLY <1>1, UpdateAt
<1>5. fn # Exit
  BY FnAssumption
<1>6. GroupsInv' /\ RunningInv'
  BY <1>1, <1>4, OtherGroups
<1>7. LaneOwnsBranch' /\ ContsInv' /\ NodesInv'
  BY <1>1, <1>2, <1>4, <1>5 DEF IInv, ControlInv, LaneOwnsBranch, ContsInv, NodesInv
<1>8. EnteredInv'
  BY <1>1, <1>3, <1>4 DEF EnteredInv
<1>9. ScanInv'
  <2>1. scan' = 1 /\ reduced' = 0
    BY <1>1 DEF StartFindSchedulableLeaf
  <2>2. \A t \in Lanes : t < 1 => t = 0
    BY NAssumption DEF Lanes
  <2> QED
    BY <2>1, <2>2 DEF ScanInv
<1>10. AliveInv' /\ UnstartedInv' /\ NextInv' /\ SchedulerNeverIdles'
  BY <1>1, <1>2
  DEF AliveInv, UnstartedInv, NextInv, SchedulerNeverIdles, AtDispatcher,
      StartFindSchedulableLeaf
<1> QED
  BY <1>6, <1>7, <1>8, <1>9, <1>10 DEF ControlInv

-----------------------------------------------------------------------------
(* Nothing changes.                                                        *)
LEMMA StutterInv == ASSUME IInv, UNCHANGED vars PROVE ControlInv'
<1> USE DEF IInv, ControlInv, vars, sched, leaf, program
<1>1. LaneOwnsBranch' /\ GroupsInv' /\ AliveInv' /\ UnstartedInv' /\ NodesInv'
  BY DEF LaneOwnsBranch, GroupsInv, AliveInv, UnstartedInv, NodesInv
<1>2. ContsInv' /\ RunningInv' /\ EnteredInv' /\ ScanInv' /\ NextInv'
  BY DEF ContsInv, RunningInv, EnteredInv, Fresh, ScanInv, NextInv
<1>3. SchedulerNeverIdles'
  BY DEF SchedulerNeverIdles, AtDispatcher, ActiveBranchMask
<1> QED
  BY <1>1, <1>2, <1>3

LEMMA InvStep == ASSUME IInv, [Next]_vars PROVE IInv'
<1>1. TypeOK'
  BY TypeStep
<1>2. CASE Step
  BY <1>1, <1>2, LaunchInv, DispatchInv, DispatchExitInv, DispatchBailInv,
     FindSchedulableLeafInv,
     DivergeInv, ReconvergeInv, EntryJoinPointInv, CreateControlPointInv, ForkInv,
     JoinInv, YieldInv
  DEF Step, IInv
<1>3. CASE UNCHANGED vars
  BY <1>1, <1>3, StutterInv DEF IInv
<1> QED
  BY <1>2, <1>3 DEF Next, Finished

(* The invariant holds of every execution, with any number of lanes.       *)
THEOREM Invariance == Spec => []IInv
<1>1. Init => IInv
  BY InitInv
<1>2. IInv /\ [Next]_vars => IInv'
  BY InvStep
<1> QED
  BY <1>1, <1>2, PTL DEF Spec

(* The scheduler's globals keep their types: masks are sets of lanes of    *)
(* the subgroup, depths never drop below the root's.                       *)
THEOREM TypeCorrect == Spec => []TypeOK
<1>1. IInv => TypeOK
  BY DEF IInv
<1> QED
  BY <1>1, Invariance, PTL

(* Every lane is in the mask of its tree node and of its join tokens, so   *)
(* builtin_get_active_branch can select it (IsParent, scheduler.slim).     *)
THEOREM LanesOwnTheirBranches == Spec => []LaneOwnsBranch
<1>1. IInv => LaneOwnsBranch
  BY DEF IInv, ControlInv
<1> QED
  BY <1>1, Invariance, PTL

(* builtin_find_schedulable_leaf, builtin_fork and the lifted entry point  *)
(* always leave the dispatcher with a lane to run.                         *)
THEOREM DispatcherNeverIdles == Spec => []SchedulerNeverIdles
<1>1. IInv => SchedulerNeverIdles
  BY DEF IInv, ControlInv
<1> QED
  BY <1>1, Invariance, PTL

(* The zero case of top_dispatcher is taken by all the lanes at once, and  *)
(* so is the exit at max_top_iterations.                                   *)
THEOREM LanesExitTogether == Spec => ExitTogether
<1>1. IInv /\ [Next]_vars => [alive' # alive => alive' = {}]_vars
  <2>1. ASSUME IInv, Step, alive' # alive PROVE alive' = {}
    <3>1. DispatchExit \/ DispatchBail
      BY <2>1 DEF Step, Launch, Dispatch, FindSchedulableLeaf, Diverge, Reconverge,
         EntryJoinPoint, CreateControlPoint, Fork, Join, Yield
    <3> QED
      BY <2>1, <3>1, DispatchExitInv, TypeStep DEF Next, DispatchBail
  <2>2. ASSUME UNCHANGED vars PROVE alive' = alive
    BY <2>2 DEF vars
  <2> QED
    BY <2>1, <2>2 DEF Next, Finished
<1> QED
  BY <1>1, Invariance, PTL DEF Spec, ExitTogether

-----------------------------------------------------------------------------
(* Each lane alone.  What LaneView shows of lane t.                        *)
Destinations(jps) == [i \in 1 .. Len(jps) |-> jps[i].destination]
Status(t) ==
  IF ~started THEN "new" ELSE IF t \in Running THEN "running"
  ELSE IF t \in alive THEN "ready" ELSE "exited"
Place(t) == IF t \in Running THEN current_fn ELSE resume_at[t]

LEMMA ViewOf ==
  ASSUME NEW t \in Lanes
  PROVE  LaneView[t] = [status |-> Status(t), fn |-> Place(t), rets |-> Destinations(conts[t])]
  BY DEF LaneView, Status, Place, Destinations

(* A lane that stays where it is.                                          *)
LEMMA SameView ==
  ASSUME NEW t \in Lanes, Status(t)' = Status(t), Place(t)' = Place(t), conts'[t] = conts[t]
  PROVE  LaneView'[t] = LaneView[t]
  BY DEF LaneView, Status, Place

LEMMA DestinationsType ==
  ASSUME NEW jps \in Seq(JoinPoint)
  PROVE  Destinations(jps) \in Seq(Fns \cup {Exit}) /\ Len(Destinations(jps)) = Len(jps)
<1> DEFINE T == Fns \cup {Exit}
<1>1. Len(jps) \in Nat /\ \A i \in 1 .. Len(jps) : jps[i].destination \in T
  <2>1. \A jp \in JoinPoint : jp.destination \in T
    BY DEF JoinPoint
  <2>2. Len(jps) \in Nat /\ \A i \in 1 .. Len(jps) : jps[i] \in JoinPoint
    OBVIOUS
  <2> QED
    BY <2>1, <2>2
<1>2. Destinations(jps) \in [1 .. Len(jps) -> T]
  BY <1>1 DEF Destinations
<1> HIDE DEF T
<1>3. Destinations(jps) \in Seq(T)
  BY <1>1, <1>2, SeqDef
<1>4. DOMAIN Destinations(jps) = 1 .. Len(jps)
  BY DEF Destinations
<1> QED
  BY <1>1, <1>3, <1>4, LenProperties DEF T

(* The places to come back to follow the join points.                      *)
LEMMA DestinationsAppend ==
  ASSUME NEW jps \in Seq(JoinPoint), NEW jp \in JoinPoint
  PROVE  Destinations(Append(jps, jp)) = Append(Destinations(jps), jp.destination)
<1> DEFINE more == Append(jps, jp)
<1>1. /\ Len(jps) \in Nat /\ Len(more) = Len(jps) + 1
      /\ \A i \in 1 .. Len(jps) : more[i] = jps[i]
      /\ more[Len(jps) + 1] = jp
  OBVIOUS
<1>2. Destinations(jps) \in Seq(Fns \cup {Exit}) /\ Len(Destinations(jps)) = Len(jps)
  BY DestinationsType
<1>3. jp.destination \in Fns \cup {Exit}
  BY DEF JoinPoint
<1> HIDE DEF more
<1>4. Destinations(more) = [i \in 1 .. Len(jps) + 1 |-> IF i = Len(jps) + 1 THEN jp.destination
                                                         ELSE Destinations(jps)[i]]
  BY <1>1 DEF Destinations
<1> QED
  BY <1>1, <1>2, <1>3, <1>4, AppendProperties DEF more

LEMMA DestinationsPopped ==
  ASSUME NEW jps \in Seq(JoinPoint), NEW k \in 1 .. Len(jps)
  PROVE  Destinations(Popped(jps, k)) = SubSeq(Destinations(jps), 1, (Len(jps) - k + 1) - 1)
<1>1. Len(jps) \in Nat /\ Len(jps) - k \in 0 .. Len(jps) /\ (Len(jps) - k + 1) - 1 = Len(jps) - k
  OBVIOUS
<1>2. Destinations(jps) \in Seq(Fns \cup {Exit}) /\ Len(Destinations(jps)) = Len(jps)
  BY DestinationsType
<1>3. /\ Popped(jps, k) \in Seq(JoinPoint) /\ Len(Popped(jps, k)) = Len(jps) - k
      /\ \A i \in 1 .. Len(jps) - k : Popped(jps, k)[i] = jps[i]
  <2> DEFINE n == Len(jps) - k
  <2>1. n \in 0 .. Len(jps)
    BY <1>1
  <2> HIDE DEF n
  <2>2. /\ SubSeq(jps, 1, n) \in Seq(JoinPoint) /\ Len(SubSeq(jps, 1, n)) = n
        /\ \A i \in 1 .. n : SubSeq(jps, 1, n)[i] = jps[i]
    BY <2>1, PrefixOfSequence
  <2> QED
    BY <2>2 DEF n, Popped
<1>4. Destinations(Popped(jps, k)) = [i \in 1 .. Len(jps) - k |-> Destinations(jps)[i]]
  <2> DEFINE rest == Popped(jps, k)
  <2>1. Len(rest) = Len(jps) - k /\ \A i \in 1 .. Len(jps) - k : rest[i] = jps[i]
    BY <1>3
  <2>2. 1 .. Len(jps) - k \subseteq 1 .. Len(jps)
    BY <1>1
  <2> HIDE DEF rest
  <2>3. Destinations(rest) = [i \in 1 .. Len(jps) - k |-> rest[i].destination]
    BY <2>1 DEF Destinations
  <2>4. \A i \in 1 .. Len(jps) - k : rest[i].destination = Destinations(jps)[i]
    BY <2>1, <2>2 DEF Destinations
  <2>5. Destinations(rest) = [i \in 1 .. Len(jps) - k |-> Destinations(jps)[i]]
    BY <2>3, <2>4
  <2> QED
    BY <2>5 DEF rest
<1> QED
  BY <1>1, <1>2, <1>4

-----------------------------------------------------------------------------
(* A group that ends its turn: its lanes are ready, the others as before.  *)
LEMMA TurnEnds ==
  ASSUME IInv, NEW g \in groups, groups' = groups \ {g}, UNCHANGED <<started, alive, current_fn>>,
         \A t \in Lanes \ g : resume_at'[t] = resume_at[t] /\ conts'[t] = conts[t]
  PROVE  /\ \A t \in g : t \in Lanes /\ LaneView[t].status = "running"
                          /\ LaneView'[t] = [status |-> "ready", fn |-> resume_at'[t],
                                             rets |-> Destinations(conts'[t])]
         /\ \A t \in Lanes \ g : LaneView'[t] = LaneView[t]
<1>1. g \in SUBSET Lanes /\ started /\ alive = Lanes
  BY BusyGroup
<1>2. Running' = Running \ g /\ g \subseteq Running
  BY DEF Running, IInv, ControlInv, GroupsInv
<1>3. ASSUME NEW t \in g
      PROVE  /\ t \in Lanes /\ LaneView[t].status = "running"
             /\ LaneView'[t] = [status |-> "ready", fn |-> resume_at'[t], rets |-> Destinations(conts'[t])]
  <2>1. t \in Lanes /\ t \in Running /\ t \notin Running' /\ t \in alive' /\ started'
    BY <1>1, <1>2
  <2> QED
    BY <1>1, <2>1 DEF LaneView, Destinations
<1>4. ASSUME NEW t \in Lanes \ g PROVE LaneView'[t] = LaneView[t]
  <2>1. t \in Running' <=> t \in Running
    BY <1>2
  <2> QED
    BY <2>1, SameView DEF Status, Place
<1> QED
  BY <1>3, <1>4

(* A group that notes one more place to come back to.                      *)
LEMMA Remembers ==
  ASSUME IInv, NEW g \in groups, NEW r \in Fns \cup {Exit}, NEW jp, \A t \in g : jp[t] \in JoinPoint,
         \A t \in g : conts'[t] = Append(conts[t], jp[t]) /\ jp[t].destination = r,
         \A t \in Lanes \ g : conts'[t] = conts[t],
         UNCHANGED <<groups, resume_at, started, alive, current_fn>>
  PROVE  Sequential!Advance
<1>1. g \in SUBSET Lanes /\ started /\ Running' = Running /\ g \subseteq Running
  BY BusyGroup DEF Running
<1>2. ASSUME NEW t \in g PROVE Sequential!Remember(LaneView[t], LaneView'[t])
  <2>1. t \in Lanes /\ Status(t) = "running" /\ Status(t)' = "running" /\ Place(t)' = Place(t)
    BY <1>1 DEF Status, Place
  <2>2. Destinations(conts'[t]) = Append(Destinations(conts[t]), r)
    BY <2>1, DestinationsAppend DEF IInv, TypeOK
  <2>3. /\ LaneView[t] = [status |-> "running", fn |-> Place(t), rets |-> Destinations(conts[t])]
        /\ LaneView'[t] = [status |-> "running", fn |-> Place(t),
                           rets |-> Append(Destinations(conts[t]), r)]
    BY <2>1, <2>2 DEF LaneView, Status, Place, Destinations
  <2>4. LaneView[t].status = "running" /\ LaneView[t].rets = Destinations(conts[t])
    BY <2>3
  <2>5. LaneView'[t] = [LaneView[t] EXCEPT !.rets = Append(Destinations(conts[t]), r)]
    BY ONLY <2>3
  <2> QED
    BY <2>4, <2>5 DEF Sequential!Remember
<1>3. ASSUME NEW t \in Lanes \ g PROVE LaneView'[t] = LaneView[t]
  BY <1>1, <1>3, SameView DEF Status, Place
<1> QED
  BY <1>2, <1>3 DEF Sequential!Advance, Sequential!Step

-----------------------------------------------------------------------------
(* Each step of the subgroup is a step of some of its lanes, or of none.   *)
LEMMA LaunchRefines == ASSUME IInv, Launch PROVE Sequential!Advance
<1>1. /\ ~started /\ started' /\ groups = {} /\ groups' = {} /\ alive' = Lanes /\ UNCHANGED conts
      /\ \A t \in Lanes : resume_at'[t] = Entry
  BY UpdateAt DEF Launch, ForkTo, program, IInv, ControlInv, UnstartedInv
<1>2. ASSUME NEW t \in Lanes PROVE Sequential!Begin(LaneView[t], LaneView'[t])
  <2>1. /\ LaneView[t].status = "new" /\ LaneView'[t].status = "ready"
        /\ LaneView'[t].fn = Entry /\ LaneView'[t].rets = LaneView[t].rets
    BY <1>1 DEF LaneView, Running
  <2> QED
    BY <2>1 DEF Sequential!Begin, Fns
<1> QED
  BY <1>2 DEF Sequential!Advance, Sequential!Step

LEMMA DispatchRefines == ASSUME IInv, Dispatch PROVE Sequential!Advance
<1>1. /\ started /\ groups = {} /\ groups' = {ActiveBranchMask} /\ current_fn' = next_fn /\ next_fn # Exit
      /\ UNCHANGED <<resume_at, conts, started, alive>>
      /\ Running = {} /\ Running' = ActiveBranchMask
  BY DEF Dispatch, AtDispatcher, sched, program, Running
<1>2. ASSUME NEW t \in ActiveBranchMask PROVE Sequential!Enter(LaneView[t], LaneView'[t])
  <2>1. t \in Lanes /\ t \in alive /\ resume_at[t] = next_fn
    BY DEF ActiveBranchMask, IInv, TypeOK
  <2>2. /\ LaneView[t] = [status |-> "ready", fn |-> next_fn, rets |-> Destinations(conts[t])]
        /\ LaneView'[t] = [status |-> "running", fn |-> next_fn, rets |-> Destinations(conts[t])]
    BY <1>1, <2>1 DEF LaneView, Destinations
  <2>3. LaneView'[t] = [LaneView[t] EXCEPT !.status = "running"]
    BY ONLY <2>2
  <2>4. LaneView[t].status = "ready" /\ LaneView[t].fn # Exit
    BY <1>1, <2>2
  <2> QED
    BY <2>3, <2>4 DEF Sequential!Enter
<1>3. ASSUME NEW t \in Lanes \ ActiveBranchMask PROVE LaneView'[t] = LaneView[t]
  BY <1>1, <1>3, SameView DEF Status, Place
<1> QED
  BY <1>2, <1>3 DEF Sequential!Advance, Sequential!Step

LEMMA DispatchExitRefines == ASSUME IInv, DispatchExit PROVE Sequential!Advance
<1>1. /\ started /\ groups = {} /\ next_fn = Exit /\ alive' = alive \ ActiveBranchMask
      /\ UNCHANGED <<resume_at, conts, started, groups>>
      /\ Running = {} /\ Running' = {}
  BY DEF DispatchExit, AtDispatcher, sched, program, Running
<1>2. ASSUME NEW t \in ActiveBranchMask PROVE Sequential!Finish(LaneView[t], LaneView'[t])
  <2>1. t \in Lanes /\ t \in alive /\ t \notin alive' /\ resume_at[t] = Exit
    BY <1>1 DEF ActiveBranchMask, IInv, TypeOK
  <2>2. /\ LaneView[t] = [status |-> "ready", fn |-> Exit, rets |-> Destinations(conts[t])]
        /\ LaneView'[t] = [status |-> "exited", fn |-> Exit, rets |-> Destinations(conts[t])]
    BY <1>1, <2>1 DEF LaneView, Destinations
  <2>3. LaneView'[t] = [LaneView[t] EXCEPT !.status = "exited"]
    BY ONLY <2>2
  <2>4. LaneView[t].status = "ready" /\ LaneView[t].fn = Exit
    BY <2>2
  <2> QED
    BY <2>3, <2>4 DEF Sequential!Finish
<1>3. ASSUME NEW t \in Lanes \ ActiveBranchMask PROVE LaneView'[t] = LaneView[t]
  BY <1>1, <1>3, SameView DEF Status, Place
<1> QED
  BY <1>2, <1>3 DEF Sequential!Advance, Sequential!Step

(* The bail-out finds every lane ready, whatever it is ready for.          *)
LEMMA DispatchBailRefines == ASSUME IInv, DispatchBail PROVE Sequential!Cut
<1>1. /\ started /\ groups = {} /\ alive = Lanes /\ alive' = {}
      /\ UNCHANGED <<resume_at, conts, started, groups>>
      /\ Running = {} /\ Running' = {}
  BY DEF DispatchBail, AtDispatcher, sched, program, Running, IInv, ControlInv, AliveInv
<1>2. iterations_left # Unlimited
  BY DEF DispatchBail, Unlimited
<1>3. ASSUME NEW t \in Lanes
      PROVE  LaneView[t].status = "ready" /\ LaneView'[t] = [LaneView[t] EXCEPT !.status = "exited"]
  <2>1. /\ LaneView[t] = [status |-> "ready", fn |-> resume_at[t], rets |-> Destinations(conts[t])]
        /\ LaneView'[t] = [status |-> "exited", fn |-> resume_at[t], rets |-> Destinations(conts[t])]
    BY <1>1 DEF LaneView, Destinations
  <2> QED
    BY ONLY <2>1
<1>4. LaneView' = [t \in Lanes |-> LaneView'[t]]
  BY DEF LaneView
<1>5. LaneView' = [t \in Lanes |-> [LaneView[t] EXCEPT !.status = "exited"]]
  BY ONLY <1>3, <1>4
<1> QED
  BY <1>2, <1>3, <1>5 DEF Sequential!Cut

(* A program has a limit or has none.                                      *)
LEMMA LimitStays ==
  ASSUME IInv, [Next]_vars PROVE (iterations_left' # Unlimited) = (iterations_left # Unlimited)
<1>1. CASE Dispatch \/ DispatchExit
  BY <1>1, CountedType DEF IInv, TypeOK, Dispatch, DispatchExit
<1>2. CASE ~ (Dispatch \/ DispatchExit)
  <2>1. iterations_left' = iterations_left
    BY <1>2 DEF Next, Step, Finished, vars, Launch, DispatchBail, FindSchedulableLeaf, Diverge,
       Reconverge, EntryJoinPoint, CreateControlPoint, Fork, Join, Yield
  <2> QED
    BY <2>1
<1> QED
  BY <1>1, <1>2

(* Where the lanes of the subgroup part or come together changes nothing   *)
(* for any of them, and neither does the search for the next leaf.         *)
LEMMA HiddenSteps ==
  ASSUME IInv, FindSchedulableLeaf \/ Diverge \/ Reconverge \/ UNCHANGED vars
  PROVE  UNCHANGED LaneView
<1>1. UNCHANGED <<started, alive, current_fn, conts, resume_at>>
  BY DEF FindSchedulableLeaf, Diverge, Reconverge, vars, sched, program
<1>2. Running' = Running
  <2>1. ASSUME Diverge PROVE Running' = Running
    <3>1. PICK g \in groups : \E S \in SUBSET g : groups' = (groups \ {g}) \cup {S, g \ S}
      BY <2>1 DEF Diverge
    <3>2. PICK S \in SUBSET g : groups' = (groups \ {g}) \cup {S, g \ S}
      BY <3>1
    <3>3. ASSUME NEW t PROVE (\E h \in groups' : t \in h) <=> (\E h \in groups : t \in h)
      <4>1. CASE t \in g
        <5>1. t \in S \/ t \in g \ S
          BY <4>1
        <5>2. S \in groups' /\ g \ S \in groups' /\ g \in groups
          BY <3>2
        <5> QED
          BY <4>1, <5>1, <5>2
      <4>2. CASE t \notin g
        BY <3>2, <4>2
      <4> QED
        BY <4>1, <4>2
    <3>4. \A A, B : (\A t : (\E h \in A : t \in h) <=> (\E h \in B : t \in h)) => UNION A = UNION B
      BY Zenon
    <3> QED
      BY <3>3, <3>4 DEF Running
  <2>2. ASSUME Reconverge PROVE Running' = Running
    <3>1. PICK g \in groups, h \in groups : groups' = (groups \ {g, h}) \cup {g \cup h}
      BY <2>2 DEF Reconverge
    <3> QED
      BY <3>1 DEF Running
  <2>3. ASSUME FindSchedulableLeaf \/ UNCHANGED vars PROVE Running' = Running
    BY <2>3 DEF FindSchedulableLeaf, vars, Running
  <2> QED
    BY <2>1, <2>2, <2>3
<1> QED
  BY <1>1, <1>2 DEF LaneView

LEMMA EntryJoinPointRefines == ASSUME IInv, EntryJoinPoint PROVE Sequential!Advance
<1>1. PICK g \in groups :
        /\ \A t \in g : conts[t] = <<>>
        /\ conts' = Update(conts, [t \in g |-> <<[node |-> [threads |-> g, depth |-> 0],
                                  destination |-> Exit, payload |-> 0]>>])
        /\ UNCHANGED <<groups, resume_at, started, alive, current_fn>>
  BY DEF EntryJoinPoint, sched
<1> DEFINE token == [node |-> [threads |-> g, depth |-> 0], destination |-> Exit, payload |-> 0]
<1>2. token \in JoinPoint /\ token.destination = Exit
  BY DEF JoinPoint, TreeNode, IInv, TypeOK
<1> HIDE DEF token
<1>3. \A t \in Lanes : conts'[t] = IF t \in g THEN <<token>> ELSE conts[t]
  BY ONLY <1>1, UpdateAt DEF token
<1>4. g \in SUBSET Lanes
  BY BusyGroup
<1>5. \A t \in g : conts'[t] = Append(conts[t], [u \in g |-> token][t])
  <2>1. Append(<<>>, token) = <<token>>
    OBVIOUS
  <2> QED
    BY <1>1, <1>3, <1>4, <2>1
<1>6. \A t \in g : [u \in g |-> token][t] \in JoinPoint /\ [u \in g |-> token][t].destination = Exit
  BY <1>2
<1> DEFINE jp == [u \in g |-> token]
<1> HIDE DEF jp
<1>7. \A t \in g : jp[t] \in JoinPoint /\ jp[t].destination = Exit /\ conts'[t] = Append(conts[t], jp[t])
  BY <1>5, <1>6 DEF jp
<1>8. (\A t \in Lanes \ g : conts'[t] = conts[t]) /\ Exit \in Fns \cup {Exit}
  BY <1>3
<1>9. UNCHANGED <<groups, resume_at, started, alive, current_fn>>
  BY <1>1
<1> QED
  BY <1>7, <1>8, <1>9, Remembers

LEMMA CreateControlPointRefines == ASSUME IInv, CreateControlPoint PROVE Sequential!Advance
<1> DEFINE token(g, fn, t) == [node |-> [threads |-> g, depth |-> scheduler_vector[First(g)].depth],
                               destination |-> fn, payload |-> stack_size[t]]
<1>1. PICK g \in groups, fn \in Tails :
        /\ conts' = Update(conts, [t \in g |-> Append(conts[t], token(g, fn, t))])
        /\ UNCHANGED <<groups, resume_at, started, alive, current_fn>>
  BY DEF CreateControlPoint
<1>2. g \in SUBSET Lanes /\ First(g) \in Lanes
  BY BusyGroup
<1> DEFINE jp == [t \in g |-> token(g, fn, t)]
<1>3. \A t \in g : jp[t] \in JoinPoint /\ jp[t].destination = fn
  <2>1. \A t \in g : stack_size[t] \in Nat /\ scheduler_vector[First(g)].depth \in Nat
    BY <1>2 DEF IInv, TypeOK, TreeNode
  <2> QED
    BY <1>2, <2>1 DEF JoinPoint, TreeNode, Fns
<1>4. conts' = Update(conts, [t \in g |-> Append(conts[t], jp[t])])
  BY <1>1
<1> HIDE DEF jp, token
<1>5. \A t \in Lanes : conts'[t] = IF t \in g THEN Append(conts[t], jp[t]) ELSE conts[t]
  <2> DEFINE new == [t \in g |-> Append(conts[t], jp[t])]
  <2>1. conts' = Update(conts, new) /\ DOMAIN new = g
    BY <1>4
  <2>2. \A t \in g : new[t] = Append(conts[t], jp[t])
    OBVIOUS
  <2> HIDE DEF new
  <2>3. \A t \in Lanes : conts'[t] = IF t \in g THEN new[t] ELSE conts[t]
    BY ONLY <2>1, UpdateAt
  <2> QED
    BY <2>2, <2>3
<1>6. fn \in Fns \cup {Exit}
  BY DEF Fns
<1> QED
  BY <1>1, <1>2, <1>3, <1>5, <1>6, Remembers

LEMMA TailCalls ==
  ASSUME IInv, NEW g \in groups, groups' = groups \ {g}, UNCHANGED <<started, alive, current_fn, conts>>,
         \A t \in g : resume_at'[t] \in Fns, \A t \in Lanes \ g : resume_at'[t] = resume_at[t]
  PROVE  Sequential!Advance
<1>1. ASSUME NEW t \in g PROVE Sequential!TailCall(LaneView[t], LaneView'[t])
  <2>1. /\ t \in Lanes /\ LaneView[t].status = "running"
        /\ LaneView'[t] = [status |-> "ready", fn |-> resume_at'[t], rets |-> Destinations(conts[t])]
    BY TurnEnds
  <2>2. LaneView[t] = [status |-> Status(t), fn |-> Place(t), rets |-> Destinations(conts[t])]
    BY <2>1, ViewOf
  <2> DEFINE left == [LaneView[t] EXCEPT !.status = "ready"]
  <2>3a. left = [status |-> "ready", fn |-> Place(t), rets |-> Destinations(conts[t])]
    BY ONLY <2>2
  <2> HIDE DEF left
  <2>3b. LaneView'[t] = [left EXCEPT !.fn = resume_at'[t]]
    BY ONLY <2>1, <2>3a
  <2>3. LaneView'[t] = [LaneView[t] EXCEPT !.status = "ready", !.fn = resume_at'[t]]
    BY ONLY <2>3b DEF left
  <2> QED
    BY <2>1, <2>3 DEF Sequential!TailCall
<1>2. \A t \in Lanes \ g : LaneView'[t] = LaneView[t]
  BY TurnEnds
<1> QED
  BY <1>1, <1>2 DEF Sequential!Advance, Sequential!Step

LEMMA ForkRefines == ASSUME IInv, Fork PROVE Sequential!Advance
<1>1. PICK g \in groups : \E dest \in [g -> Callees] :
        /\ ForkTo(scheduler_vector, g, dest) /\ groups' = groups \ {g}
        /\ UNCHANGED <<started, alive, current_fn, conts>>
  BY DEF Fork
<1>2. PICK dest \in [g -> Callees] :
        /\ ForkTo(scheduler_vector, g, dest) /\ groups' = groups \ {g}
        /\ UNCHANGED <<started, alive, current_fn, conts>>
  BY <1>1
<1>3. g \in SUBSET Lanes
  BY BusyGroup
<1>4. \A t \in Lanes : resume_at'[t] = IF t \in g THEN dest[t] ELSE resume_at[t]
  BY ONLY <1>2, UpdateAt DEF ForkTo
<1>5. \A t \in g : resume_at'[t] \in Fns
  BY <1>3, <1>4 DEF Fns
<1> QED
  BY <1>2, <1>4, <1>5, TailCalls

LEMMA YieldRefines == ASSUME IInv, Yield PROVE Sequential!Advance
<1>1. PICK g \in groups, fn \in Tails :
        /\ resume_at' = Update(resume_at, [t \in g |-> fn]) /\ groups' = groups \ {g}
        /\ UNCHANGED <<started, alive, current_fn, conts>>
  BY DEF Yield
<1>2. g \in SUBSET Lanes
  BY BusyGroup
<1>3. \A t \in Lanes : resume_at'[t] = IF t \in g THEN fn ELSE resume_at[t]
  BY ONLY <1>1, UpdateAt
<1>4. \A t \in g : resume_at'[t] \in Fns
  BY <1>2, <1>3 DEF Fns
<1> QED
  BY <1>1, <1>3, <1>4, TailCalls

LEMMA JoinRefines == ASSUME IInv, Join PROVE Sequential!Advance
<1>1. PICK g \in groups, k \in 1 .. MaxFrames :
        /\ \A t \in g : k <= Len(conts[t])
        /\ conts' = Update(conts, [t \in g |-> Popped(conts[t], k)])
        /\ resume_at' = Update(resume_at, [t \in g |-> conts[t][Len(conts[t]) - k + 1].destination])
        /\ groups' = groups \ {g} /\ UNCHANGED <<started, alive, current_fn>>
  BY DEF Join
<1>2. g \in SUBSET Lanes
  BY BusyGroup
<1>3. \A t \in Lanes :
        /\ conts'[t] = IF t \in g THEN Popped(conts[t], k) ELSE conts[t]
        /\ resume_at'[t] = IF t \in g THEN conts[t][Len(conts[t]) - k + 1].destination ELSE resume_at[t]
  BY ONLY <1>1, UpdateAt
<1>4. ASSUME NEW t \in g PROVE Sequential!Return(LaneView[t], LaneView'[t])
  <2>1. /\ t \in Lanes /\ LaneView[t].status = "running"
        /\ LaneView'[t] = [status |-> "ready", fn |-> resume_at'[t], rets |-> Destinations(conts'[t])]
    BY <1>1, <1>3, TurnEnds
  <2>2. LaneView[t].rets = Destinations(conts[t])
    <3>1. LaneView[t] = [status |-> Status(t), fn |-> Place(t), rets |-> Destinations(conts[t])]
      BY <2>1, ViewOf
    <3> QED
      BY ONLY <3>1
  <2>3. conts[t] \in Seq(JoinPoint) /\ Len(conts[t]) \in Nat /\ k \in 1 .. Len(conts[t])
    <3>1. conts[t] \in Seq(JoinPoint)
      BY <2>1 DEF IInv, TypeOK
    <3>2. k \in Nat /\ k >= 1 /\ k <= Len(conts[t])
      BY <1>1, BoundAssumption
    <3> QED
      BY ONLY <3>1, <3>2
  <2> DEFINE i == Len(conts[t]) - k + 1
  <2>4. i \in 1 .. Len(conts[t])
    BY ONLY <2>3
  <2>5. Len(Destinations(conts[t])) = Len(conts[t])
    BY <2>3, DestinationsType
  <2>6. resume_at'[t] = Destinations(conts[t])[i]
    BY <1>2, <1>3, <2>4 DEF Destinations
  <2>7. Destinations(conts'[t]) = SubSeq(Destinations(conts[t]), 1, i - 1)
    BY <1>2, <1>3, <2>3, DestinationsPopped
  <2> HIDE DEF i
  <2> QED
    BY <2>1, <2>2, <2>4, <2>5, <2>6, <2>7 DEF Sequential!Return
<1>5. \A t \in Lanes \ g : LaneView'[t] = LaneView[t]
  BY <1>1, <1>3, TurnEnds
<1> QED
  BY <1>4, <1>5 DEF Sequential!Advance, Sequential!Step

LEMMA InitRefines == ASSUME Init PROVE Sequential!Init
  BY DEF Init, LaneView, Running, Sequential!Init

(* The scheduler and the code lower_callf.c generates run each lane as the *)
(* sequential program it is: it enters only functions it was sent to, and  *)
(* returns only to places it noted, whatever the other lanes do.  Only the *)
(* limit on the dispatcher's iterations ends it early, between functions.  *)
THEOREM LanesAreSequential == Spec => LanesRunSequentially
<1>1. IInv /\ [Next]_vars => [Sequential!Next]_<<LaneView, iterations_left # Unlimited>>
  <2> SUFFICES ASSUME IInv, [Next]_vars
               PROVE  Sequential!Advance \/ Sequential!Cut \/ UNCHANGED LaneView
    BY LimitStays DEF Sequential!Next
  <2>1. CASE Step
    BY <2>1, LaunchRefines, DispatchRefines, DispatchExitRefines, DispatchBailRefines,
       HiddenSteps, EntryJoinPointRefines,
       CreateControlPointRefines, ForkRefines, JoinRefines, YieldRefines DEF Step
  <2>2. CASE UNCHANGED vars
    BY <2>2, HiddenSteps
  <2> QED
    BY <2>1, <2>2 DEF Next, Finished
<1>2. Init => Sequential!Init
  BY InitRefines
<1> QED
  BY <1>1, <1>2, Invariance, PTL DEF Spec, LanesRunSequentially, Sequential!Spec
=============================================================================
