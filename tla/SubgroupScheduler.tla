------------------------- MODULE SubgroupScheduler -------------------------
(***************************************************************************)
(* A compiled program with function calls while it runs: the scheduler     *)
(* linked into it (src/shady/internal/scheduler.slim) and the code         *)
(* lower_callf.c, lift_indirect_targets.c and lower_tailcalls.c generate   *)
(* around it, executed by one subgroup.                                    *)
(*                                                                         *)
(* The lanes of a subgroup share one instruction stream.  top_dispatcher   *)
(* loads next_fn, asks builtin_get_active_branch which lanes may run it    *)
(* and calls it with those lanes.  Compiled functions never return to a    *)
(* caller: a call creates a join point and forks to the callee, a return   *)
(* joins the join point.  Every lane that is not running is described by   *)
(* where it resumes and by a tree node: the mask of the lanes it must run  *)
(* with, and a depth.                                                      *)
(*                                                                         *)
(* The program is arbitrary: inside a function the active lanes may        *)
(* diverge (SPIR-V branches) and each group then creates join points,      *)
(* forks, joins or yields, in any order the hardware picks.                *)
(***************************************************************************)
EXTENDS Integers, Sequences, FiniteSets

CONSTANTS
  N,          \* active lanes of the subgroup (actual_subgroup_size)
  Callees,    \* the addresses (get_fn_ptr) of the functions that calls reach
  Tails,      \* the addresses of the functions lifted from controls' tails
  TailOf,     \* TailOf[f]: the function whose control the tail f was lifted from
  Limits,     \* the iterations the dispatcher may be compiled to make
  MaxWork,    \* bound: control points, tail calls and yields of a program run
  MaxFrames   \* bound: join points a lane holds at once

Lanes == 0 .. N - 1
Exit  == 0                \* the 'zero' case of the dispatcher leaves the loop
Entry == 1                \* the entry function, which nothing calls
Fns   == {Entry} \cup Callees \cup Tails

ASSUME NAssumption == N \in Nat \ {0}
ASSUME FnAssumption ==
  /\ Callees \subseteq Nat \ {Exit, Entry} /\ Tails \subseteq Nat \ {Exit, Entry}
  /\ Callees \cap Tails = {}
  /\ TailOf \in [Tails -> Callees \cup {Entry}]
ASSUME LimitAssumption == Limits \subseteq Nat \cup {-1}
ASSUME BoundAssumption ==
  MaxWork \in Nat /\ MaxFrames \in Nat \ {0}

TreeNode  == [threads : SUBSET Lanes, depth : Nat]
JoinPoint == [node : TreeNode, destination : Fns \cup {Exit}, payload : Nat]
NoNode    == [threads |-> {}, depth |-> 0]

VARIABLES
  scheduler_vector,  \* per lane: the tree node it waits or runs at
  resume_at,         \* per lane: the function it resumes at
  scheduler_cursor,  \* where the round robin starts
  next_fn,           \* the function the dispatcher runs next
  active_branch,     \* the tree node the dispatcher runs next
  scan, reduced,     \* builtin_find_schedulable_leaf: its loop counter, 0 when
                     \* it is not running, and the best lane so far
  started,           \* the lifted entry point has run
  iterations_left,   \* of the dispatcher's loop, or Unlimited
  alive,             \* the lanes still inside the dispatcher's loop
  current_fn,        \* the next_fn the dispatcher has loaded
  groups,            \* the diverged groups of lanes inside current_fn
  conts,             \* per lane: the join points of its enclosing controls
  stack_size,        \* per lane: the activations on its stack
  yielded,           \* builtin_yield has run (no pass emits it)
  work               \* what the program has spent of MaxWork

sched   == <<scheduler_vector, resume_at, scheduler_cursor, next_fn, active_branch>>
leaf    == <<scan, reduced>>
program == <<conts, stack_size, yielded, work>>
vars    == <<sched, leaf, started, iterations_left, alive, current_fn, groups, program>>

Update(f, new) == [t \in Lanes |-> IF t \in DOMAIN new THEN new[t] ELSE f[t]]
First(S) == CHOOSE x \in S : \A y \in S : x <= y
Running == UNION groups

(* The function of the source program that fn runs a part of.              *)
SourceFn(fn) == IF fn \in Tails THEN TailOf[fn] ELSE fn

(* shader_diagnostics.max_top_iterations: with 0, the default, the loop    *)
(* does not count; with m > 0 it gives up when it has made m + 1.          *)
Unlimited == -1
Counted == IF iterations_left = Unlimited THEN Unlimited ELSE iterations_left - 1

AtDispatcher == started /\ groups = {} /\ scan = 0

-----------------------------------------------------------------------------
(* The helpers of scheduler.slim.                                          *)

IsParent_MaskOnly(child, maybe_parent) == child.threads \subseteq maybe_parent.threads
IsParent_Strict(child, maybe_parent) ==
  child.threads \subseteq maybe_parent.threads /\ child.depth > maybe_parent.depth
IsParent(child, maybe_parent) ==
  /\ child.threads \subseteq maybe_parent.threads
  /\ child.depth >= maybe_parent.depth

(* (dst - x) is a 32-bit subtraction: below zero it wraps at 2^32 before   *)
(* the remainder is taken, which matters when n does not divide 2^32.      *)
ForwardDistance(x, dst, n) ==
  IF x <= dst THEN (dst - x) % n
  ELSE LET wrap == ((65536 % n) * (65536 % n)) % n
       IN  (wrap + n - ((x - dst) % n)) % n

Reduce2_Swapped(a, b) ==
  IF IsParent(scheduler_vector[b], scheduler_vector[a]) THEN a ELSE b
Reduce2(a, b) ==
  IF \/ IsParent(scheduler_vector[a], scheduler_vector[b])
     \/ /\ ~IsParent(scheduler_vector[b], scheduler_vector[a])
        /\   ForwardDistance(a, scheduler_cursor, N)
           < ForwardDistance(b, scheduler_cursor, N)
  THEN a ELSE b

(* The tree node of lane t after a fork of the lanes S: the loop of        *)
(* builtin_fork elects the first destination left and ballots for it.      *)
Branch_ElectedOnce(vec, S, dest, t) ==
  [threads |-> {u \in S : dest[u] = dest[First(S)]}, depth |-> vec[t].depth + 1]
Branch(vec, S, dest, t) ==
  LET uniform == \A u \in S : dest[u] = dest[First(S)]
  IN  [threads |-> {u \in S : dest[u] = dest[t]},
       depth   |-> vec[t].depth + (IF uniform THEN 0 ELSE 1)]

(* builtin_fork of the converged lanes S, lane t to dest[t]: one branch    *)
(* per distinct destination, the first lane's branch runs next.            *)
ForkTo(vec, S, dest) ==
  /\ scheduler_vector' = Update(vec, [t \in S |-> Branch(vec, S, dest, t)])
  /\ resume_at' = Update(resume_at, dest)
  /\ next_fn' = dest[First(S)]
  /\ active_branch' = Branch(vec, S, dest, First(S))
  /\ UNCHANGED <<scheduler_cursor, leaf>>

NextCursor_Unwrapped == scheduler_cursor + 1
NextCursor == (scheduler_cursor + 1) % N

(* The stack of join points after a join on the k-th from the top.         *)
Popped_KeepsJoined(jps, k) == SubSeq(jps, 1, Len(jps) - k + 1)
Popped(jps, k) == SubSeq(jps, 1, Len(jps) - k)

(* create_control_point pushes the leaf it is called on one level down.    *)
Deeper_Forgotten(node) == node
Deeper(node) == [node EXCEPT !.depth = @ + 1]

StartFindSchedulableLeaf == scan' = 1 /\ reduced' = 0

(* builtin_get_active_branch, for the lanes that execute the ballot.       *)
ActiveBranchMask_Escaping == {t \in alive : resume_at[t] = next_fn}
ActiveBranchMask_AnyDest ==
  {t \in alive : IsParent(scheduler_vector[t], active_branch)}
ActiveBranchMask ==
  {t \in alive : resume_at[t] = next_fn /\ IsParent(scheduler_vector[t], active_branch)}

-----------------------------------------------------------------------------
(* The lifted entry point: builtin_init_scheduler, then a uniform fork to  *)
(* the entry function, then the call of top_dispatcher.                    *)
Launch ==
  /\ ~started
  /\ started' = TRUE
  /\ ForkTo([t \in Lanes |-> [threads |-> Lanes, depth |-> 1]], Lanes,
            [t \in Lanes |-> Entry])
  /\ UNCHANGED <<iterations_left, alive, current_fn, groups, program>>

(* One iteration of the dispatcher's loop, up to the call of the function. *)
Dispatch ==
  /\ AtDispatcher /\ iterations_left # 0 /\ next_fn # Exit
  /\ ActiveBranchMask # {}
  /\ iterations_left' = Counted
  /\ current_fn' = next_fn
  /\ groups' = {ActiveBranchMask}
  /\ UNCHANGED <<sched, leaf, started, alive, program>>

(* The zero case: the lanes of the mask leave the loop.                    *)
DispatchExit ==
  /\ AtDispatcher /\ iterations_left # 0 /\ next_fn = Exit
  /\ ActiveBranchMask # {}
  /\ iterations_left' = Counted
  /\ alive' = alive \ ActiveBranchMask
  /\ current_fn' = next_fn
  /\ UNCHANGED <<sched, leaf, started, groups, program>>

(* The bail-out at the top of an iteration: the count is the same in every *)
(* lane, so that all of them leave the loop.                               *)
DispatchBail ==
  /\ AtDispatcher /\ iterations_left = 0
  /\ alive # {}
  /\ alive' = {}
  /\ UNCHANGED <<sched, leaf, started, iterations_left, current_fn, groups, program>>

(* One iteration of the loop of builtin_find_schedulable_leaf, run by the  *)
(* elected lane alone.                                                     *)
FindSchedulableLeaf ==
  /\ scan # 0
  /\ \/ /\ scan < N
        /\ reduced' = Reduce2(reduced, scan)
        /\ scan' = scan + 1
        /\ UNCHANGED sched
     \/ /\ scan >= N
        /\ next_fn' = resume_at[reduced]
        /\ active_branch' = scheduler_vector[reduced]
        /\ scan' = 0 /\ reduced' = 0
        /\ UNCHANGED <<scheduler_vector, resume_at, scheduler_cursor>>
  /\ UNCHANGED <<started, iterations_left, alive, current_fn, groups, program>>

-----------------------------------------------------------------------------
(* What the program does inside a function.  No group moves while the      *)
(* elected lane of another one looks for the next leaf.                    *)

(* A branch inside the function sends part of a group another way.         *)
Diverge ==
  \E g \in groups : \E S \in SUBSET g :
    /\ scan = 0
    /\ First(g) \in S /\ S # g
    /\ \A t \in g : conts[t] # <<>>
    /\ groups' = (groups \ {g}) \cup {S, g \ S}
    /\ UNCHANGED <<sched, leaf, started, iterations_left, alive, current_fn, program>>

(* Groups that meet at the merge of a static control run on together.      *)
Reconverge ==
  \E g, h \in groups :
    /\ scan = 0
    /\ g # h
    /\ \A t \in g, u \in h : conts[t] = conts[u]
    /\ groups' = (groups \ {g, h}) \cup {g \cup h}
    /\ UNCHANGED <<sched, leaf, started, iterations_left, alive, current_fn, program>>

(* The prelude of the entry function: its return is a join at depth 0 of   *)
(* the tree, whose destination ends the program (builtin_entry_join_point).*)
EntryJoinPoint ==
  \E g \in groups :
    /\ \A t \in g : conts[t] = <<>>
    /\ conts' = Update(conts, [t \in g |->
                  <<[node |-> [threads |-> g, depth |-> 0],
                     destination |-> Exit, payload |-> 0]>>])
    /\ UNCHANGED <<sched, leaf, started, iterations_left, alive, current_fn, groups, stack_size, yielded, work>>

(* builtin_create_control_point, at a control that is not static: the      *)
(* lanes of the group will meet again at fn, the lifted tail.  A control   *)
(* holds at most one join point of an activation at a time.                *)
CreateControlPoint ==
  \E g \in groups, fn \in Tails :
    LET jp(t) == [node |-> [threads |-> g,
                            depth |-> scheduler_vector[First(g)].depth],
                  destination |-> fn, payload |-> stack_size[t]]
    IN  /\ scan = 0
        /\ TailOf[fn] = SourceFn(current_fn)
        /\ \A t \in g : /\ Len(conts[t]) \in 1 .. MaxFrames - 1
                        /\ \A i \in 1 .. Len(conts[t]) :
                             \/ conts[t][i].destination # fn
                             \/ conts[t][i].payload # stack_size[t]
        /\ work < MaxWork /\ work' = work + 1
        /\ conts' = Update(conts, [t \in g |-> Append(conts[t], jp(t))])
        /\ scheduler_vector' = Update(scheduler_vector, [t \in g |-> Deeper(scheduler_vector[t])])
        /\ UNCHANGED <<resume_at, scheduler_cursor, next_fn, active_branch, leaf,
                       started, iterations_left, alive, current_fn, groups, stack_size, yielded>>

(* A TailCall terminator: builtin_fork, then back to the dispatcher.  The  *)
(* callee's activation is on top of the caller's.                          *)
Fork ==
  \E g \in groups : \E dest \in [g -> Callees] :
    /\ scan = 0
    /\ \A t \in g : conts[t] # <<>>
    /\ work < MaxWork /\ work' = work + 1
    /\ ForkTo(scheduler_vector, g, dest)
    /\ stack_size' = Update(stack_size, [t \in g |-> stack_size[t] + 1])
    /\ groups' = groups \ {g}
    /\ UNCHANGED <<started, iterations_left, alive, current_fn, conts, yielded>>

(* A Join terminator on the join point k controls out: builtin_join with   *)
(* the lane's own token, then back to the dispatcher.  The lifted tail     *)
(* resets the stack to the join point's payload.                           *)
Join ==
  \E g \in groups : \E k \in 1 .. MaxFrames :
    LET jp(t) == conts[t][Len(conts[t]) - k + 1]
    IN  /\ scan = 0
        /\ \A t \in g : k <= Len(conts[t])
        /\ conts' = Update(conts, [t \in g |-> Popped(conts[t], k)])
        /\ resume_at' = Update(resume_at, [t \in g |-> jp(t).destination])
        /\ scheduler_vector' = Update(scheduler_vector, [t \in g |-> jp(t).node])
        /\ stack_size' = Update(stack_size, [t \in g |-> jp(t).payload])
        /\ StartFindSchedulableLeaf
        /\ groups' = groups \ {g}
        /\ UNCHANGED <<scheduler_cursor, next_fn, active_branch,
                       started, iterations_left, alive, current_fn, yielded, work>>

(* builtin_yield: resume at fn later, move the round robin on.             *)
Yield ==
  \E g \in groups, fn \in Tails :
    /\ scan = 0
    /\ \A t \in g : conts[t] # <<>>
    /\ work < MaxWork /\ work' = work + 1
    /\ yielded' = TRUE
    /\ resume_at' = Update(resume_at, [t \in g |-> fn])
    /\ scheduler_cursor' = NextCursor
    /\ StartFindSchedulableLeaf
    /\ groups' = groups \ {g}
    /\ UNCHANGED <<scheduler_vector, next_fn, active_branch,
                   started, iterations_left, alive, current_fn, conts, stack_size>>

(* Every lane has left the loop: the invocation is over.                   *)
Finished == alive = {} /\ UNCHANGED vars

Init ==
  /\ scheduler_vector = [t \in Lanes |-> NoNode]
  /\ resume_at = [t \in Lanes |-> Exit]
  /\ scheduler_cursor = 0
  /\ next_fn = Exit /\ active_branch = NoNode
  /\ scan = 0 /\ reduced = 0
  /\ started = FALSE /\ alive = Lanes /\ iterations_left \in Limits
  /\ current_fn = Exit /\ groups = {}
  /\ conts = [t \in Lanes |-> <<>>]
  /\ stack_size = [t \in Lanes |-> 0]
  /\ yielded = FALSE /\ work = 0

Step ==
  \/ Launch \/ Dispatch \/ DispatchExit \/ DispatchBail \/ FindSchedulableLeaf
  \/ Diverge \/ Reconverge \/ EntryJoinPoint \/ CreateControlPoint
  \/ Fork \/ Join \/ Yield

Next == Step \/ Finished

Spec == Init /\ [][Next]_vars

(* The subgroup keeps executing its instruction stream, and a loop of the  *)
(* program inside one function does not run for ever.                      *)
FairSpec ==
  /\ Spec
  /\ WF_vars(Launch \/ Dispatch \/ DispatchExit \/ DispatchBail \/ FindSchedulableLeaf)
  /\ WF_vars(EntryJoinPoint)
  /\ SF_vars(Fork \/ Join)

-----------------------------------------------------------------------------
TypeOK ==
  /\ scheduler_vector \in [Lanes -> TreeNode]
  /\ resume_at \in [Lanes -> Fns \cup {Exit}]
  /\ scheduler_cursor \in Lanes
  /\ next_fn \in Fns \cup {Exit} /\ active_branch \in TreeNode
  /\ scan \in 0 .. N /\ reduced \in Lanes
  /\ started \in BOOLEAN /\ alive \in SUBSET Lanes /\ iterations_left \in Nat \cup {Unlimited}
  /\ current_fn \in Fns \cup {Exit}
  /\ groups \in SUBSET (SUBSET Lanes)
  /\ conts \in [Lanes -> Seq(JoinPoint)]
  /\ stack_size \in [Lanes -> Nat]
  /\ yielded \in BOOLEAN /\ work \in 0 .. MaxWork

(* A branch is a set of lanes with its own members: a lane is in the mask  *)
(* of its tree node and of every join token it holds, or no ballot of      *)
(* get_active_branch could ever wake it.                                   *)
LaneOwnsBranch ==
  started => \A t \in Lanes :
    /\ t \in scheduler_vector[t].threads
    /\ \A i \in 1 .. Len(conts[t]) : t \in conts[t][i].node.threads

(* Whenever the dispatcher is back in its loop some lane is selected: the  *)
(* loop never spins with the lanes of next_fn waiting for each other.      *)
SchedulerNeverIdles == AtDispatcher /\ alive # {} => ActiveBranchMask # {}

(* No lane leaves the dispatcher's loop before the others: the subgroup    *)
(* operations of those still running count on every lane of the subgroup.  *)
ExitTogether == [][alive' # alive => alive' = {}]_vars

(* The lanes that run a function together hold the same join points and    *)
(* wait at the same depth: lower_callf.c marks return_jp                   *)
(* subgroup_assume_uniform, and create_control_point reads the depth of    *)
(* the first lane for all of them.  (Lanes of one branch that do not all   *)
(* yield are not told apart: with builtin_yield this does not hold.)       *)
AssumedUniform ==
  ~yielded => \A g \in groups : \A t, u \in g :
                conts[t] = conts[u] /\ scheduler_vector[t] = scheduler_vector[u]

(* Reconvergence: the branch find_schedulable_leaf picked is a leaf, so    *)
(* that no lane is still below a join point when its tail starts.          *)
ScheduledBranchIsLeaf ==
  AtDispatcher /\ alive # {} /\ ~yielded =>
    \A t \in Lanes : IsParent(scheduler_vector[t], active_branch)
                       => scheduler_vector[t] = active_branch

(* The join tokens of a lane form a path of the tree: each is deeper than  *)
(* the ones around it and joins no lane they do not join.                  *)
TokensNest ==
  ~yielded => \A t \in Lanes : \A j \in 1 .. Len(conts[t]) : \A i \in 1 .. j - 1 :
    /\ conts[t][j].node.threads \subseteq conts[t][i].node.threads
    /\ conts[t][j].node.depth > conts[t][i].node.depth

(* Every lane runs its own sequential program, whatever the others do:     *)
(* the scheduler only changes when it runs, or cuts all of them off at the *)
(* limit it was compiled with.                                             *)
LaneView ==
  [t \in Lanes |->
     [status |-> IF ~started THEN "new" ELSE IF t \in Running THEN "running"
                 ELSE IF t \in alive THEN "ready" ELSE "exited",
      fn     |-> IF t \in Running THEN current_fn ELSE resume_at[t],
      rets   |-> [i \in 1 .. Len(conts[t]) |-> conts[t][i].destination]]]

Sequential == INSTANCE LaneSemantics WITH lane <- LaneView, limited <- iterations_left # Unlimited
LanesRunSequentially == Sequential!Spec

(* The program ends: every lane leaves the loop, none is left at a join    *)
(* point or behind a branch the scheduler never picks.                     *)
Termination == <>(alive = {})
=============================================================================
