----------------------------- MODULE CallGraph -----------------------------
(***************************************************************************)
(* analysis/callgraph.c: the call graph of a module and its recursive      *)
(* functions.  shd_new_callgraph first walks the bodies of the functions   *)
(* it reaches (analyze_fn), depth first through direct calls, then runs    *)
(* Tarjan's algorithm over the graph (strongconnect).  Hash tables and     *)
(* bodies are walked in an order the model leaves open.                    *)
(***************************************************************************)
EXTENDS IrModule, Integers, FiniteSets, SequencesExt

CONSTANT Pointer    \* the callee of a call that is not a function's address

ASSUME CallGraphAssumption == Pointer \notin Fn

(* The calls of each function, and the functions whose address is used     *)
(* other than as a callee.                                                 *)
ModType == [calls : [Fn -> SUBSET (Fn \cup {Pointer})], otherUses : SUBSET Fn]

VARIABLES
  mod,        \* the module to analyse
  phase,      \* "build", then "tarjan", then "done"
  cg_todo,    \* declarations the current phase has not come to
  cg_frames,  \* the C stack of analyze_fn, then of strongconnect
  fn2cgn, callees, callers,
  calls_indirect, is_address_captured, is_recursive,
  index, lowlink, on_stack,
  next_index, \* *index
  stack       \* Tarjan's stack, last element on top

edges == <<fn2cgn, callees, callers, calls_indirect, is_address_captured>>
vertices == <<index, lowlink, on_stack, next_index, stack>>
callgraph == <<mod, phase, cg_todo, cg_frames, edges, is_recursive, vertices>>

CGTop == cg_frames[Len(cg_frames)]
CGFrame(f, work) == [fn |-> f, work |-> work]
WithoutWork(c) == [cg_frames EXCEPT ![Len(cg_frames)].work = @ \ {c}]

-----------------------------------------------------------------------------
(* analyze_fn on a function without a node: the node is entered in fn2cgn  *)
(* before the body is walked, so recursion finds it.                       *)
EnterFunction(f, below) ==
  /\ fn2cgn' = fn2cgn \cup {f}
  /\ cg_frames' = Append(below, CGFrame(f, mod.calls[f]))

(* The end of visit_callsite: the edge, and immediate recursion.           *)
Link_OneWay(caller, f) ==
  /\ callees' = [callees EXCEPT ![caller] = @ \cup {f}]
  /\ is_recursive' = IF f = caller THEN is_recursive \cup {f} ELSE is_recursive
  /\ UNCHANGED callers
Link(caller, f) ==
  /\ callees' = [callees EXCEPT ![caller] = @ \cup {f}]
  /\ callers' = [callers EXCEPT ![f] = @ \cup {caller}]
  /\ is_recursive' = IF f = caller THEN is_recursive \cup {f} ELSE is_recursive

(* The next declaration of the module, and the uses of its address.     *)
AnalyzeDecl(f) ==
  /\ phase = "build" /\ cg_frames = <<>> /\ f \in cg_todo
  /\ cg_todo' = cg_todo \ {f}
  /\ is_address_captured' = is_address_captured \cup ({f} \cap mod.otherUses)
  /\ IF f \in fn2cgn THEN UNCHANGED <<fn2cgn, cg_frames>> ELSE EnterFunction(f, <<>>)
  /\ UNCHANGED <<mod, phase, callees, callers, calls_indirect, is_recursive, vertices>>

VisitIndirectCall ==
  /\ phase = "build" /\ cg_frames # <<>> /\ Pointer \in CGTop.work
  /\ cg_frames' = WithoutWork(Pointer)
  /\ calls_indirect' = calls_indirect \cup {CGTop.fn}
  /\ UNCHANGED <<mod, phase, cg_todo, fn2cgn, callees, callers, is_address_captured,
                 is_recursive, vertices>>

(* visit_callsite: the callee has its node, or gets one first.             *)
VisitCallsite(f) ==
  /\ phase = "build" /\ cg_frames # <<>> /\ f \in CGTop.work
  /\ IF f \in fn2cgn
       THEN /\ Link(CGTop.fn, f)
            /\ cg_frames' = WithoutWork(f)
            /\ UNCHANGED fn2cgn
       ELSE /\ EnterFunction(f, WithoutWork(f))
            /\ UNCHANGED <<callees, callers, is_recursive>>
  /\ UNCHANGED <<mod, phase, cg_todo, calls_indirect, is_address_captured, vertices>>

(* A body has been walked: back in the visit_callsite that asked for it.   *)
LeaveFunction ==
  /\ phase = "build" /\ cg_frames # <<>> /\ CGTop.work = {}
  /\ cg_frames' = Front(cg_frames)
  /\ IF Len(cg_frames) = 1 THEN UNCHANGED <<callees, callers, is_recursive>>
                        ELSE Link(cg_frames[Len(cg_frames) - 1].fn, CGTop.fn)
  /\ UNCHANGED <<mod, phase, cg_todo, fn2cgn, calls_indirect, is_address_captured, vertices>>

BuildDone ==
  /\ phase = "build" /\ cg_todo = {} /\ cg_frames = <<>>
  /\ phase' = "tarjan" /\ cg_todo' = fn2cgn
  /\ UNCHANGED <<mod, cg_frames, edges, is_recursive, vertices>>

-----------------------------------------------------------------------------
Unvisited(f) == index[f] = -1
MinOf(a, b) == IF a < b THEN a ELSE b

(* The beginning of strongconnect.                                         *)
EnterVertex(v, below) ==
  /\ index' = [index EXCEPT ![v] = next_index]
  /\ lowlink' = [lowlink EXCEPT ![v] = next_index]
  /\ next_index' = next_index + 1
  /\ stack' = Append(stack, v)
  /\ on_stack' = on_stack \cup {v}
  /\ cg_frames' = Append(below, CGFrame(v, callees[v]))

(* The loop of tarjan over the vertices.                                   *)
VisitVertex(v) ==
  /\ phase = "tarjan" /\ cg_frames = <<>> /\ v \in cg_todo
  /\ cg_todo' = cg_todo \ {v}
  /\ IF Unvisited(v) THEN EnterVertex(v, <<>>) ELSE UNCHANGED <<cg_frames, vertices>>
  /\ UNCHANGED <<mod, phase, edges, is_recursive>>

(* A successor on the stack is in the current component; one that has left *)
(* the stack belongs to a component already found.                         *)
LowlinkVia_OffStackToo(v, w) == [lowlink EXCEPT ![v] = MinOf(@, index[w])]
LowlinkVia(v, w) ==
  IF w \in on_stack THEN [lowlink EXCEPT ![v] = MinOf(@, index[w])] ELSE lowlink

VisitSuccessor(w) ==
  /\ phase = "tarjan" /\ cg_frames # <<>> /\ w \in CGTop.work
  /\ IF Unvisited(w)
       THEN EnterVertex(w, WithoutWork(w))
       ELSE /\ lowlink' = LowlinkVia(CGTop.fn, w)
            /\ cg_frames' = WithoutWork(w)
            /\ UNCHANGED <<index, on_stack, next_index, stack>>
  /\ UNCHANGED <<mod, phase, cg_todo, edges, is_recursive>>

(* The position of v on the stack: everything from there on is its         *)
(* component.                                                              *)
Position(v) == CHOOSE i \in DOMAIN stack : stack[i] = v
Component(v) == ToSet(SubSeq(stack, Position(v), Len(stack)))

(* The end of strongconnect: a root pops its component; the caller takes   *)
(* the lowlink over.                                                       *)
PopComponent(v) ==
  /\ stack' = SubSeq(stack, 1, Position(v) - 1)
  /\ on_stack' = on_stack \ Component(v)
  /\ is_recursive' = is_recursive \cup (IF Component(v) = {v} THEN {} ELSE Component(v))

LeaveVertex ==
  /\ phase = "tarjan" /\ cg_frames # <<>> /\ CGTop.work = {}
  /\ cg_frames' = Front(cg_frames)
  /\ IF lowlink[CGTop.fn] = index[CGTop.fn] THEN PopComponent(CGTop.fn)
                                        ELSE UNCHANGED <<stack, on_stack, is_recursive>>
  /\ lowlink' = IF Len(cg_frames) = 1 THEN lowlink
                ELSE [lowlink EXCEPT ![cg_frames[Len(cg_frames) - 1].fn] = MinOf(@, lowlink[CGTop.fn])]
  /\ UNCHANGED <<mod, phase, cg_todo, edges, index, next_index>>

TarjanDone ==
  /\ phase = "tarjan" /\ cg_todo = {} /\ cg_frames = <<>>
  /\ phase' = "done"
  /\ UNCHANGED <<mod, cg_todo, cg_frames, edges, is_recursive, vertices>>

-----------------------------------------------------------------------------
CallGraphInit ==
  /\ mod \in ModType
  /\ phase = "build" /\ cg_todo = Fn /\ cg_frames = <<>>
  /\ fn2cgn = {}
  /\ callees = [f \in Fn |-> {}] /\ callers = [f \in Fn |-> {}]
  /\ calls_indirect = {} /\ is_address_captured = {} /\ is_recursive = {}
  /\ index = [f \in Fn |-> -1] /\ lowlink = [f \in Fn |-> 0]
  /\ on_stack = {} /\ next_index = 0 /\ stack = <<>>

CallGraphNext ==
  \/ \E f \in Fn : \/ AnalyzeDecl(f) \/ VisitCallsite(f)
                   \/ VisitVertex(f) \/ VisitSuccessor(f)
  \/ VisitIndirectCall \/ LeaveFunction \/ BuildDone
  \/ LeaveVertex \/ TarjanDone

CallGraphSpec == CallGraphInit /\ [][CallGraphNext]_callgraph

-----------------------------------------------------------------------------

(* Once built, the graph has every direct call of every function, seen     *)
(* from both ends, and the callers of pointers, although a function may    *)
(* have been entered from any other one, or from itself.                   *)
GraphComplete ==
  phase # "build" =>
    /\ fn2cgn = Fn
    /\ \A f \in Fn : callees[f] = mod.calls[f] \cap Fn
    /\ \A f, g \in Fn : g \in callees[f] <=> f \in callers[g]
    /\ calls_indirect = {f \in Fn : Pointer \in mod.calls[f]}

(* Functions reachable from f by one call or more: those in every set that *)
(* has the callees of f and of its own members.                            *)
Direct(f) == mod.calls[f] \cap Fn
Closed(S) == \A g \in S : Direct(g) \subseteq S
Reachable(f) == {g \in Fn : \A S \in SUBSET Fn : Closed(S) /\ Direct(f) \subseteq S => g \in S}
OnCycle == {f \in Fn : f \in Reachable(f)}

(* is_recursive is exact: a function is marked only if it can call itself, *)
(* directly or through others, and in the end all such functions are.      *)
(* mark_leaf_functions and opt_inline rely on it.                          *)
RecursiveIffOnCycle ==
  /\ is_recursive \subseteq OnCycle
  /\ phase = "done" => is_recursive = OnCycle

=============================================================================
