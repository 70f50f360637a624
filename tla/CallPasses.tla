----------------------------- MODULE CallPasses -----------------------------
(***************************************************************************)
(* The two passes that read the call graph.  shd_pass_mark_leaf_functions  *)
(* and shd_pass_inline each build it first, over the module they are given *)
(* (CallGraph), and walk that module then (LeafFunctions, Inlining) with   *)
(* the flags the graph holds.                                              *)
(***************************************************************************)
EXTENDS CallGraph, LeafFunctions, Inlining

CONSTANTS
  LeafSources,    \* the modules to run mark_leaf_functions on
  InlineSources   \* those to run inline on

(* A module, as far as the two passes look at it.                          *)
SourceType ==
  [pass : {"mark_leaf_functions", "inline"}, calls : SUBSET Call,
   indirect : SUBSET Fn, captured : SUBSET Fn, escapes : SUBSET Fn,
   NoBody : SUBSET Fn, Internal : SUBSET Fn, NoInline : SUBSET Fn, Root : SUBSET Fn,
   inline_everything : BOOLEAN]

ASSUME PassesAssumption ==
  /\ LeafSources \cup InlineSources \subseteq SourceType
  /\ \A s \in LeafSources \cup InlineSources :
       IsFiniteSet(s.calls) /\ InternalCallsInternal(s) /\ OnlyBodiesCall(s)

VARIABLES
  source,      \* the module: its calls, annotations and other facts
  started      \* the call graph has been handed to the pass

leaves == <<graph, info, capacity, generation, depth, frames, processed, annotated>>

(* What the call graph looks at.                                           *)
CalleesOf(s, f) ==
  {c.dst : c \in {d \in s.calls : d.src = f}} \cup {p \in {Pointer} : f \in s.indirect}
CallsOf(s) == [calls |-> [f \in Fn |-> CalleesOf(s, f)], otherUses |-> s.captured]

BuildCallGraph ==
  /\ ~started
  /\ UNCHANGED <<source, started, leaves, inlining>>
  /\ CallGraphNext

(* What the pass keeps of the call graph; the fields of Tarjan's algorithm *)
(* are not read again.                                                     *)
HandOver ==
  /\ ~started /\ phase = "done"
  /\ started' = TRUE
  /\ index' = [f \in Fn |-> -1] /\ lowlink' = [f \in Fn |-> 0]
  /\ on_stack' = {} /\ next_index' = 0 /\ stack' = <<>>
  /\ UNCHANGED <<source, mod, phase, cg_todo, cg_frames, edges, is_recursive>>

StartMarkLeafFunctions ==
  /\ source.pass = "mark_leaf_functions"
  /\ HandOver
  /\ graph' = [callees |-> callees, is_address_captured |-> is_address_captured,
               calls_indirect |-> calls_indirect, is_recursive |-> is_recursive,
               escapes |-> source.escapes]
  /\ UNCHANGED <<info, capacity, generation, depth, frames, processed, annotated, inlining>>

StartInline ==
  /\ source.pass = "inline"
  /\ HandOver
  /\ module' = [calls |-> source.calls, NoBody |-> source.NoBody, Internal |-> source.Internal,
                NoInline |-> source.NoInline, Root |-> source.Root,
                is_address_captured |-> is_address_captured, is_recursive |-> is_recursive,
                inline_everything |-> source.inline_everything]
  /\ UNCHANGED <<leaves, todo, dropped, nesting, bodies, kept>>

MarkLeafFunctions ==
  /\ started /\ source.pass = "mark_leaf_functions"
  /\ Next
  /\ UNCHANGED <<source, started, callgraph, inlining>>

Inline ==
  /\ started /\ source.pass = "inline"
  /\ InlineNext
  /\ UNCHANGED <<source, started, callgraph, leaves>>

PassesBefore == started = FALSE /\ mod = CallsOf(source) /\ CallGraphInit /\ Init /\ InlineInit
PassesInit == (source \in LeafSources \/ source \in InlineSources) /\ PassesBefore

PassesNext == \/ BuildCallGraph \/ StartMarkLeafFunctions \/ StartInline
              \/ MarkLeafFunctions \/ Inline

passesvars == <<source, started, callgraph, leaves, inlining>>
PassesSpec == PassesInit /\ [][PassesNext]_passesvars

-----------------------------------------------------------------------------

(* The call graph (callgraph.c) has every call, seen from both its ends,   *)
(* and marks as recursive exactly the functions that can call themselves,  *)
(* whichever function the walk and Tarjan's algorithm enter first.         *)
CallGraphExact == GraphComplete /\ RecursiveIffOnCycle

(* The answers of mark_leaf_functions against their definition on the      *)
(* module, two analyses earlier: a function is a leaf exactly when nothing *)
(* it can reach, itself included, has its address taken, can call itself   *)
(* or calls through a pointer.  Which function is asked first, and in      *)
(* which order callees are visited, does not matter.                       *)
Obstacle(f) == f \in source.captured \cup source.indirect \cup OnCycle
LeavesReachNoObstacle ==
  \A f \in Seen : info[f].done =>
    (info[f].is_leaf <=> \A g \in {f} \cup Reachable(f) : ~Obstacle(g))
=============================================================================
