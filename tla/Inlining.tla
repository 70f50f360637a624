------------------------------ MODULE Inlining ------------------------------
(***************************************************************************)
(* passes/opt_inline.c: replacing calls by the body of their callee, and   *)
(* dropping the functions whose calls have all been replaced.  Whether a   *)
(* function is dropped is decided from the call graph, per call of the     *)
(* source module; whether a call is replaced is decided where it is        *)
(* rewritten, which for a call inside an inlined body is another function, *)
(* the host.  The two must agree, or a call names a dropped function.      *)
(***************************************************************************)
EXTENDS IrModule, Integers, FiniteSets

CONSTANTS
  Nr,                  \* tells apart the calls of one function to another
  Modules              \* the modules to rewrite, and the option

Call == [src : Fn, dst : Fn, tail : BOOLEAN, nr : Nr]

(* The calls; the functions that are only declared; the annotations,       *)
(* EntryPoint and Exported together as Root; the flags of the call graph;  *)
(* optimisations.inline_everything.                                        *)
ModuleType ==
  [calls : SUBSET Call, NoBody : SUBSET Fn,
   Internal : SUBSET Fn, NoInline : SUBSET Fn, Root : SUBSET Fn,
   is_address_captured : SUBSET Fn, is_recursive : SUBSET Fn,
   inline_everything : BOOLEAN]

(* "Internal" marks the source of the built-in scheduler, whose functions  *)
(* call only each other.                                                   *)
InternalCallsInternal(m) == \A c \in m.calls : c.src \in m.Internal => c.dst \in m.Internal
OnlyBodiesCall(m) == \A c \in m.calls : c.src \notin m.NoBody

ASSUME InliningAssumption ==
  /\ Modules \subseteq ModuleType
  /\ \A m \in Modules : IsFiniteSet(m.calls) /\ InternalCallsInternal(m) /\ OnlyBodiesCall(m)

VARIABLES
  module,      \* the input
  todo,        \* functions the rewriter has not come to
  dropped,     \* functions rewritten to nothing
  nesting,     \* bodies being rewritten, one inside the other
  bodies,      \* bodies[1]: the host; above it the inlined callees
  kept         \* the calls of the new module: in which function, to whom

inlining == <<module, todo, dropped, nesting, bodies, kept>>

Calls(f) == {c \in module.calls : c.src = f}
CallsTo(f) == {c \in module.calls : c.dst = f}

is_call_potentially_inlineable(src, dst) ==
  src \notin module.Internal /\ dst \notin module.NoInline /\ dst \notin module.NoBody

InlineableCallsTo(f) == {c \in CallsTo(f) : is_call_potentially_inlineable(c.src, f)}

(* get_inlining_heuristic.                                                 *)
can_be_inlined_RecursiveToo(f) ==
  Cardinality(InlineableCallsTo(f)) <= 1 \/ module.inline_everything
can_be_inlined(f) ==
  /\ Cardinality(InlineableCallsTo(f)) <= 1 \/ module.inline_everything
  /\ f \notin module.is_address_captured \cup module.is_recursive

can_be_eliminated_OneCallReplaced(f) ==
  /\ can_be_inlined(f)
  /\ f \notin module.Internal \cup module.Root
can_be_eliminated(f) ==
  /\ Cardinality(CallsTo(f)) = Cardinality(InlineableCallsTo(f))
  /\ can_be_inlined(f)
  /\ f \notin module.Internal \cup module.Root

TopBody == bodies[nesting]
host == bodies[1].fn
Body(f) == [fn |-> f, work |-> Calls(f)]
Without(c) == [i \in 1 .. nesting |-> IF i < nesting THEN bodies[i]
                                      ELSE [TopBody EXCEPT !.work = @ \ {c}]]

(* process on a function: nothing is emitted for one that is eliminated.   *)
RewriteFunction(f) ==
  /\ nesting = 0 /\ f \in todo
  /\ todo' = todo \ {f}
  /\ IF can_be_eliminated(f)
       THEN dropped' = dropped \cup {f} /\ UNCHANGED <<nesting, bodies>>
       ELSE nesting' = 1 /\ bodies' = [i \in 1 .. 1 |-> Body(f)] /\ UNCHANGED dropped
  /\ UNCHANGED <<module, kept>>

(* A call is tested again against the host; a tail call is not.            *)
Inlines(c) ==
  /\ can_be_inlined(c.dst)
  /\ c.tail \/ is_call_potentially_inlineable(host, c.dst)

(* The pass stops when the callee of a tail call is only declared.         *)
InlineCall(c) ==
  /\ nesting > 0 /\ c \in TopBody.work /\ Inlines(c)
  /\ c.dst \notin module.NoBody
  /\ nesting' = nesting + 1
  /\ bodies' = [i \in 1 .. nesting + 1 |-> IF i <= nesting THEN Without(c)[i] ELSE Body(c.dst)]
  /\ UNCHANGED <<module, todo, dropped, kept>>

KeepCall(c) ==
  /\ nesting > 0 /\ c \in TopBody.work /\ ~Inlines(c)
  /\ bodies' = Without(c)
  /\ kept' = kept \cup {[in |-> host, callee |-> c.dst]}
  /\ UNCHANGED <<module, todo, dropped, nesting>>

BodyDone ==
  /\ nesting > 0 /\ TopBody.work = {}
  /\ nesting' = nesting - 1
  /\ bodies' = [i \in 1 .. nesting - 1 |-> bodies[i]]
  /\ UNCHANGED <<module, todo, dropped, kept>>

InlineInit ==
  /\ module \in Modules
  /\ todo = Fn /\ dropped = {}
  /\ nesting = 0 /\ bodies = [i \in 1 .. 0 |-> 0]
  /\ kept = {}

InlineNext ==
  \/ \E f \in todo : RewriteFunction(f)
  \/ \E c \in module.calls : InlineCall(c) \/ KeepCall(c)
  \/ BodyDone

InlineSpec == InlineInit /\ [][InlineNext]_inlining

-----------------------------------------------------------------------------
InliningTypeOK ==
  /\ module \in ModuleType /\ IsFiniteSet(module.calls) /\ InternalCallsInternal(module)
  /\ todo \subseteq Fn /\ dropped \subseteq Fn
  /\ nesting \in Nat /\ bodies \in [1 .. nesting -> [fn : Fn, work : SUBSET Call]]
  /\ kept \subseteq [in : Fn, callee : Fn]

(* No call of the new module names a function the pass drops: what is left *)
(* unreplaced for the sake of the host is never a call the decision to     *)
(* drop its callee had counted on.                                         *)
NoDanglingCall == \A k \in kept : k.callee \notin dropped

(* A body is never inlined into itself, directly or through others: the    *)
(* rewriting of a finite module ends.                                      *)
NoRecursiveInlining == \A i, j \in 1 .. nesting : i < j => bodies[i].fn # bodies[j].fn
=============================================================================
