# A TLA+ model of Shady

Shady is a compiler for an intermediate shading language. It is a sequential
program, but what it compiles is not: a function call on a GPU becomes a
cooperative, divergent computation of all the lanes of a subgroup, driven by a
scheduler that is linked into every compiled program. The subtle part of Shady
is that run-time system and the conventions the passes follow to generate code
for it; under it lie the data structures every pass trusts. This project models
both, checks them with TLC on small instances, and proves the results that
matter most with TLAPS.

Paths below are relative to the repository (`src/` of this checkout).

## Inventory

| part | state | operations | who talks to it |
|---|---|---|---|
| **Subgroup scheduler** `src/shady/internal/scheduler.slim` | per lane a tree node (mask, depth) and a resume address; per subgroup the cursor, `next_fn`, `active_branch` | init, entry join point, create control point, fork, yield, join, find schedulable leaf, get active branch | the dispatcher and the compiled functions |
| **Dispatcher and lowered calls** `passes/lower_callf.c`, `lift_indirect_targets.c`, `lower_tailcalls.c` | join points and stack of each lane, lanes still in the loop | a call becomes control + fork, a return becomes join, a control's tail becomes a function, one loop dispatches them all | the scheduler |
| **Stack lowering** `passes/lower_stack.c`, `setup_stack_frames.c`, `lower_alloca.c` | stack pointer and memory of a lane | push, pop, get/set stack size, frames | lowered calls |
| **Hash table** `src/common/dict.c` | buckets, counts of entries and tombstones | find, insert, remove, grow, clear, iterate, clone | every map and set of the compiler |
| **Bump allocator** `src/common/arena.c` | blocks, bytes left in the last | alloc, destroy | IR arenas |
| **IR arena** `src/shady/ir.c`, `ir/grammar.c` | interned strings, lists of strings and nodes, nodes | intern, create node, fold | every pass |
| **Rewriter** `src/shady/rewrite.c`, `visit.c` | maps from old to new nodes, one per scope | rewrite, register, search | every pass |
| **Pass pipeline** `src/shady/compile.c` | the current module, its arena | run pass, verify, clean up | driver, runtime |
| **Control-flow analyses** `analysis/cfg.c`, `looptree.c`, `scheduler.c`, `free_frontier.c` | CFG, RPO, dominators, loops, where an instruction lives | build, flip, query | restructuring and lifting passes |
| **Call graph** `analysis/callgraph.c` | nodes with callees and callers, Tarjan's indices and stack | build, query | leaf analysis, inlining |
| **Leaf functions** `passes/mark_leaf_functions.c` | memo table of answers, functions rewritten so far | is it a leaf, annotate | call lowering |
| **Inlining** `passes/opt_inline.c` | the bodies being rewritten, one inside the other | drop a function, replace a call | pipeline, twice per compilation |
| **Uses, leaks** `analysis/uses.c`, `leak.c` | use lists | build, query | most passes |
| **Checker, folding** `check.c`, `ir/type.c`, `ir/cast.c`, `fold.c` | none | the type of a node, what stands in its place | every pass, when it creates a node |
| **Value passes** `lower_int64.c`, `lower_mask.c`, `lower_vec_arr.c`, `lower_fill.c`, `lower_nullptr.c`, `lower_subgroup_ops.c`, `eliminate_constants.c` | local | take an operation apart | pipeline |
| **Verifier, body builder, printer** `analysis/verify.c`, `body_builder.c`, `print.c` | local | checks, lists of instructions, text | every pass |
| **Other passes** (40 files under `passes/`) | local | rewrites | pipeline |
| **Slim front end** `src/frontend/slim` | the tokenizer's position, the names in scope, the types asked for | parse, bind, normalise, infer | driver; the scheduler's source goes through it |
| **Cleanup** `passes/cleanup.c`, `opt_demote_alloca.c`, `opt_mem2reg.c` | what is known of each variable, uses of values and blocks | a round of three optimisations, again while one changes something | the pipeline, after any pass |
| **Other front ends** LLVM, SPIR-V; **back ends** C, SPIR-V | local | parse, emit | driver |
| **Runtime** `src/runtime` (Vulkan, CUDA) | devices, programs, commands with fences, buffers | specialise, launch, wait, destroy | applications |
| **Grammar generator** `src/shady/generator` | none | generates constructors, hashing, comparison | build |

How they interact: the driver parses a module into an IR arena and hands it to
the pipeline. Every pass creates a new arena, rewrites the module into it and
the pipeline destroys the old one. Nodes are compared by address wherever they
are nominal and by payload otherwise, and payloads hold interned pointers, so
everything rests on the interning of the IR arena, which rests on the hash
table and the bump allocator. With `dynamic_scheduling` the scheduler's own
source is linked into the module and the call-lowering passes emit calls to it.
The result runs on the GPU, one subgroup at a time as far as the scheduler is
concerned.

What is hard:

- *interleaving of lanes*: after a divergent branch the groups of a subgroup run
  in an order the hardware picks, and each may call, return or enter a control;
- *ordering*: which branch is resumed next is decided by a pairwise fold over
  the lanes;
- *liveness*: a lane whose branch is never picked hangs the dispatch;
- *long legal sequences*: hash-table counters that drift, tombstones, growth;
- *stale state*: join points and masks kept while other lanes run; positions of
  iterators kept while entries are removed; pointers into tables that grow;
- in the runtime, *timeouts, partial failure and shared descriptor sets*.

What makes each part correct is in its section below; the parts without a
section are in the plan.

## Modules

```
LaneSemantics   <--refines--  SubgroupScheduler  <-- MCSubgroupScheduler (2 runs)
                                     ^-- SubgroupSchedulerProof (TLAPS)
MemoryLayout    <--  LaneStack    <-- MCLaneStack (2 runs)
                        ^-- LaneStackProof (TLAPS)
IrTypes <-- ValueSemantics <-- Folding <-- ValuePasses, EmitSpirvValues,
                    ^                      EmitCValues <-- Values <-- MCControlFlow
                    |
FunctionIr ---------+
   ^-- SlimParser <-- SlimBinding <-- SlimInference <-- SlimMeaning <-- SlimPrograms <--+
   ^-- LowerCfInstrs (uses FlowPasses) <-- Cleanup <---------------------------- SlimFrontEnd
FlowGraph <-- FlowPasses <-- ControlFlow <-- MCControlFlow (3 runs, one of them with Values)
KeyedMap        <--refines--  Dict  <--+
Arena           <-- IrArena  <---------+---------- MCStorage (2 runs)
                                       ^-- StorageProof (TLAPS)
IrModule <-- CallGraph, LeafFunctions, Inlining  <--composed in--  CallPasses
                ^            ^                                     ^      ^-- MCModules (1 run,
                |            ^-- MCLeafChain (1 run)               |          with SlimFrontEnd)
                ^-- CallGraphProof (TLAPS)  <------------ CallPassesProof (TLAPS)
VkRuntime       <-- MCVkRuntime (1 run)
   ^-- VkRuntimeProof (TLAPS)
```

Every property has a mutant: an operator next to a definition (named
`Definition_WhatIsWrong`) that changes it the way a plausible bug would and
makes the property fail in its run.

### SubgroupScheduler: calls on a subgroup

*State.* `scheduler_vector`, `resume_at`, `scheduler_cursor`, `next_fn` and
`active_branch` are the variables of `scheduler.slim`. `scan` and `reduced` are the
locals of `builtin_find_schedulable_leaf`, whose loop runs one iteration per step,
on the elected lane alone. `started`, `alive`, `current_fn` and `groups` are the
control state of the subgroup: the lifted entry point, the lanes inside the
dispatcher's loop, the function it loaded, and the diverged groups of lanes inside
that function. `iterations_left` is what `max_top_iterations` leaves of that loop,
or `Unlimited`, as without that option. `conts` and `stack_size` are the part of
each lane's stack that matters to the scheduler: the join points of the enclosing
controls and the number of activations. `work` bounds the program.

*Actions.* `Launch` is `lift_entry_point`; `Dispatch` and `DispatchExit` one
iteration of the loop of `generate_top_level_dispatch_fn`, `DispatchBail` its end
when the iterations are used up; `EntryJoinPoint`, `Fork` and `Join` what
`lower_callf.c` makes of the entry function, of a call and of a return, through the
cases of `process` in `lower_tailcalls.c` into `builtin_entry_join_point`,
`builtin_fork` and `builtin_join`; `CreateControlPoint` a control that
`lift_indirect_targets.c` lifted; `Yield` is `builtin_yield`. `Diverge` is SPIR-V's
own control flow inside a function (no line of the repository makes it happen),
`Reconverge` what the static controls that `lower_tailcalls.c` leaves there do. The
program itself is arbitrary: any group may do any of these at any time.

*Assumptions.* Lanes come back together at the dispatcher's loop (the merge
block of a structured loop): `AtDispatcher` waits for all groups. While the
elected lane runs its scan no other group of the same function writes the
shared variables; a group that did would overwrite the choice, as later groups
do after it anyway. The whole subgroup is active when the program starts.
The 32-bit wrap of `forward_distance` is modelled.

*Abstract specification.* `LaneSemantics` knows nothing of subgroups: each lane
is a sequential program that calls, tail-calls and returns. `LanesRunSequentially`
says that the model implements it under `LaneView`, that is, that scheduling,
masks and other lanes never show in what a lane does. Only when the program was
compiled with a limit (`limited`) may it be cut off, and then for all lanes at
once, between two functions.

*Runs.*

| run | instance | what it shows |
|---|---|---|
| `sched_divergent_calls` | 3 lanes, entry + 2 callees, 2 controls, 4 units of work, with yields | `TypeOK`, `LaneOwnsBranch`, `SchedulerNeverIdles`, `ExitTogether`, `LanesRunSequentially`; until a lane yields, `AssumedUniform`, `ScheduledBranchIsLeaf`, `TokensNest`: reconvergence works; and under `FairSpec`, `Termination` |
| `sched_four_lanes` | 4 lanes, 1 recursive callee, 5 units of work | **violates** `AssumedUniform` |

*Bounds.* Three lanes are the smallest subgroup in which two branches and a lane of
a third coexist, and the largest for which the leaf choice is right; four lanes show
that it is not in general. Four units of work allow a control inside a divergent
call inside a control. `Limits` compiles the program without `max_top_iterations`
and with 1, that is 2 iterations: the entry function and one of what it started, so
that the others are cut off. `MaxFrames` = 3 holds an entry, a control and a nested
one. `TwoCallees` lets a fork be divergent; a callee may call itself.

*The four-lane finding.* `reduce2` prefers a child over its parent, and between
unrelated branches the one nearer the cursor. That preference is not
transitive, so folding it over the lanes in order may end at a node that has
waiting lanes below it. In the counterexample the tail of a control starts while
another lane is still inside, and the lanes that then run together hold
different join points although `lower_callf.c:94` marks the join point
`subgroup_assume_uniform`. With yields, `AssumedUniform` fails for two lanes
already, because `builtin_yield` does not split the branch of the lanes that
yield; no pass emits `builtin_yield`, so that is recorded as a limit of the
scheduler and not as a finding: the variable `yielded` remembers whether anybody
has, and the reconvergence properties speak of the behaviours in which nobody
did. What survives yields is the first half of the first run's list, and all of
it is proved for any number of lanes.

*Fairness.* `WF` of the dispatcher's and the scheduler's own steps and of the
entry prelude: a subgroup keeps executing its instruction stream. `SF` of
`Fork \/ Join`: a loop inside one function does not run for ever, so a group that
can reach its terminator again and again does. Nothing is assumed of which
branch the scheduler picks.

### ControlFlow: the control-flow passes

*Functions.* A function is a sequence of blocks; a block (`FlowGraph`) has its
effects, a terminator `op`, its targets `to` and, for controls and joins, the
join point `jp`. Effect `<<n>>` stands for the instructions of block `n` of the
source; `<<v, x>>` stores `x` in a variable a pass made, and `test` is how a
branch or switch made by a pass reads it. Block parameters, types and values are
left out: the passes carry them along with the jumps and joins modelled here.

*Analyses* (`FlowGraph`). `process_cf_node` and `get_or_enqueue` build the graph
in the order of the code, with structural edges, controls and joins, from the
entry or inside one loop (`loop_cfg`); `flip_cfg` turns it around and gives it a
single entry; `new_cfg` adds post-order, dominators with `refine_idoms` and the
dominance tree. `new_loop_tree` is `looptree.c`: Tarjan's algorithm from each
head with the loop's own edges taken away. `ControlFlow` defines the same
notions by reachability.

*Passes* (`FlowPasses`). One operator per pass and per handler of
it; each maps a function to a function and says where the code stops with an
error. `restructure.c` is the walk with `dfs_stack`, `control_stack`, `in_loop`
and the `longjmp` that gives up.

*Behaviour* (`ControlFlow`). Actions apply the passes in the pipeline's order to
a function of one of four kinds. Then `Start` and `Run` execute the original and
the result side by side: at each block of the source that has a condition, any
outcome. `SameExecution` is what all these passes together promise.

*Runs.* `control_flow` takes every flat function of at most four blocks and the
functions of `test/reconvergence_heuristics`, both without what is listed below,
scoped functions of four blocks with three nested scopes, and every tree of two
constructs. (It also runs `Values`, see there; a behaviour is about one of the two.)
`AnalysesExact` compares the analyses (dominators, post-dominators, loops)
with their definitions, `HeuristicsSuffice` says that restructuring never gives
up on what the heuristics prepared, and `LanesReconverge`
says where lanes that parted meet: sides of a branch run their
meeting block in one place, and what follows a loop is outside the structured
loop. Two sides with a nested branch, a loop with a nested loop, two exits and a
continue all fit into four blocks; the test functions add a switch, and branches
that cross. `nested_merges` **violates** `SameExecution`: `lower_cf_instrs` gives
a merge the closest construct that dominates it, and the tail of a construct is
dominated by the construct. (`lower_cf_instrs` runs from the slim driver,
`frontend/slim/slim_driver.c:42`.)

`shared_exits` **violates** `SameExecution` too, on `nested_loops.slim` of the
repository's own reconvergence tests: before a loop is rewritten,
`reconvergence_heuristics` remembers what an exit was mapped to as a *pointer
into the rewriter's hash table* (`cached_exits`), then removes the entry and
enters the loop's wrapper, and afterwards re-registers what the pointer points
to. `dict_remove` leaves a tombstone and `dict_insert` takes the first one of
the probe, so the entry that is "restored" is normally the inner wrapper
(`restore_map` with `reused`); only when the new entry landed elsewhere is it
the old one. `BucketsReused` says which of the two may happen, and every run takes
both. An exit that an inner and an outer loop share becomes a join to a control
that has ended: `restructure` finds no control around such a join and gives up
(`restructure.c:296-297`), so `HeuristicsSuffice` is false of that function too. A
loop whose header is entered by two edges has the same fate, because it is copied
once for each edge and the first copy leaves its wrappers in the map.
`control_flow` therefore checks its four properties, with either outcome of the
re-insertion, for the functions of which no edge leaves two loops at once
(`ExitsApart`) and every loop is entered by one edge (`EnteredOnce`). Of the
repository's five test functions this excludes `nested_loops.slim` f.
The heuristics run only with `restructure_with_heuristics` (`compile.c:77`), so the
basic tests do not show it.

*What the inputs leave out, because the code is not right or stops there.*

- A block that jumps to itself inside another loop, in a function that is not
  prepared by the heuristics (`NakedFunctions`): `restructure.c:112-122` walks
  the path for the wrong loop and continues the outer one.
  `test/restructure2.slim:2-3` says of that test that it is not handled.
- Loops with several heads (`OneHead`): the heuristics' own `in_loop` gives up
  on them and leaves them unstructured.
- Functions with a loop that never ends: `build_fn_cfg_flipped` has no way to
  reach it. The graph of a loop whose every path leaves it has no sink either
  and stops at the assertion of `cfg.c:310`; the model's `defined` says where.
- Scopes that are entered at two blocks, or whose exit leads back to the block
  that got the control (`SingleEntry`, `NoReentry`): `scope2control` would put
  the join under the wrong control.

*Remarks.* Several controls of one block nest in the order of a hash table;
`ScopeToControl` takes either. The immediate dominator of a control's tail is
the block of the first join found, not the control's. The slim parser gives a
switch's default its first case (`shd_first(values)`).

### Values: what operations on values become

*What is compared.* A value is built one operation at a time (`Values`); each
node carries what it is worth in every lane, and beside it `meant` keeps what the
operation means for operands that were never folded (`ValueSemantics`: integers
of a width and sign, floats as numbers of halves, composites, addresses).
An outcome may be undefined (a division by zero, a shift by too much); then
nothing is asked.

*Types* (`IrTypes`). `is_subtype` and the two rules of casts are those of
`type.c` and `cast.c`; `check_type_prim_op` and its parts are the typing rules of
`check.c`, with the rule that says when the result is uniform. A rule whose
assertion fails gives `Ill`, and nothing is built from it.

*Folding* (`Folding`). `new_node` is `_shd_create_node_helper`: check, then
`fold_node`, which is `_shd_fold_node` with `fold_memory_poison`,
`fold_simplify_ptr_operand` and `fold_prim_op` in the order of the code, and its
final assertion. A literal keeps a container of 64 bits.

*Passes* (`ValuePasses`). Each rewrites the operands into another arena and puts
an expression in place of the node; everything it writes is checked and folded
there, as in the code.

*Back ends.* `EmitSpirvValues` has the instruction tables of
`emit_spv_value.c`, by class of operand and result, and the words of a literal;
what an opcode computes is SPIR-V's (external). `EmitCValues` writes the C11
expression of an operation and evaluates it with C's promotions, common types
and literal types (external).

*Properties.* `FoldExact`: no assertion of the arena fails and the folded node is
worth the same in every lane, of a type at least as good. `UniformSound`: what
the checker calls uniform is. `LoweringExact`: so are carries, halves, bits and
elements after the passes, and the conversions of `int.c`. `SpirvExact`,
`CExact`: so is what is emitted.

*Run*: `control_flow` builds them, beside the functions. `Word` = 2 bits stand for
32 and 4 for 64, so that every carry, sign and truncation occurs for small numbers;
four lanes hold all the values of a word. Two operations on top of each other, three
when an address is cast or entered in between (`AddressDepth`), any operands; two
palettes of parameters (equal and different). What folding does is decided by the
node and its operands, and by the chain of casts below a pointer, which three
operations close.

*What is left out because the code is wrong or stops there* (named in `Values`;
each is a remark to fix, with the place):

- `FoldsContainer`: literals are divided, and turned into floats, as unsigned
  numbers of 64 bits (`fold.c:53-82`, `91-119`): a negative dividend gives another
  quotient than at run time. `FoldsBadly`: a literal divided by zero stops the
  compiler, and a float literal converted to a float takes its bits for its value.
- `ComparesVectorWithItself`: a vector compared with itself folds to one truth
  value, which the assertion at the end of `_shd_fold_node` catches.
- `ConvertedTwice`: an address converted to generic and back trips the assertion
  of `resolve_ptr_source` on conversions to generic.
- `WellUsed`: `cast.c` says that exactly one of two pointers is to be generic and
  does not check it; `resolve_ptr_source` follows a reinterpretation into another
  address space; the operand of `mask_is_thread_active` is not checked to be a
  mask.
- `covers`: `lower_int64.c` has a case for additions only, and its literals become
  pairs of unsigned words where every other value is a pair of signed ones.
- `MistakenByC`: `!` inverts the bits of an integer; both right shifts are `>>`
  (a TODO at `emit_c_value.c:290` says so); the sign of 0 is -1; the fraction of x
  is 1 - floor(x); `%` is applied to floats; a literal prints the digits of its
  container, with no suffix, so that a comparison, division or shift may take
  place in a type that is not the operation's.

### LaneStack: the memory of a lane

*State.* `memory_private` are the 32-bit words that `lower_physical_ptrs.c` makes
of a lane's private memory, the stack first; `memory_global` two words of global
memory; `stack_ptr` the variable of `lower_stack.c`. `values` are what the
running function holds: each is its type, what it is (`is`, read back from
memory) and what the program means it to be (`meant`). `conts` are the lifted
tails with what they spilled, `next` what the dispatcher enters, `holds` what
the program last stored in each variable.

*Layout* (`MemoryLayout`). The constant `Types` lists the types of the program, each
after those it is made of; `layouts` goes through the list, where the code
recurs into a type, and `get_mem_layout` is what it ends with: sizes, alignments,
offsets, and where each word of a value lies. A value is a function from paths,
of members and elements down to a word of an integer, to words;
`gen_serialisation` and `gen_deserialisation` put it into memory and back.
`lower_ptr_index` and `lower_ptr_offset` are what address arithmetic makes of a
pointer, `convert_to_generic` and `recover_full_pointer` put tags on generic
pointers and take them off.

*Actions.* `EnterFunction` is the prologue: `lower_tailcalls.c` pops the
parameters, `setup_stack_frames.c` saves the stack pointer, `lower_alloca.c`
reserves the slots. `Call`, `Control`, `Join` and `Return` are what
`lower_callf.c`, `lift_indirect_targets.c` and `lower_tailcalls.c` emit for
them; `EnterContinuation` is the recovery in a lifted tail. `Compute`, `Store`,
`StoreMember`, `CopyBytes` and `FillBytes` are the program's own: which happens
when is free.

*Properties.* `ValuesSurvive`: whatever was spilled, passed or yielded is what
the program meant, although pushes and pops are emitted by four passes into
different functions. `MemoryHolds`: a variable, global, private or slot, holds
what was last stored, through any path. `ReturnRestoresCaller`: on a return the
caller's tail finds the stack where it left it.

*Runs.* `lane_stack` allows three controls, calls, computations or stores, with
allocas in functions entered with an empty stack; a frontier is all values, in
order, reversed, or all but one: a hash set's order is not the program's. That
reaches a call in a control in a call, with values of three types on the stack.
The stack has 160 bytes and a step that needs more is not taken (`Room`): the code
does not check. `SignBit`, the highest bit of an address that a tagged pointer keeps,
is 4096 where the code has 2^60: the tag and the sign take the same places above
it. `slots_overlap` allows allocas everywhere and **violates**
`MemoryHolds`: `lower_alloca.c:148` adds the stack size to an address that
includes it.

*Remarks on what is not in a property.* A Bool is stored inverted, and at its
byte address taken as an index of words (`lower_physical_ptrs.c:60-64`,
`149-152`): no data type here is a Bool in memory. Narrow integers are placed by
their alignment in records, by their size in arrays, and stored as whole words:
a narrow member overwrites its neighbours. A copy rounds its length down to
words and copies one word when asked for none, because its loop tests last. An
alloca in a control that was lifted after spills sets the stack size back. A null
pointer to private memory is the first variable there; a cast from a generic
pointer stops with an error. Nothing checks that the stack is large enough
(`Room`, `StackBytes` in the model).

### Dict: the hash table

*State.* `alloc` are the buckets with the two flags of `BucketTag`; the counters
are `size_t`, wrapping at `Wrap`; `reply` is what the last call returned, and
`iterator_state` and `visited` belong to a client's loop over `shd_dict_iter`.
Keys are opaque: only their hash matters, and `MCHash` makes two keys collide in
the last bucket so that probes wrap.

*Actions.* `Insert` is `dict_insert` with the growth it may start (`Grown` is
`rehash`), the move of a re-inserted key to a tombstone and its assertion;
`Remove`, `FindValue`, `Clear`, `Iter` are the functions of those names. The scans
are "the first bucket of the probe at which the loop stops" (`FirstOf`), and the
loop over the old buckets is a function of the position it has come to. An
insertion ends an iteration in the model: no client of the repository inserts
into a table it iterates over, while some remove.

*Run.* `storage` runs the table and the arena below, which share nothing, one or
the other. Of the table it shows that the table is a finite map (`ImplementsMap`,
refinement of `KeyedMap`), that the count is exact, that iteration with removals
gives every key once, and that in a table without tombstones a scan always ends
at a clean bucket. (That needs the table nobody has removed from: every move of
a key onto a tombstone leaves one tombstone uncounted, so after enough removals
and re-insertions of colliding keys a full table is not grown, and `failed`,
which stands for the assertion of `dict.c:317`, becomes true. In a table of four
buckets five keys are enough.)

*Bounds.* Colliding keys in a table of three buckets growing to six reach every mode
of insertion, wrapped probes and a growth with tombstones in the table; two values
tell an overwrite from none. A table must have three buckets at least: a smaller one
fills up before 60% of it is exceeded (the code starts with 32). Counters wrap at
20, beyond any count the instance reaches from above, so that only a decrement below
zero wraps.

### IrArena: interning

*State.* Strings by address and the string set, the lists of strings and of nodes
(`nodes_set` and `strings_set`: every list is in its set), nodes and the node set,
and `parsing`: whether this is the arena the slim parser fills. A text is an opaque
value; `Remainder` gives what may follow a token in memory.

*Actions.* `shd_string`, `shd_string_sized`, `shd_nodes` and `shd_strings` are the
functions of `ir.c` of those names; `shd_empty`, `shd_singleton`,
`shd_nodes_append` and the others that make a list all end in `shd_nodes`, with any
entries. `CreateNode` is `_shd_create_node_helper`: looked up, folded to an operand
for the tags that fold, and only then allocated. The generated constructors intern
every name of a node again with `shd_string`, and lists of names with
`_shd_import_strings`; these are steps before it, and `Imported` is what they leave.

*Tokens.* `slim/parser.c` hands tokens cut out of a file to `shd_string_sized`,
which makes a terminated copy and then passes the pointer into the file to
`string_impl` (`ir.c:185-190`): the look-up compares everything up to the end of the
file, so a name that occurs twice is normally interned twice. The run
`interning_tokens` **violates** `StringsShared`: a name at the end of a file and the
same name followed by more are two pointers. It does no harm in that arena, whose
names are compared with `strcmp` (`bind.c`). Every pass that follows rewrites into a
new arena, where names come in through `shd_string` and the last of two equal names
finds the first.

*Run.* `storage` has both kinds of arena. `InterningExact`: in every arena equal lists
are one list (`ListsShared`); in those that get no token, equal texts are one string
and every caller gets its text (`StringsInterned`), and structural nodes that read the
same, names and operands included, are one node (`NodesShared`), although a node is
compared by the addresses of its names and lists.

*Bounds.* Two texts of which one begins the other, three strings, three lists of at
most two entries and two nodes: a node, a list with it, and a node on top of it; in
the parser's arena two strings of one text.

### Arena: the bump allocator

*State.* As in `arena.c`, blocks named by the malloc that returned them, and
`live`, the allocations handed out. Requests are rounded up to `Align`.

The allocator is one of the parts of `IrArena`, which allocates its strings and
nodes from it; alone it is proved about (below) rather than run.

### CallGraph: who calls whom, and who is recursive

*State.* `mod` is the input: for each function its callees (functions, or
`Pointer` for a call through one) and the functions whose address is used
otherwise. `fn2cgn`, `callees`, `callers`, `calls_indirect`,
`is_address_captured` and `is_recursive` are the graph; `index`, `lowlink`,
`on_stack`, `next_index` and `stack` are Tarjan's. `cg_frames` is the C stack: of
`analyze_fn` while the graph is built, of `strongconnect` afterwards (`phase`).

*Actions.* `AnalyzeDecl`, `VisitIndirectCall`, `VisitCallsite` and
`LeaveFunction` are the walk over the bodies: a function is entered in `fn2cgn`
before its body is walked, its edge is added when the walk of the callee is
back. `VisitVertex`, `VisitSuccessor` and `LeaveVertex` are `tarjan` and
`strongconnect`, with `PopComponent` where a root leaves. Declarations, call
sites and hash tables are visited in any order: the code's order depends on
addresses.

*Properties.* `GraphComplete`: every edge is there, from both ends, although a
function may be entered from any other one. `RecursiveIffOnCycle`: `is_recursive`
marks exactly the functions on a cycle of calls. The reference definition is over
the input, not over the graph: what a function reaches is the least set that has
its callees and theirs. `CallGraphExact` of `CallPasses` is the two together, of
the modules the passes are given.

### LeafFunctions: which functions keep their calls

*State.* `info` is the table `fns` with its `FnInfo` entries; `capacity` and
`generation` tell how many buckets it has and how often it was reallocated.
`frames` is the C stack of `is_leaf_fn`: each frame remembers the generation in
which it fetched its pointer `info`. `processed` and `annotated` are the
functions that `process` has rewritten and those it left annotated. The graph
and its flags are an input of the module, and `escapes` names the functions
with a join point that escapes.

*Actions.* A call of `is_leaf_fn` for `c`, from `process` or from a frame, is
`AskSeen` (the entry exists; if it is not done, the recursion branch),
`AskRuledOut` (a flag rules it out) or `AskCallees`; `Finish` is the end of the
loop, with the entry fetched again. `TakeAnswer` is line 76: a caller whose
pointer is of an older generation writes to freed memory, and the write is
lost. (It might also corrupt something else; losing it is the mildest outcome.)

*Runs.* In `modules`, for modules that fit into the first table: a leaf calls
only leaves and reaches nothing that rules it out. `leaf_table_grows` **violates**
`LeavesCallLeaves` in a chain of 21 functions, the last of which has its address
taken, with the real capacity of 32: the insertion that finds 20 entries grows the
table while its caller waits with a pointer.

*A remark.* A join point that escapes (`mark_leaf_functions.c:128`) withholds the
annotation after the answer was memoised: callers that asked before are annotated
as leaves and call a function that is not. `MCModules` has no escaping
join points; with them an annotated function may call one that is not annotated.

The chain run is the only one that grows the table.

### Inlining: which calls are replaced, which functions dropped

*State.* `module` is the input: calls (caller, callee, tail call or not),
annotations and the flags of the call graph. `bodies` is the host function and,
above it, the inlined bodies under rewriting; `dropped` are the functions
rewritten to nothing and `kept` the calls of the new module.

*Actions.* `RewriteFunction` is `process` on a function, `InlineCall` and
`KeepCall` on a call or tail call, `BodyDone` the end of a body. The tests keep
their names: `is_call_potentially_inlineable`, `can_be_inlined`,
`can_be_eliminated`.

*Assumption.* `InternalCallsInternal`: functions annotated `Internal` are those
of `scheduler.slim`, which call only each other. Without it `NoDanglingCall`
fails: a body inlined into an internal host keeps the calls that were counted
as replaceable. `OnlyBodiesCall`: a function that is only declared (`NoBody`) calls
nothing. It is never inlined into a call (`opt_inline.c:37`); for a tail call the
code does not ask and stops at an assertion, which is the guard of `InlineCall`.

*Properties.* `NoDanglingCall`: no call is left to a dropped function, although
the first decision is made per call of the source and the second per host.
`NoRecursiveInlining`: inlining never recurses.

*A remark.* The comment of `opt_inline.c:70` asks for exactly one inlineable
call, the code for at most one, and a tail call (line 210) is not tested at the
call site at all: a function annotated `NoInline` has no inlineable call and is
inlined into every tail call of it. Inlined tail calls get no join point to
return to (line 213); that is right only because functions that are tail called
were lowered by `lower_callf.c` and return by joins.

### CallPasses: the call graph and its two readers

`CallPasses` composes the three: `source` is a module of the IR, its call graph
is built, handed to one of the passes (`StartMarkLeafFunctions`, `StartInline`)
and the pass runs on it. `LeavesReachNoObstacle` spans the composition: it
compares `is_leaf_fn`'s answers with reachability in `source`.

*Run* `modules`. For the leaf analysis every module of three functions with
at most six calls, captured addresses and functions that call a pointer; for the
inliner every module with at most three calls, of which two may be alike, calls
and tail calls, with one function `Internal`, `NoInline`, only declared, a root or captured, or
with `inline_everything`. Three functions hold a component with an edge into or
out of it, a chain, a fork, a join, and a call inside an inlined body whose host
differs from its source; the order in which everything is visited is free.

### SlimFrontEnd: from a text to a module

*What is compared.* A source is a syntax tree; `ProgramText` writes it, with as
few parentheses as the precedences allow, in a layout (tight, spaced, with
comments), and `Meant` (`SlimMeaning`) says what running the tree returns,
prints and leaves in the variables of the module, for three lists of arguments.
The text goes through the front end as `slim_driver.c` runs it, and what comes
out is run (`FunctionIr`, over the operations of `ValueSemantics`).

*State and actions.* `family`, `choice` and `layout` are the text, `stage` and
`compiled` how far it has come and as what. `Parse` is `slim_parse_string` with
the tokenizer (`SlimParser`), `BindNames` is `slim_pass_bind` and `Normalize`
`slim_pass_normalize` (`SlimBinding`), `Infer` is `slim_pass_infer` with the rules of
`check.c` for what it builds (`SlimInference`), `LowerCfInstrs` the pass of that
name. A failed expectation or assertion of a debug build is `"rejected"`.

*How modules look.* Blocks are numbered in the order in which the parser makes
them; a block has parameters, a chain of instructions and a body. A value is a
node, with its type once there is one; an instruction in a chain is referred to
by block and place, since it is the chain of memory operations that makes it one.

*Properties.* `SlimAccepts`: programs are accepted in every layout, programs with
a mistake are not. `SlimExact`: whatever stage a module is in, running it is what
the source says. A name that stands for a variable, an element or what a pointer
points to is a place or a value depending on what is around it (`bind.c`),
and what a number is, on what is asked of it (`infer.c`): this is where tests with
one program per construct see little.

*Programs* (`SlimPrograms`). All pairs of operators in both shapes, with signs and
comparisons; all ways in which a parameter, a binding of the body, one of an inner
block and a parameter of a continuation hide one another and two variables
of the module, with a write to one of them (256, of which those that write to a
value must be refused); programs after those of `test/` for control flow, memory,
declarations and optimisation; programs with one mistake each; a small program
without one of its tokens.

*What the programs avoid, because the code does otherwise* (each is a remark):

- A number bound by `val` without a type and used at two types keeps the first
  (`infer.c:187` remembers nodes). A `var` of several names starts all from the
  first value (`bind.c:168`).
- The inspectee of `switch` is dropped (`parser.c:960`); a hexadecimal literal is
  read in base 10; `call (f)(x)` is neither added to the body nor followed by a
  semicolon; an assignment associates to the left; a unary operator binds more
  tightly than a call or a subscript behind its operand; `empty_mask()` always
  stops; a call of a function that returns several values cannot be used; an `if`
  that yields without `else` asserts; a constant without a type does not parse
  (`parser.c:1148`) though `infer.c:119` provides for it.
- Not checked, so that a mistake gets through: the arguments of a merge or return
  against the types they are to have, the initial arguments of a loop (a TODO at
  `check.c:651`), the declared type of a constant against its value's.
- A Return with more arguments than the function has types reads past the end of
  the list.
- What is neither exported nor referenced disappears, even when it is wrong.

*Left out.* Structures, `match`, `ext_instr`, string bytes, the dummy constants
and `normalize_builtins` that the driver runs between the stages.

### LowerCfInstrs and Cleanup: lowering and optimising what came out

*LowerCfInstrs.* Ifs and loops become controls, merges join their points, on
modules with values. Every merge finds its own construct (`MergesMeet`, a guard): for
those in the tail of an inner construct see the run `nested_merges`.

*Cleanup.* `shd_cleanup` is a loop of three actions: `DemoteAlloca`, `Mem2Reg` and
`Simplify`, each the whole pass; `cleanup_todo` collects what they say is left and
decides whether another round follows, or the module is `"clean"`. `weaken` is the
option of the arena that lets variables become `LocalAlloc`, the only ones whose
loads are replaced: off in most of the pipeline, on after
`lift_indirect_targets.c` and in `test/opt/opt_oracle.c`; both are run. An
instruction that is removed leaves an empty place.

*Property.* `SlimExact` again, after each pass of each round: neither a variable
that is aliased by a cast, leaked, written on one way only, read in the next
round of a loop or by a block that two jumps lead to, nor a join to a control
that is gone, changes what the program does.

*Remarks.* `opt_demote_alloca.c`: a pointer that is an operand of an operation
without side effects other than a cast (`select`, a comparison) is neither
followed nor taken for a leak (lines 68-85), so a variable that is read through a
selected pointer only becomes undefined, although the comment at line 30 says that
it is left alone; programs do not do this. A store through a pointer cast to
another type casts the value to the type of the access instead of the variable's
(line 217), which `check_type_store` refuses: the program that does it ends in
`"stopped"`. The annotation `DisableOpt` is looked up and never used (line 178).
`get_ptr_source` in `opt_mem2reg.c` leaves its loop after one element (line 27). An
element of a variable makes it leak before that matters.

*Run* `modules`, beside the call passes, with which it shares nothing: a behaviour is about
one of them. Words of 8 bits; a text is parsed in three layouts, and what follows
happens once per program (and per `weaken` for those with control flow and memory).
Loops run a few rounds: `Fuel` bounds the steps of a run, and a program that used
it up would differ from what is meant.

### VkRuntime: commands, copies and launches

One application thread calls the runtime; the device executes submitted
commands concurrently and finishes them in any order (`Finish`). A `VkrCommand`
is a slot of `Cmd` with a `job`, the `submitted` field and its handles; `created`
and `freed` count what was made and destroyed of each Vulkan object, so that a
second destruction is seen. `call` and `copy` are the program counters of the
application's call and of the copy it makes:

- a copy (`CopyStarts`, `CopyBegin`, `CopySubmit`, then `CopyDone` or
  `CopyTimesOut`): the fallback with a staging buffer and the variant importing
  the host's memory have the same states and failures, except that only a staging
  buffer is mapped, and is destroyed again when that fails (`CannotMap`);
- a launch of a program not yet specialised (`Specialise`, then for the block of
  constants and for the data it points to `Allocate`, `Fill`, `Filled`, and
  without imported memory `Flush`, `Flushed`), then `LaunchBegin`, `Record`,
  `LaunchSubmit`;
- `WaitCompletion`, `DestroyBuffer`, `Shutdown`.

Every checked Vulkan call may fail, within a budget. A failure is handled where
the code handles it, ignored where the code ignores it (the results of the
copies in `prepare_resources`, the query pool), and ends in `"crashed"` where the
code goes through a null pointer (`submit_buffer_copy` may return `NULL`, which
`shd_rt_wait_completion` dereferences; a buffer that was not allocated) or
asserts (`get_specialized_program`).

- `ReleasedExactly`: on every path, objects are destroyed exactly
  as often as they were made. It rests on `calloc` clearing `submitted`.
- `NothingReleasedInUse`: what the device executes keeps what it uses.
- `KernelSeesItsConstants`: the block is zeroed by a copy before pointers are
  stored to the host's side of it, so the order, and the wait, matter.
- `ReadsBack`: what the last completed call left in the buffer is read back.
  `expects` is what that is, `"unknown"` after a copy that raced with a launch.

What the properties leave out is what the code does not guarantee. A copy whose
wait times out (after 4.3 s) has its staging buffer destroyed although the
command is still to execute, and the command is never destroyed: `abandoned`.
A buffer whose filling copy failed is `lost`. Without imported memory
`flush_staged_data` copies the `VkrBuffer` structure instead of the staging copy
into the block, so `KernelSeesItsConstants` speaks of the block only when memory
is imported. The application is assumed to wait for its launches before it
destroys its buffer or shuts down: `shd_rt_shutdown` does not
(`runtime.c:40` is a TODO about it).

*Run* `vk_runtime`: three commands, five calls, one failure and one timeout,
imported memory or not. Two launches can be under way, or a launch and a copy,
while another copy is given up; allocation, two copies to and one from the
buffer and a launch fit into five calls (waiting is free). Commands are
symmetric: nothing compares them.

## What is proved

Every theorem is about the specification that a run checks, for every value of
the constants. The step lemmas state `Inv /\ Action => Inv'`, one per action; the
final theorems combine them with the temporal prover.

### SubgroupSchedulerProof: any number of lanes

`TypeCorrect`, `LanesOwnTheirBranches`, `DispatcherNeverIdles`,
`LanesExitTogether` and the refinement `LanesAreSequential`, for every number of
lanes, any functions and any bounds. The assumptions are those of the module:
`N > 0`, function addresses are numbers other than 0 and 1 (`get_fn_ptr` counts
from 1, the entry function gets 1).

The inductive invariant `IInv` is `TypeOK` and:

- `LaneOwnsBranch`: masks contain their lane. Needed for every ballot;
- `GroupsInv`, `RunningInv`: diverged groups are disjoint, non-empty and never
  at the exit;
- `NodesInv`, `ContsInv`: a lane is at the root of the tree (depth 0, all lanes)
  exactly when it waits for the exit; only the outermost join point is at the
  root;
- `ScanInv`: if the best lane of a scan so far is at the root, so are all the
  lanes scanned. It holds because the root is everybody's parent and nobody's
  child, so `reduce2` never prefers it (lemma `RootIsTop`): this is why lanes
  exit together although `reduce2` is not transitive;
- `NextInv`: when the exit is next, everybody is at the root;
- `AliveInv`, `UnstartedInv`, `EnteredInv`: the phases of a program.

`SchedulerNeverIdles` follows in each action from the fact that the lane the
scheduler picked is its own parent (`IsParentOfItself`), or for a fork that the
first lane is in the branch it elected.

The refinement takes one lane at a time: `Status`, `Place` and `Destinations` are
what `LaneView` shows of it. The scan, a dispatch, a divergence, a reconvergence
and a yield show nothing or let lanes run where they are; an entry, a control, a
fork and a join are a step of each lane of the group, with the join point pushed
or popped, and of no other lane. That four lanes may meet wrong neighbours (the
finding) does not show here: each of them still runs its own program.

### StorageProof: arena, interning, hash table

*The arena.* `AllocationsDisjoint`, `AllocationsInsideBlocks` and
`TableHoldsBlocksOnce` for any block size, table size and requests. The invariant
adds to them `LastBlockInv`: while bytes are available, the last block of the
table is one of `alloc_size` bytes and what is cut from it ends where the
available bytes begin. This is what the swap of large blocks preserves.
`StorageIsSound` is the same of the arena as `IrArena` uses it.

*Interning.* `AddressesIdentify`: `InterningExact`, for any texts, tags, lists, sizes
and bounds and with no assumption on what follows a token: lists are shared in every
arena, strings and structural nodes in those without tokens. The invariant
(`PassesInv`): the string set has every string of the arena, at the address that was
given out, and no text twice; the node set has no two structural nodes with one
payload, where payloads are compared by the addresses in them; and every name a node
holds is the pointer that the string set has for its text, so that equal texts are
equal addresses. It does not hold of the parser's arena, where `interning_tokens`
shows that the conclusion does not hold either.

*The hash table.* `DictIsAMap`: `Dict` implements `KeyedMap`, step by step, with
insertions that overwrite, move a key to a tombstone, or make the table grow.
`CountsAreExact`, `IterationsAreExact` and `ScansEnd` are the other properties of
the run. The heart of the invariant is `TableOK`: no key is there twice
(`Unique`), and on the probe of a key that is there no clean bucket comes before
it (`Reached`). A removal leaves a tombstone, which is not clean; an insertion
takes the first free bucket of its probe, so nothing before it is clean; a look-up
that meets a clean bucket may therefore stop. For growth, `rehash` is a function
of the position, and what it has moved so far is compared with the old buckets
before that position, by the least position at which the two would differ. That
there is room, and without tombstones a clean bucket, is counting: a table with
fewer keys than buckets has one that is not present.

### VkRuntimeProof: any commands, calls, failures and timeouts

`EverythingReleased` (`ReleasedExactly`), `ExecutionKeepsWhatItUses`
(`NothingReleasedInUse`), `ConstantsReachKernels` (`KernelSeesItsConstants`) and
`CopyBringsBack` (`ReadsBack`), for any number of commands, calls, Vulkan failures
and timeouts, importing memory or not.

`IInv` says who has what. `CommandSide`: each command is in one hand, which is
nobody's, the copy's, the launch's, the application's, or it was given up; and
each hand says which of its objects exist and whether it was submitted
(`CopyInv`, `LaunchInv`, `HeldInv`, `AbandonedInv`, `UnusedInv`). `ProgramSide`: how
much of the specialised program exists at each point of a call. What the device
has is in one of the hands that wait for it (`SubmittedInv`).

`DInv` is about contents and rests on `IInv`: a copy that was given up may still
write, but only into a buffer on which nobody counts any more or by the call that
is about to see the failure (`StrayInv`); while the initial data are copied, they
are in the staging buffer, and once the device is done, in the buffer (`FillInv`,
`ConstantsInv`); and what the application expects is in its buffer or will be when
its launch is done (`BufferInv`).

### CallGraphProof: Tarjan's algorithm

`CallGraphIsExact`, for every module and every order of the walks.

- While bodies are walked (`BuildInv`): a call of a function that was entered and
  is not in the graph is still to be visited in the frame of its caller, or is
  the one whose callee is in the frame above (`Pending`, `EdgesInv`); an edge is
  listed at both ends (`LinksInv`).
- Afterwards (`TarjanInv`): the functions of the C stack are on Tarjan's stack in
  the order of their indices, everything on it reaches the topmost frame
  (`ReachesTop`), and each frame reaches what was entered after it
  (`ReachesLater`). A lowlink is the index of a function on the stack that can be
  reached (`LowlinkReached`) and no greater than the index of one to which an edge
  was explored from what was entered since (`LowlinkBelow`). What has been popped has only popped callees, and is
  marked if it is on a cycle (`PoppedInv`).

A frame that ends with its own index as lowlink therefore is the root of a
strongly connected component, and what `PopComponent` takes off is all of it.
`Reachable` is the least closed set, so facts about it follow from its definition
and need no induction over paths.

### CallPassesProof: the passes that read the graph

Each pass by itself, for any flags: `KeepsCallees` of the inliner and
`LeavesClosed` of the leaf analysis. And composed with the call graph of the
module (`PassesSpec`): `CallGraphAlwaysExact`, `PassesKeepCallees`,
`PassesLeavesClosed`, and what only the composition can say, `InliningEnds`
(`NoRecursiveInlining`) and `LeavesExact` (`LeavesReachNoObstacle`).

*Inlining.* What is dropped is dropped because all its calls are inlineable by
their source (`DroppedForGood`); that nothing kept is such a call (`KeptAlive`)
needs that everything inlined into an `Internal` host is `Internal` itself
(`HostInternal`), which follows from `InternalCallsInternal` because the calls left
in a body are calls of its own function (`WorkOfFrame`). That inlining ends: each
body reaches those inlined into it, and none of these is on a cycle
(`InlinedReached`), since the flags of the graph are exact (`GraphInv`).

*Leaves.* The theorems assume `Fits`: the functions fill at most 60% of the first
table, so that it never grows (lemma `NoGrowth`). The run `leaf_table_grows` shows
that the assumption is needed. The invariant says of the frames under examination
that they are distinct, not yet leaves, and that if nothing has ruled one out,
all callees it is done with are leaves, except the one the next frame is
examining (`VisitedAreLeaves`): so when a frame ends as a leaf, it calls leaves
only. That answers are never revised is `Refines`. For the other direction, what
is ruled out reaches an obstacle (`AnswersOK`): a function that is found under
examination again is ruled out because each frame reaches those above it
(`ChainOK`), so it is on a cycle, and being on one is an obstacle.

### LaneStackProof: any types, stack size and number of calls

`PoppedIsPushed` (`ValuesSurvive`), `ReturnsRestore` (`ReturnRestoresCaller`) and
`VariablesHold` (`MemoryHolds`), for any list of types, any parameters, yields and
frames made of them, any stack size that is a multiple of a word, any `SignBit` and
any number of calls. They assume `~AllocaAnywhere`, that only a function entered
with an empty stack has allocas; the run `slots_overlap` shows that this is needed.
The types that are loaded and stored are those of whole words (`WholeTypes`), those
of the slots are not empty, and the variables lie below `SignBit`
(`LaneStackAssumption`).

The argument goes from the bottom up.

- *Layouts.* `layouts` is a function over the list of types, so facts about it hold
  up to each n by the least n where they would not (`UpTo`). In a layout every word
  is at a multiple of four, inside the size, and no two paths share one
  (`WellLaid`); a record's members follow each other without overlap (`Placed`).
- *Loads and stores.* What was stored is loaded; a store changes nothing outside the
  bytes of its value; storing, copying or filling through a member's address changes
  that member and nothing else.
- *The stack.* `Stacked(m, base, top, vs)` says that popping from `top` finds `vs` and
  ends at `base`. Pushing makes it so, and popping in the other order undoes it
  (`PushValues`, `PopValues`); it survives any change of memory outside of
  those bytes (`StackedClear`).
- *Generic pointers.* Tagging an address and taking the tag off gives it back, for
  private addresses below `SignBit` and the two global ones, of either sign (`RoundTrip`).
- *Variables.* Any two of them are apart, and apart from the stack above the slots, so
  that a store to one leaves what the others hold (`HoldsOK`).

The inductive invariant `LaneInv` says that there are `live`, `slots` and `low`:
`live` gives the stack size of each lifted tail that can still be entered, `slots`
are the entry point's allocas and `low` the top of the stack they fill. Of these it
says that the variables hold what they should; that below the stack size of each
live tail lie the values it spilled, above `low` (`FramesOK`); and that every join
point among the values of the running function, or among those spilled by a live
tail, is to a tail that is live, with the payload that is its stack size
(`ValueOK`). The rest depends on what comes next: the function that runs holds what
it should, at or above every live frame (`AtRunning`), or the arguments of the
function or tail to be entered lie on top of all of them (`AtEntry`, `AtFunction`,
`AtContinuation`). `live` is needed because a tail may be entered more than once, or
never: entering one kills those with larger frames (`Trimmed`), which no one can
name any more, since a join point held below a frame is to a frame further below.
Of a return's join point and the saved stack pointer, `SetOK` says that they agree:
this is what `ReturnRestoresCaller` needs and no single pass establishes.

### Only model-checked

- `Termination`: liveness is out of the prover's reach.
- `AssumedUniform`, `ScheduledBranchIsLeaf`, `TokensNest`: false for four lanes,
  where the leaf choice is not transitive. The run `sched_four_lanes` ends in a
  state that violates the first two; one control more (`MaxWork` = 6) gives a lane
  a join token no deeper than the one below it.
- The control-flow analyses and passes, the values of `Values`, the front end and the
  optimisations: their operators are recursive throughout, over functions, types
  and expressions, and the prover has no induction over data.
- What `slots_overlap`, `sched_four_lanes` and the other runs that end in a violation
  show: a state of a small instance is the proof.

## Not modelled

- The rewriting of nodes done by most passes: the model has the control flow they
  make of a function (`ControlFlow`) or starts from the code they emit
  (`SubgroupScheduler`, `LaneStack`).
- The SPIR-V front end (`s2s.c`) builds Return, Branch, Call and CopyBytes without
  the memory operand their place in a body needs, and no test runs it: there is no
  behaviour to compare a model with. The LLVM front end is a translation from
  structures of LLVM, one instruction at a time.
- Printing, declarations, the emission of types and control flow: large
  and stateless; their bugs are local. Of checking, folding and emission, what
  concerns values is in `Values`.
- Memory safety of plain buffers (`list.c`, `growy.c`): sanitizers do it better.
- Descriptor sets: they belong to the specialised program, so a second launch
  writes them again while the first may be executing. What is written is the
  same each time; whether a driver accepts it is Vulkan's rule, not this code's.
- Allocation failure (`malloc` is asserted to succeed).

## Plan

In this order, each with an MC module, mutants and, where marked, proofs:

1. `Rewriter`: memoisation with parent rewriters and re-entrance through loops (the
   front end has the case of one rewriter);
   property: each node is rewritten to one node, the registered one.
2. `Pipeline`: the pass order of `compile.c` over the constructs an IR module
   still holds and the ownership of arenas; property: no pass meets a construct
   it asserts away, nothing reaches the back end that it cannot emit, no arena
   is destroyed while its module is in use. Proof: arena ownership.
3. `FreeFrontier` and the instruction scheduler on `FlowGraph`; `lcssa` and
   `lift_everything`.
4. CUDA's streams as the counterpart of `VkRuntime`.
5. Proof: what reconverges for any number of lanes, `AssumedUniform` and `TokensNest`
   under the hypothesis that every branch picked is a leaf.
