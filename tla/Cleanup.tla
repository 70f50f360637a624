------------------------------- MODULE Cleanup --------------------------------
(* The optimisations every pass may be followed by (passes/cleanup.c): variables that nobody   *)
(* reads or takes the address of are demoted (opt_demote_alloca.c), what was last stored in   *)
(* one stands for its loads (opt_mem2reg.c), blocks and controls used once are merged into    *)
(* where they are used, and loads nobody uses are dropped (cleanup.c).                        *)
(* An instruction that goes leaves its place, so that the others keep their names.  Uniform   *)
(* loads from variables of a function do not occur (is_simt).                                 *)
EXTENDS LowerCfInstrs

-----------------------------------------------------------------------------
(* The blocks of all functions and the edges between them, as cfg.c finds them.               *)
Explored(p, entry) == Flow!explore(p, entry, Flow!default_forward_cfg_build(p))
Joined_graphs(g, h) == [contents |-> g.contents \o h.contents, edges |-> g.edges \o h.edges]
RECURSIVE explored(_, _)
explored(p, entries) ==
    IF entries = {} THEN [contents |-> << >>, edges |-> << >>]
    ELSE LET entry == CHOOSE e \in entries : TRUE
         IN  Joined_graphs(Explored(p, entry), explored(p, entries \ {entry}))
entries_of(m) == {m.decls[d].block : d \in Defined(m)}
Graph(m) == explored(FlowOf(m), entries_of(m))

(* Who uses what (analysis/uses.c).                                                           *)
RECURSIVE parts(_)
parts(n) == {n} \cup UNION {parts(n.ops[i]) : i \in DOMAIN n.ops}
instructions_of(blk) == {blk.chain[k] : k \in DOMAIN blk.chain} \cup {blk.body}
nodes_of(m, bs) == UNION {UNION {parts(n) : n \in instructions_of(m.blocks[b])} : b \in bs}
uses_of(ns, p) == {n \in ns : \E i \in DOMAIN n.ops : n.ops[i] = p}

InstructionAt(m, n) == IF n.tag = "Ref" THEN m.blocks[n.nums[1]].chain[n.nums[2]] ELSE Null
IsAlloca(m, n) == InstructionAt(m, n).tag \in AllocaTags
Result(m, b, k) == [Ref(b, k) EXCEPT !.type = m.blocks[b].chain[k].type]
places_of(m, bs) == UNION {{<< b, k >> : k \in DOMAIN m.blocks[b].chain} : b \in bs}

(* A node with some of its operands replaced.  What takes the place of the value at a place   *)
(* may contain that value.                                                                   *)
RECURSIVE Replaced(_, _)
Replaced(n, new) ==
    LET at == << n.tag >> \o n.nums
    IN  IF n.tag \in {"Ref", "Param"} /\ at \in DOMAIN new
        THEN Replaced(new[at], [x \in DOMAIN new \ {at} |-> new[x]])
        ELSE [n EXCEPT !.ops = [i \in DOMAIN @ |-> Replaced(@[i], new)]]
ReplacedIn(blk, new) ==
    [blk EXCEPT !.chain = [k \in DOMAIN @ |-> Replaced(@[k], new)], !.body = Replaced(@, new)]

-----------------------------------------------------------------------------
(* opt_demote_alloca: what is done with a pointer, and with what it is cast to.               *)
RECURSIVE visit_ptr_uses(_, _)
visit_ptr_use(ns, ptr, user) ==
    CASE user.tag = "Load" -> {"read_from"}
      [] user.tag = "Store" -> IF user.ops[2] = ptr THEN {"leaks"} ELSE {}
      [] user.tag = "PrimOp" /\ user.name = "reinterpret" -> {"non_logical_use"} \cup visit_ptr_uses(ns, user)
      [] user.tag = "PrimOp" /\ user.name = "convert" ->
            IF user.types[1].tag = "PtrType" THEN {"non_logical_use"} \cup visit_ptr_uses(ns, user) ELSE {"leaks"}
      [] user.tag = "PrimOp" -> {}
      [] OTHER -> {"leaks"}
visit_ptr_uses(ns, ptr) == UNION {visit_ptr_use(ns, ptr, user) : user \in uses_of(ns, ptr)}

verdict(info, weaken) ==
    CASE "leaks" \in info -> "kept"
      [] "read_from" \notin info -> "undef"
      [] weaken /\ "non_logical_use" \notin info -> "local"
      [] OTHER -> "kept"
handle_alloc(m, ns, b, k, weaken) ==
    IF m.blocks[b].chain[k].tag \in AllocaTags THEN verdict(visit_ptr_uses(ns, Result(m, b, k)), weaken) ELSE ""

(* The variable a pointer was cast from.                                                     *)
RECURSIVE get_ptr_source_knowledge(_)
get_ptr_source_knowledge(ptr) ==
    IF ptr.tag = "PrimOp" /\ ptr.name \in PtrCasts THEN get_ptr_source_knowledge(ptr.ops[1]) ELSE ptr
access_type(ptr) == ptr.type.type.pointed_type

(* A load or a store through such a pointer goes to the variable itself, if its type can be   *)
(* taken for the other one.                                                                  *)
AccessTags == {"Load", "Store"}
Goes_to_source(m, n) ==
    /\ n.tag \in AccessTags
    /\ \E source \in {get_ptr_source_knowledge(n.ops[1])} :
          /\ source # n.ops[1] /\ IsAlloca(m, source)
          /\ is_reinterpret_cast_legal(access_type(n.ops[1]), InstructionAt(m, source).types[1])
Place_of(n) == << n.nums[1], n.nums[2] >>
Source_verdict(n, verdicts) ==
    LET source == get_ptr_source_knowledge(n.ops[1])
    IN  IF source.tag = "Ref" /\ Place_of(source) \in DOMAIN verdicts THEN verdicts[Place_of(source)] ELSE ""

local_alloc(n) == [n EXCEPT !.tag = "LocalAlloc", !.type.type.address_space = "Function"]
undef(n) == [Bare("Undef", << >>) EXCEPT !.type = n.type]

load_directly(m, n) ==
    [n EXCEPT !.ops[1] = get_ptr_source_knowledge(@),
              !.type.type = InstructionAt(m, get_ptr_source_knowledge(n.ops[1])).types[1]]
store_directly(n) == [n EXCEPT !.ops[1] = get_ptr_source_knowledge(@)]
demoted(m, n, v, sv) ==
    CASE v = "undef" \/ (n.tag = "Store" /\ sv = "undef") -> Gone
      [] v = "local" -> local_alloc(n)
      [] Goes_to_source(m, n) -> IF n.tag = "Load" THEN load_directly(m, n) ELSE store_directly(n)
      [] OTHER -> n

(* What it yielded before: a pointer to a variable that is not there, or in another address   *)
(* space, or what was loaded as what it was loaded as.                                        *)
reinterpreted(v, t) ==
    IF v.type.type = t THEN v ELSE [PrimOp("reinterpret", << t >>, << v >>) EXCEPT !.type = [v.type EXCEPT !.type = t]]
yields_now(m, n, v, place) ==
    CASE v = "undef" -> undef(n)
      [] v = "local" -> [Ref(place[1], place[2]) EXCEPT !.type = local_alloc(n).type]
      [] OTHER -> reinterpreted([Ref(place[1], place[2]) EXCEPT !.type = load_directly(m, n).type], access_type(n.ops[1]))

at_place(m, place) == m.blocks[place[1]].chain[place[2]]
Verdicts(m, ns, bs, weaken) == [place \in places_of(m, bs) |-> handle_alloc(m, ns, place[1], place[2], weaken)]
Renewed(m, verdicts) ==
    {place \in DOMAIN verdicts :
        verdicts[place] \in {"undef", "local"} \/ (at_place(m, place).tag = "Load" /\ Goes_to_source(m, at_place(m, place)))}
New_values(m, verdicts) ==
    [at \in {<< "Ref", place[1], place[2] >> : place \in Renewed(m, verdicts)} |->
        yields_now(m, at_place(m, << at[2], at[3] >>), verdicts[<< at[2], at[3] >>], << at[2], at[3] >>)]
demoted_block(m, b, verdicts) ==
    [m.blocks[b] EXCEPT !.chain =
        [k \in DOMAIN @ |->
            demoted(m, @[k], verdicts[<< b, k >>], IF @[k].tag \in AccessTags THEN Source_verdict(@[k], verdicts) ELSE "")]]

(* todo: is there something left for another round?  The value of a store is cast to the type *)
(* of the access, which the checker lets pass if it is that of the variable.                  *)
Redirected(m, bs) == {place \in places_of(m, bs) : Goes_to_source(m, at_place(m, place))}
demote_todo(m, verdicts, bs) ==
    \/ \E place \in DOMAIN verdicts :
          verdicts[place] = "undef" \/ (verdicts[place] = "local" /\ at_place(m, place).tag = "StackAlloc")
    \/ Redirected(m, bs) # {}
demote_checks(m, bs) ==
    \A place \in Redirected(m, bs) :
        at_place(m, place).tag = "Store" =>
            access_type(at_place(m, place).ops[1]) = InstructionAt(m, get_ptr_source_knowledge(at_place(m, place).ops[1])).types[1]

demote_in(m, bs, verdicts, new) ==
    [m |-> [m EXCEPT !.blocks =
                [b \in DOMAIN @ |-> IF b \in bs THEN ReplacedIn(demoted_block(m, b, verdicts), new) ELSE @[b]]],
     todo |-> demote_todo(m, verdicts, bs), ok |-> demote_checks(m, bs)]
opt_demote_with(m, bs, verdicts) == demote_in(m, bs, verdicts, New_values(m, verdicts))
opt_demote_alloca(m, weaken) ==
    LET bs == visited(Graph(m)) IN opt_demote_with(m, bs, Verdicts(m, nodes_of(m, bs), bs, weaken))

-----------------------------------------------------------------------------
(* opt_mem2reg: what was last stored there, as far up as there is one way to come from.       *)
RECURSIVE get_ptr_source(_)
get_ptr_source(ptr) ==
    CASE ptr.tag = "PtrCompositeElement" -> ptr.ops[1]
      [] ptr.tag = "PrimOp" /\ ptr.name \in PtrCasts /\ ptr.ops[1].type.type.tag = "PtrType" -> get_ptr_source(ptr.ops[1])
      [] OTHER -> ptr

preds(edges, b) == {i \in DOMAIN edges : edges[i].dst = b}
RECURSIVE get_last_stored_value(_, _, _, _, _)
before_block(m, edges, ptr, ps) ==
    IF Cardinality(ps) # 1 THEN Null
    ELSE LET b == edges[CHOOSE i \in ps : TRUE].src
         IN  get_last_stored_value(m, edges, ptr, b, Len(m.blocks[b].chain))
get_last_stored_value(m, edges, ptr, b, k) ==
    IF k = 0 THEN before_block(m, edges, ptr, preds(edges, b))
    ELSE LET n == m.blocks[b].chain[k]
         IN  CASE n.tag = "Store" /\ n.ops[1] = ptr -> n.ops[2]
               [] n.tag = "Store" /\ get_ptr_source(n.ops[1]) = get_ptr_source(ptr) -> Null
               [] OTHER -> get_last_stored_value(m, edges, ptr, b, k - 1)

Loads_local(m, n) == n.tag = "Load" /\ InstructionAt(m, get_ptr_source(n.ops[1])).tag = "LocalAlloc"
stored_before(m, edges, b, k) ==
    IF Loads_local(m, m.blocks[b].chain[k]) THEN get_last_stored_value(m, edges, m.blocks[b].chain[k].ops[1], b, k - 1)
    ELSE Null
last_stored(m, g) ==
    [at \in {<< "Ref", place[1], place[2] >> : place \in places_of(m, visited(g))} |->
        stored_before(m, g.edges, at[2], at[3])]
Known(values) == [at \in {at \in DOMAIN values : values[at] # Null} |-> values[at]]
without_loads(blk, b, known) ==
    [blk EXCEPT !.chain = [k \in DOMAIN @ |-> IF << "Ref", b, k >> \in DOMAIN known THEN Gone ELSE @[k]]]
promoted(m, known) ==
    [m |-> [m EXCEPT !.blocks = [b \in DOMAIN @ |-> ReplacedIn(without_loads(@[b], b, known), known)]],
     todo |-> DOMAIN known # {}]
opt_mem2reg(m) == promoted(m, Known(last_stored(m, Graph(m))))

-----------------------------------------------------------------------------
(* simplify: a block is merged into the one jump that leads to it, if it is used for nothing  *)
(* else (inline_single_use_bbs).                                                              *)
jumps_to(m, bs, t) == {b \in bs : m.blocks[b].body.tag = "Jump" /\ target(m.blocks[b].body, 1) = t}
otherwise_used(m, bs) ==
    UNION {elements(FlowTargets(m.blocks[b].body)) : b \in {b \in bs : m.blocks[b].body.tag # "Jump"}}
inlined_blocks(m, bs) ==
    {t \in bs \ (otherwise_used(m, bs) \cup entries_of(m)) : Cardinality(jumps_to(m, bs, t)) <= 1}

(* A control goes if it does nothing but to join the point it makes, which nobody else gets.  *)
is_control_static(ns, jp) == \A user \in uses_of(ns, jp) : user.tag = "Join" /\ \A i \in 2..Len(user.ops) : user.ops[i] # jp
joins_at_once(m, inside) ==
    /\ m.blocks[inside].body.tag = "Join"
    /\ m.blocks[inside].body.ops[1].tag = "Param" /\ m.blocks[inside].body.ops[1].nums = << inside, 1 >>
removed_controls(m, bs, ns) ==
    {b \in bs : /\ m.blocks[b].body.tag = "Control"
                /\ joins_at_once(m, target(m.blocks[b].body, 1))
                /\ is_control_static(ns, m.blocks[target(m.blocks[b].body, 1)].body.ops[1])}

(* Which block goes on with which.                                                           *)
goes_on(m, bs, inlined, controls) ==
    [b \in controls \cup {b \in bs : m.blocks[b].body.tag = "Jump" /\ target(m.blocks[b].body, 1) \in inlined} |->
        target(m.blocks[b].body, 1)]
RECURSIVE last_of(_, _), path_to(_, _)
last_of(next, b) == IF b \in DOMAIN next THEN last_of(next, next[b]) ELSE b
path_to(next, t) ==
    IF \E b \in DOMAIN next : next[b] = t THEN Append(path_to(next, CHOOSE b \in DOMAIN next : next[b] = t), t) ELSE << t >>

RECURSIVE chained(_, _)
chained(m, path) == IF path = << >> THEN << >> ELSE m.blocks[Head(path)].chain \o chained(m, Tail(path))
taken_in(next) == {next[b] : b \in DOMAIN next}
Moved_to(m, path, k) ==
    LET t == path[Len(path)]
    IN  [Ref(path[1], Len(chained(m, SubSeq(path, 1, Len(path) - 1))) + k) EXCEPT !.type = m.blocks[t].chain[k].type]
moved_values(m, next) ==
    [at \in {<< "Ref", place[1], place[2] >> : place \in places_of(m, taken_in(next))} |->
        Moved_to(m, path_to(next, at[2]), at[3])]
passed_values(m, next) ==
    [at \in UNION {{<< "Param", target(m.blocks[b].body, 1), i >> : i \in DOMAIN Tail(m.blocks[b].body.ops)} :
                    b \in {b \in DOMAIN next : m.blocks[b].body.tag = "Jump"}} |->
        m.blocks[CHOOSE b \in DOMAIN next : next[b] = at[2]].body.ops[at[3] + 1]]

(* Whoever joined a point that is gone goes to the tail of its control.                       *)
to_tail(m, n, controls) ==
    LET gone == {c \in controls : n.tag = "Join" /\ n.ops[1].tag = "Param" /\ target(m.blocks[c].body, 1) = n.ops[1].nums[1]}
    IN  IF gone = {} THEN n ELSE JumpTo(target(m.blocks[CHOOSE c \in gone : TRUE].body, 2), Tail(n.ops))
used_as_value(ns, n) == uses_of(ns, n) # {}
without_idle_loads(m, ns, b) ==
    [m.blocks[b] EXCEPT !.chain =
        [k \in DOMAIN @ |-> IF @[k].tag = "Load" /\ ~used_as_value(ns, Result(m, b, k)) THEN Gone ELSE @[k]]]
merged_block(m, b, next, controls) ==
    [m.blocks[b] EXCEPT !.chain = chained(m, path_to(next, last_of(next, b))),
                        !.body = to_tail(m, m.blocks[last_of(next, b)].body, controls)]
simplified_block(m, b, next, controls, new) ==
    IF b \in taken_in(next) THEN Abstraction(<< >>, "") ELSE ReplacedIn(merged_block(m, b, next, controls), new)
simplified(m, next, controls, new) ==
    [m |-> [m EXCEPT !.blocks = [b \in DOMAIN @ |-> simplified_block(m, b, next, controls, new)]],
     todo |-> DOMAIN next # {}]
simplified_with(m, next, controls) == simplified(m, next, controls, passed_values(m, next) @@ moved_values(m, next))
without_loads_of(m, ns, bs) ==
    [m EXCEPT !.blocks = [b \in DOMAIN @ |-> IF b \in bs THEN without_idle_loads(m, ns, b) ELSE @[b]]]
simplify_with(m, bs, ns, controls) ==
    simplified_with(without_loads_of(m, ns, bs), goes_on(m, bs, inlined_blocks(m, bs), controls), controls)
simplify_in(m, bs, ns) == simplify_with(m, bs, ns, removed_controls(m, bs, ns))
opt_simplify(m) == LET bs == visited(Graph(m)) IN simplify_in(m, bs, nodes_of(m, bs))
=============================================================================
