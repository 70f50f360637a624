---------------------------- MODULE SlimBinding -----------------------------
(* What becomes of the names of Slim (frontend/slim/bind.c): each Unbound node is looked up  *)
(* in the scope it stands in, variables become places in memory, and what is written to or   *)
(* addressed is told from what is read.  Then declarations that stand for values become      *)
(* references to them (frontend/slim/normalize.c).                                            *)
(* A module is rewritten into a new one (rewrite.c), from its exported declarations on and   *)
(* as far as they reach; a block or a declaration is rewritten once, and keeps its number.   *)
(* The names of the declarations of a module differ.  A named type is there whether or not   *)
(* anything refers to it; annotations are left alone.                                        *)
EXTENDS SlimParser

Rewriter(m, uses) ==
    [src |-> m, uses |-> uses, ok |-> TRUE, done |-> {}, vals |-> << >>, locals |-> << >>,
     dst |-> [decls |-> [d \in DOMAIN m.decls |-> [m.decls[d] EXCEPT !.value = Null]],
              blocks |-> [b \in DOMAIN m.blocks |-> [m.blocks[b] EXCEPT !.chain = << >>, !.body = Null]]],
     v |-> Null, vs |-> << >>, is_var |-> FALSE]

fails(r) == [r EXCEPT !.ok = FALSE, !.v = Null]

(* The node rewritten is the next of the chain, and what it yields goes by its old place.    *)
Yields(r, b, k, v) == [r EXCEPT !.vals = (<< b, k >> :> v) @@ @]
Emits(r, b, k, n) == Yields([r EXCEPT !.dst.blocks[b].chain = Append(@, n)], b, k, Ref(b, Len(r.dst.blocks[b].chain) + 1))
Emitted(r, b, n) == Value([r EXCEPT !.dst.blocks[b].chain = Append(@, n)], Ref(b, Len(r.dst.blocks[b].chain) + 1))

-----------------------------------------------------------------------------
(* Who uses what an instruction yields: the place written by an assignment does not, and     *)
(* what is subscripted need not be a value if it has an address.                              *)
RECURSIVE refs(_)
refs(n) == IF n.tag = "Ref" THEN {n} ELSE UNION {refs(n.ops[i]) : i \in DOMAIN n.ops}
place_of(n) == IF n.tag \in {"Assign", "Subscript"} /\ n.ops[1].tag = "Ref" THEN {1} ELSE {}
users(m) == UNION {elements(m.blocks[b].chain) \cup {m.blocks[b].body} : b \in DOMAIN m.blocks}
Uses(m) ==
    [values |-> UNION {UNION {refs(n.ops[i]) : i \in DOMAIN n.ops \ place_of(n)} : n \in users(m)},
     subscripted |-> {n.ops[1] : n \in {n \in users(m) : n.tag = "Subscript"}}]

-----------------------------------------------------------------------------
RECURSIVE bind_type(_, _)
bind_types(m, types) == [i \in DOMAIN types |-> bind_type(m, types[i])]
named_type(m, name) == {d \in DOMAIN m.decls : m.decls[d].name = name /\ m.decls[d].tag = "NominalType"}
bind_type(m, t) ==
    CASE "is_uniform" \in DOMAIN t -> [t EXCEPT !.type = bind_type(m, @)]
      [] t.tag = "Unbound" -> IF named_type(m, t.type_name) = {} THEN NoType
                              ELSE [tag |-> "TypeDeclRef", decl |-> CHOOSE d \in named_type(m, t.type_name) : TRUE]
      [] t.tag = "PtrType" -> [t EXCEPT !.pointed_type = bind_type(m, @)]
      [] t.tag \in {"ArrType", "PackType"} -> [t EXCEPT !.element_type = bind_type(m, @)]
      [] t.tag = "RecordType" -> [t EXCEPT !.members = bind_types(m, @)]
      [] OTHER -> t
bind_params(m, params) == [i \in DOMAIN params |-> [params[i] EXCEPT !.type = bind_type(m, @)]]

Binding(name, node, is_var) == [name |-> name, node |-> node, is_var |-> is_var]
add_binding_Last(r, is_var, name, node) == [r EXCEPT !.locals = Append(@, Binding(name, node, is_var))]
add_binding(r, is_var, name, node) == [r EXCEPT !.locals = << Binding(name, node, is_var) >> \o @]
RECURSIVE with_params(_, _, _)
with_params(r, b, i) ==
    IF i > Len(r.src.blocks[b].params) THEN r
    ELSE with_params(add_binding(r, FALSE, r.src.blocks[b].params[i].name, ParamNode(b, i)), b, i + 1)

RECURSIVE bind_value(_, _), bind_rest(_, _, _), bind_decl(_, _), bind_block(_, _), bind_chain(_, _, _)
bind_values(r, ns) == bind_rest(r, << >>, ns)

(* The innermost binding of a name, or else the declaration, which is rewritten then.        *)
local_named(r, name) == {i \in DOMAIN r.locals : r.locals[i].name = name}
decl_named(r, name) == {d \in DOMAIN r.src.decls : r.src.decls[d].name = name}
Innermost(r, i) == [r EXCEPT !.v = r.locals[i].node, !.is_var = r.locals[i].is_var]
Declared_as(r, d) == [bind_decl(r, d) EXCEPT !.v = DeclNode(d), !.is_var = r.src.decls[d].tag = "GlobalVariable"]
resolve_using_name(r, name) ==
    CASE local_named(r, name) # {} -> Innermost(r, CHOOSE i \in local_named(r, name) : \A j \in local_named(r, name) : i <= j)
      [] decl_named(r, name) # {} -> Declared_as(r, CHOOSE d \in decl_named(r, name) : TRUE)
      [] OTHER -> fails(r)

(* A place, or Null for what has no address.                                                *)
instruction_at(r, n) == IF n.tag = "Ref" THEN r.src.blocks[n.nums[1]].chain[n.nums[2]] ELSE Null
RECURSIVE get_node_address_maybe(_, _)
element_address(q, index) ==
    IF q.v.tag = "Null" THEN q
    ELSE LET s == bind_value(q, index) IN Value(s, Bare("PtrCompositeElement", << q.v, s.v >>))
variable_address(q) == IF q.is_var THEN q ELSE Value(q, Null)
get_node_address_maybe(r, n) ==
    LET at == instruction_at(r, n)
    IN  CASE at.tag = "Subscript" -> element_address(get_node_address_maybe(r, at.ops[1]), at.ops[2])
          [] at.tag = "Dereference" -> bind_value(r, at.ops[1])
          [] at.tag = "Unbound" -> variable_address(resolve_using_name(r, at.name))
          [] OTHER -> Value(r, Null)
get_node_address(r, n) == LET q == get_node_address_maybe(r, n) IN IF q.v.tag = "Null" THEN fails(q) ELSE q

is_used_as_value(r, n) ==
    n \in r.uses.values \/ (n \in r.uses.subscripted /\ get_node_address_maybe(r, n).v.tag = "Null")

Load(ptr) == Bare("Load", << ptr >>)
Store(ptr, value) == Bare("Store", << ptr, value >>)
StackAlloc(t) == Node("StackAlloc", "", << >>, << >>, << t >>)

bind_unbound(q, b, k) == IF q.is_var THEN Emits(q, b, k, Load(q.v)) ELSE Yields(q, b, k, q.v)
bind_dereference(q, b, k) == Emits(q, b, k, Load(q.v))
bind_subscript(r, q, b, k, n) ==
    IF q.v.tag # "Null" THEN Emits(q, b, k, Load(q.v))
    ELSE LET s == bind_values(r, n.ops) IN Yields(s, b, k, PrimOp("extract", << >>, s.vs))
bind_assign(q, b, k, n) ==
    LET s == bind_value(q, n.ops[2]) IN Emits(s, b, k, Store(q.v, s.v))

(* The values that several names are given are taken out of a composite.                    *)
int32_literal(i) == Node("IntLiteral", "", << i >>, << >>, << int32_type >>)
deconstruct_composite(v, count) ==
    IF count = 1 THEN << v >> ELSE [i \in 1..count |-> PrimOp("extract", << >>, << v, int32_literal(i - 1) >>)]

RECURSIVE bind_names(_, _, _, _)
bind_names(r, i, names, values) ==
    IF i > Len(names) THEN r ELSE bind_names(add_binding(r, FALSE, names[i].name, values[i]), i + 1, names, values)
bind_val_(q, names) == bind_names(q, 1, names, deconstruct_composite(q.v, Len(names)))

(* Every variable starts as the first of the values.                                         *)
RECURSIVE bind_variables(_, _, _, _, _)
stored_in(q, b, name, value) == add_binding(Emitted(q, b, Store(q.v, value)), TRUE, name, q.v)
bind_variables(r, b, names, types, values) ==
    IF names = << >> THEN r
    ELSE bind_variables(stored_in(Emitted(r, b, StackAlloc(bind_type(r.src, Head(types)))), b, Head(names).name, values[1]),
                        b, Tail(names), Tail(types), values)
bind_var_(q, b, names, types) == bind_variables(q, b, names, types, deconstruct_composite(q.v, Len(names)))

(* The names of all the continuations are bound before any of their bodies is rewritten.     *)
named_blocks(r, ops) == bind_names(r, 1, SubSeq(ops, 1, Len(ops) \div 2), SubSeq(ops, Len(ops) \div 2 + 1, Len(ops)))
bind_continuations(q, ops) == bind_values(q, SubSeq(ops, Len(ops) \div 2 + 1, Len(ops)))

recreate(q, n) == Value(q, [n EXCEPT !.ops = q.vs, !.types = bind_types(q.src, @)])
Recreated(r, n) == recreate(bind_values(r, n.ops), n)
emit_recreated(q, b, k) == Emits(q, b, k, q.v)

bind_instruction(r, b, k, n) ==
    CASE n.tag = "Unbound" ->
            IF is_used_as_value(r, Ref(b, k)) THEN bind_unbound(resolve_using_name(r, n.name), b, k) ELSE r
      [] n.tag = "Dereference" ->
            IF is_used_as_value(r, Ref(b, k)) THEN bind_dereference(bind_value(r, n.ops[1]), b, k) ELSE r
      [] n.tag = "AddrOf" -> LET q == get_node_address(r, n.ops[1]) IN Yields(q, b, k, q.v)
      [] n.tag = "Subscript" -> bind_subscript(r, get_node_address_maybe(r, Ref(b, k)), b, k, n)
      [] n.tag = "Assign" -> bind_assign(get_node_address(r, n.ops[1]), b, k, n)
      [] n.tag = "BindVal" -> bind_val_(bind_value(r, n.ops[1]), Tail(n.ops))
      [] n.tag = "BindVar" -> bind_var_(bind_value(r, n.ops[1]), b, Tail(n.ops), n.types)
      [] n.tag = "BindContinuations" -> bind_continuations(named_blocks(r, n.ops), n.ops)
      [] OTHER -> emit_recreated(Recreated(r, n), b, k)

bind_chain(r, b, k) ==
    IF k > Len(r.src.blocks[b].chain) \/ ~r.ok THEN r
    ELSE bind_chain(bind_instruction(r, b, k, r.src.blocks[b].chain[k]), b, k + 1)
bind_terminator(r, b) ==
    LET q == Recreated(r, r.src.blocks[b].body) IN [q EXCEPT !.dst.blocks[b].body = q.v]
bind_body(r, b) == bind_terminator(bind_chain(r, b, 1), b)

(* What a block binds is not seen outside of it.                                             *)
entered(r, b) == [r EXCEPT !.done = @ \cup {<< "Block", b >>}, !.dst.blocks[b].params = bind_params(r.src, @)]
own_name(r, b) ==
    IF r.src.blocks[b].name = "" THEN r ELSE add_binding(r, FALSE, r.src.blocks[b].name, BlockNode(b))
bind_block(r, b) ==
    IF << "Block", b >> \in r.done THEN r
    ELSE [bind_body(with_params(own_name(entered(r, b), b), b, 1), b) EXCEPT !.locals = r.locals]

(* Outside of a body there is no memory to read a variable from.                             *)
bind_pure(q) == IF q.is_var THEN fails(q) ELSE q
bind_value(r, n) ==
    CASE n.tag = "Ref" -> Value(r, IF n.nums \in DOMAIN r.vals THEN r.vals[n.nums] ELSE Null)
      [] n.tag = "Block" -> Value(bind_block(r, n.nums[1]), n)
      [] n.tag = "Unbound" -> bind_pure(resolve_using_name(r, n.name))
      [] OTHER -> Recreated(r, n)
bind_rest(r, vs, ns) ==
    IF ns = << >> THEN Values_(r, vs)
    ELSE LET q == bind_value(r, Head(ns)) IN bind_rest(q, Append(vs, q.v), Tail(ns))

(* A declaration sees no local names.                                                       *)
begin_declaration(r, d) ==
    [r EXCEPT !.done = @ \cup {<< "Decl", d >>}, !.locals = << >>, !.dst.decls[d].types = bind_types(r.src, @)]
bind_function(r, b) ==
    LET q == with_params([r EXCEPT !.done = @ \cup {<< "Block", b >>},
                                   !.dst.blocks[b].params = bind_params(r.src, @)], b, 1)
    IN  IF r.src.blocks[b].body.tag = "Null" THEN q ELSE bind_body(q, b)
rewrite_decl(r, d) ==
    IF r.src.decls[d].tag = "Function" THEN bind_function(begin_declaration(r, d), r.src.decls[d].block)
    ELSE LET q == bind_value(begin_declaration(r, d), r.src.decls[d].value) IN [q EXCEPT !.dst.decls[d].value = q.v]
bind_decl(r, d) ==
    IF << "Decl", d >> \in r.done THEN r ELSE [rewrite_decl(r, d) EXCEPT !.locals = r.locals]

RECURSIVE bind_exported(_, _)
bind_exported(r, d) ==
    CASE d > Len(r.src.decls) -> r
      [] Exported \in elements(r.src.decls[d].annotations) -> bind_exported(bind_decl(r, d), d + 1)
      [] OTHER -> bind_exported(r, d + 1)
slim_pass_bind(m) == bind_exported(Rewriter(m, Uses(m)), 1)

-----------------------------------------------------------------------------
(* A declaration that stands where a value does.                                             *)
RECURSIVE force_to_be_value(_, _)
process_op(m, n) == [n EXCEPT !.ops = [i \in DOMAIN n.ops |-> force_to_be_value(m, n.ops[i])]]
force_to_be_value(m, n) ==
    CASE n.tag # "Decl" -> process_op(m, n)
      [] m.decls[n.nums[1]].tag = "Function" -> Node("FnAddr", "", n.nums, << >>, << >>)
      [] OTHER -> Node("RefDecl", "", n.nums, << >>, << >>)

normalized_block(m, block) ==
    [block EXCEPT !.chain = [k \in DOMAIN @ |-> process_op(m, block.chain[k])], !.body = process_op(m, @)]
slim_pass_normalize(m) ==
    [decls |-> [d \in DOMAIN m.decls |-> [m.decls[d] EXCEPT !.value = force_to_be_value(m, @)]],
     blocks |-> [b \in DOMAIN m.blocks |-> normalized_block(m, m.blocks[b])]]
=============================================================================
