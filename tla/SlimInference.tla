--------------------------- MODULE SlimInference ----------------------------
(* The types of a Slim module (frontend/slim/infer.c), and what the checker demands of its   *)
(* instructions and terminators (check.c).  A number is typed where the rewriter first meets *)
(* it: by what is expected there, or else as an i32, or as an f32 if it has a point.  What   *)
(* comes before an instruction is its operand mem, met after the others where a case of the  *)
(* pass says so.  What has no type, or the wrong one, stops the compiler.  Folding is left   *)
(* out.                                                                                      *)
EXTENDS SlimBinding

Inferring(m) ==
    [src |-> m, ok |-> TRUE, done |-> {}, typed |-> << >>, returns |-> << >>, v |-> Null, vs |-> << >>,
     dst |-> [decls |-> [d \in DOMAIN m.decls |-> [m.decls[d] EXCEPT !.value = Null]],
              blocks |-> [b \in DOMAIN m.blocks |-> [m.blocks[b] EXCEPT !.body = Null]]]]

(* The node with its type, unless the checker rejects it.                                    *)
OfType(r, n, qt) ==
    IF qt = Ill THEN fails(r) ELSE Value(r, [n EXCEPT !.ops = r.vs, !.type = qt])
Leaf(r, n, qt) == OfType(Values_(r, n.ops), n, qt)
must(r, condition) == IF condition THEN r ELSE fails(r)

varying(t) == qualified_type(t, FALSE)
uniform(t) == qualified_type(t, TRUE)
add_qualifiers(types) == [i \in DOMAIN types |-> varying(types[i])]
annotate_all_types(types) ==
    [i \in DOMAIN types |-> IF "is_uniform" \in DOMAIN types[i] THEN types[i] ELSE varying(types[i])]
types_of(vs) == [i \in DOMAIN vs |-> vs[i].type]
get_param_types(r, b) == [i \in DOMAIN r.dst.blocks[b].params |-> r.dst.blocks[b].params[i].type]
expect_nothing(ns) == [i \in DOMAIN ns |-> Ill]

check_arguments_Count(params, args) == Len(params) = Len(args)
check_arguments(params, args) ==
    Len(params) = Len(args) /\ \A i \in DOMAIN params : is_qualified_subtype(params[i], args[i])

-----------------------------------------------------------------------------
(* Values.  expected is Ill where nothing is expected.                                       *)
number_literal(n, t) ==
    IF t.tag = "Int" THEN << [Node("IntLiteral", "", << n.nums[1] >>, << >>, << t >>) EXCEPT !.type = uniform(t)] >>
    ELSE IF t.tag = "Float"
    THEN << [Node("FloatLiteral", "", << 2 * n.nums[1] + n.nums[2] >>, << >>, << t >>) EXCEPT !.type = uniform(t)] >>
    ELSE << >>
default_type(n) == IF n.nums[3] = 0 THEN int32_type ELSE Float
literal_here(n, expected) == number_literal(n, IF expected = Ill THEN default_type(n) ELSE expected.type)

(* The rewriter remembers what each node became: whoever uses a number later gets that.      *)
Remembered(r, at, literal) ==
    IF literal = << >> THEN fails(r) ELSE Value([r EXCEPT !.typed = (at :> literal[1]) @@ @], literal[1])
infer_number(r, n, expected) ==
    IF n.nums[4] \in DOMAIN r.typed THEN Value(r, r.typed[n.nums[4]])
    ELSE Remembered(r, n.nums[4], literal_here(n, expected))

(* The pass is entered again, for an operand, a block, a declaration or what comes before, by *)
(* visit: what is met, and how.                                                              *)
RECURSIVE visit(_, _, _)
infer(r, n, expected) == visit(r, "value", [n |-> n, expected |-> expected])
infer_list(r, vs, ns, expected) == visit(r, "list", [vs |-> vs, ns |-> ns, expected |-> expected])
infer_decl(r, d) == visit(r, "decl", d)
infer_block(r, b) == visit(r, "block", b)
infer_mem(r, b, k) == visit(r, "mem", << b, k >>)
infer_nodes(r, ns, expected) == infer_list(r, << >>, ns, expected)
infer_first(q, vs, ns, expected) == infer_list(q, Append(vs, q.v), Tail(ns), Tail(expected))
visit_list(r, vs, ns, expected) ==
    IF ns = << >> \/ ~r.ok THEN Values_(r, vs) ELSE infer_first(infer(r, Head(ns), Head(expected)), vs, ns, expected)

infer_constrained(r, n, expected) ==
    infer(must(r, expected # Ill => is_subtype(expected.type, n.types[1])), n.ops[1],
          qualified_type(n.types[1], expected # Ill /\ expected.is_uniform))

infer_int_literal(r, n, expected) ==
    Leaf(must(r, expected # Ill => expected.type.tag = "Int" /\ expected.type.width = n.types[1].width), n, uniform(n.types[1]))

(* A composite without a type is a tuple; the code cannot make one of what is expected.      *)
tuple(q, n) ==
    LET t == RecordType([i \in DOMAIN q.vs |-> q.vs[i].type.type])
    IN  OfType(q, n, check_type_composite(types_of(q.vs), t))
infer_tuple(r, n, expected) ==
    LET q == infer_nodes(must(r, expected = Ill), n.ops, expect_nothing(n.ops)) IN IF q.ok THEN tuple(q, n) ELSE q
typed_composite(q, n, t) == IF q.ok THEN OfType(q, n, check_type_composite(types_of(q.vs), t)) ELSE q
infer_composite(r, n, expected, t) ==
    LET members == composite_element_types(t)
        q == must(r, (expected # Ill => is_subtype(expected.type, t)) /\ Len(n.ops) <= Len(members))
    IN  IF q.ok THEN typed_composite(infer_nodes(q, n.ops, [i \in DOMAIN n.ops |-> varying(members[i])]), n, t) ELSE q

literal_of(m, v) == IF v.tag = "RefDecl" /\ m.decls[v.nums[1]].tag = "Constant" THEN m.decls[v.nums[1]].value ELSE v
literals(m, vs) ==
    [i \in DOMAIN vs |->
        IF literal_of(m, vs[i]).tag # "IntLiteral" THEN NoLiteral
        ELSE selector_of(number(stored(literal_of(m, vs[i]).nums[1], literal_of(m, vs[i]).types[1]), literal_of(m, vs[i]).types[1]),
                         vs[i].tag = "IntLiteral")]

CastOps == {"reinterpret", "convert"}
MaskOps == {"empty_mask", "mask_is_thread_active"}
mask_operand_types == << varying(MaskType), varying(uint32_type) >>
(* A cast to or from generic pointers is a conversion, whatever it was called.               *)
cast_op(op, src, dst) ==
    IF op \in CastOps /\ is_generic_ptr_type(src.type) # is_generic_ptr_type(dst) THEN "convert" ELSE op
dst_type(n) == IF n.types = << >> THEN NoType ELSE n.types[1]
rebuild(q, n, op) ==
    OfType(q, [n EXCEPT !.name = op], check_type_prim_op(op, types_of(q.vs), dst_type(n), literals(q.dst, q.vs)))
infer_operands(r, n) ==
    IF n.name \in MaskOps THEN infer_nodes(must(r, Len(n.ops) = 2), n.ops, mask_operand_types)
    ELSE infer_nodes(r, n.ops, expect_nothing(n.ops))
infer_primop(r, n) ==
    LET q == infer_operands(r, n)
    IN  IF q.ok THEN rebuild(q, n, IF n.name \in CastOps THEN cast_op(n.name, q.vs[1].type, dst_type(n)) ELSE n.name) ELSE q

fn_type(r, d) == FnType(get_param_types(r, r.dst.decls[d].block), r.dst.decls[d].types)
ref_decl(r, n, decl) ==
    CASE decl.tag = "Constant" -> Leaf(r, n, uniform(decl.types[1]))
      [] decl.tag = "GlobalVariable" -> Leaf(r, n, uniform(PtrType(decl.as, decl.types[1])))
      [] OTHER -> fails(r)
infer_ref_decl(q, n) == IF q.ok THEN ref_decl(q, n, q.dst.decls[n.nums[1]]) ELSE q
infer_fn_addr(q, n) == IF q.ok THEN Leaf(q, n, uniform(PtrType("Generic", fn_type(q, n.nums[1])))) ELSE q

element_place(q, n) ==
    IF q.ok THEN OfType(q, n, check_type_ptr_composite_element(types_of(q.vs), literals(q.dst, q.vs))) ELSE q

infer_ref(q, n) == IF q.ok THEN Leaf(q, n, q.dst.blocks[n.nums[1]].chain[n.nums[2]].type) ELSE q

visit_value(r, n, expected) ==
    CASE ~r.ok -> r
      [] n.tag = "Ref" -> infer_ref(infer_mem(r, n.nums[1], n.nums[2]), n)
      [] n.tag = "Param" -> Leaf(r, n, r.dst.blocks[n.nums[1]].params[n.nums[2]].type)
      [] n.tag = "UntypedNumber" -> infer_number(r, n, expected)
      [] n.tag = "IntLiteral" -> infer_int_literal(r, n, expected)
      [] n.tag \in {"True", "False"} -> Leaf(r, n, uniform(Bool))
      [] n.tag = "StringLiteral" -> Leaf(r, n, uniform(ArrType(NumericalTypes.i8, 0)))
      [] n.tag = "Constrained" -> infer_constrained(r, n, expected)
      [] n.tag = "Composite" -> IF n.types = << >> THEN infer_tuple(r, n, expected) ELSE infer_composite(r, n, expected, n.types[1])
      [] n.tag = "PrimOp" -> infer_primop(r, n)
      [] n.tag = "PtrCompositeElement" -> element_place(infer_nodes(r, n.ops, expect_nothing(n.ops)), n)
      [] n.tag = "RefDecl" -> infer_ref_decl(infer_decl(r, n.nums[1]), n)
      [] n.tag = "FnAddr" -> infer_fn_addr(infer_decl(r, n.nums[1]), n)
      [] OTHER -> fails(r)

-----------------------------------------------------------------------------
(* Instructions.                                                                            *)
(* All the instructions of block b up to the one at k.                                       *)
After_mem(q, b, k) == IF q.ok THEN [infer_mem(q, b, k) EXCEPT !.v = q.v, !.vs = q.vs] ELSE q
linked(q, b, k) ==
    IF q.ok THEN [q EXCEPT !.dst.blocks[b].chain[k] = q.v, !.done = @ \cup {<< "Ref", b, k >>}] ELSE q
is_ptr(qt) == qt.type.tag = "PtrType"
is_fn_ptr(qt) == is_ptr(qt) /\ qt.type.address_space = "Generic" /\ qt.type.pointed_type.tag = "FnType"

(* What several results come as has no qualifier: nothing can be made of it.                 *)
MultipleReturn(types) == uniform([tag |-> "MultipleReturn", members |-> types])
maybe_multiple_return(types) == IF Len(types) = 1 THEN types[1] ELSE MultipleReturn(types)
Operands(q, n, qt) == IF q.ok THEN OfType(q, n, qt) ELSE q

infer_load(q, n) == IF q.ok THEN OfType(Values_(q, << q.v >>), n, check_type_load(q.v.type)) ELSE q
stored_value(q, ptr, n, t) ==
    IF q.ok /\ is_subtype(t, q.v.type.type) THEN OfType(Values_(q, << ptr, q.v >>), n, MultipleReturn(<< >>)) ELSE fails(q)
infer_store(q, n) ==
    IF ~q.ok \/ ~is_ptr(q.v.type) THEN fails(q)
    ELSE stored_value(infer(q, n.ops[2], varying(q.v.type.type.pointed_type)), q.v, n, q.v.type.type.pointed_type)

called(q, callee, n) ==
    IF q.ok /\ check_arguments(callee.type.type.pointed_type.param_types, types_of(q.vs))
    THEN OfType(Values_(q, << callee >> \o q.vs), n, maybe_multiple_return(callee.type.type.pointed_type.return_types))
    ELSE fails(q)
infer_indirect_call(q, n) ==
    IF ~q.ok \/ ~is_fn_ptr(q.v.type) THEN fails(q)
    ELSE IF Len(q.v.type.type.pointed_type.param_types) # Len(n.ops) - 1 THEN fails(q)
    ELSE called(infer_nodes(q, Tail(n.ops), q.v.type.type.pointed_type.param_types), q.v, n)

infer_printf(r, n) == Operands(infer_nodes(r, n.ops, expect_nothing(n.ops)), n, MultipleReturn(<< >>))
infer_instruction(r, n) ==
    CASE n.tag = "Load" -> infer_load(infer(r, n.ops[1], Ill), n)
      [] n.tag = "Store" -> infer_store(infer(r, n.ops[1], Ill), n)
      [] n.tag = "StackAlloc" ->
            Leaf(r, n, checked(is_data_type(n.types[1]), PtrType("Private", n.types[1]), is_addr_space_uniform("Private")))
      [] n.tag = "Call" -> infer_indirect_call(infer(r, n.ops[1], Ill), n)
      [] OTHER -> fails(r)
infer_at(r, b, k, n) ==
    IF n.tag = "DebugPrintf" THEN linked(infer_printf(infer_mem(r, b, k - 1), n), b, k)
    ELSE linked(After_mem(infer_instruction(r, n), b, k - 1), b, k)
visit_mem(r, b, k) ==
    IF k = 0 \/ << "Ref", b, k >> \in r.done \/ ~r.ok THEN r ELSE infer_at(r, b, k, r.src.blocks[b].chain[k])

-----------------------------------------------------------------------------
(* Terminators.  Nothing is expected of what a branch of a construct ends with.              *)
Ends(q, b) == IF q.ok THEN [q EXCEPT !.dst.blocks[b].body = q.v] ELSE q
WithOperands(q, n) == IF q.ok THEN Value(q, [n EXCEPT !.ops = q.vs]) ELSE q
infer_returned(r, n) ==
    IF Len(n.ops) <= Len(r.returns) THEN WithOperands(infer_nodes(r, n.ops, SubSeq(r.returns, 1, Len(n.ops))), n) ELSE fails(r)
infer_passed(r, n) == WithOperands(infer_nodes(r, n.ops, expect_nothing(n.ops)), n)

jumped(q, n) ==
    IF q.ok /\ check_arguments(get_param_types(q, n.ops[1].nums[1]), types_of(q.vs))
    THEN Value(q, [n EXCEPT !.ops = << n.ops[1] >> \o q.vs]) ELSE fails(q)
infer_jump(r, n) ==
    IF ~r.ok \/ n.ops[1].tag # "Block" THEN fails(r)
    ELSE jumped(infer_nodes(infer_block(r, n.ops[1].nums[1]), Tail(n.ops), expect_nothing(Tail(n.ops))), n)

with_false_jump(q, n, condition, jump) == IF q.ok THEN Value(q, [n EXCEPT !.ops = << condition, jump, q.v >>]) ELSE q
with_true_jump(q, n, condition) == with_false_jump(infer_jump(q, n.ops[3]), n, condition, q.v)
infer_branch(q, n) == with_true_jump(infer_jump(q, n.ops[2]), n, q.v)

joined(q, n) ==
    IF ~q.ok THEN q
    ELSE IF q.vs[1].type.type.tag # "JoinPointType" THEN fails(q)
    ELSE WithOperands(must(q, check_arguments(add_qualifiers(q.vs[1].type.type.yield_types), types_of(Tail(q.vs)))), n)
infer_join(r, n) == joined(infer_nodes(r, n.ops, expect_nothing(n.ops)), n)

(* A function that is called at the end returns nothing.  Nothing is expected of arguments.  *)
infer_tail_call(q, n) ==
    IF ~q.ok THEN q
    ELSE IF ~is_fn_ptr(q.vs[1].type) THEN fails(q)
    ELSE WithOperands(must(q, /\ check_arguments(q.vs[1].type.type.pointed_type.param_types, types_of(Tail(q.vs)))
                              /\ q.vs[1].type.type.pointed_type.return_types = << >>), n)

optional_block(r, n) == IF n.tag = "Null" THEN r ELSE infer_block(r, n.nums[1])
infer_blocks(r, t, f, tail) == infer_block(optional_block(infer_block(r, t.nums[1]), f), tail.nums[1])
check_type_if(q, n, condition) ==
    must(q, /\ condition.type.type = Bool
            /\ n.types # << >> => n.ops[3].tag # "Null"
            /\ check_arguments(get_param_types(q, n.ops[4].nums[1]), add_qualifiers(n.types)))
infer_if(q, n) ==
    IF ~q.ok THEN q
    ELSE Value(check_type_if(infer_blocks(q, n.ops[2], n.ops[3], n.ops[4]), n, q.v), [n EXCEPT !.ops[1] = q.v])

infer_loop_body(q, n) ==
    LET s == infer_blocks(q, n.ops[1], Null, n.ops[2])
    IN  IF s.ok THEN Value(s, [n EXCEPT !.ops = << n.ops[1], n.ops[2] >> \o q.vs]) ELSE s
infer_loop(r, n) ==
    LET params == annotate_all_types(get_param_types(r, n.ops[1].nums[1]))
    IN  infer_loop_body(infer_nodes(must(r, Len(params) = Len(n.ops) - 2), Rest(n.ops, 3), params), n)

(* The join point of a control is the same for all the lanes that enter it together.         *)
control_case(r, b, n) == [r EXCEPT !.src.blocks[b].params[1].type = uniform(JoinPointType(n.types))]
infer_control(r, n) ==
    LET q == infer_blocks(control_case(r, n.ops[1].nums[1], n), n.ops[1], Null, n.ops[2])
    IN  Value(must(q, Len(q.dst.blocks[n.ops[2].nums[1]].params) = Len(n.types)), n)

(* These come before what leads to them, the others after it.                                *)
MemLast == {"Return", "If", "Loop", "Control"}
infer_terminator(r, n) ==
    CASE n.tag = "Return" -> infer_returned(r, n)
      [] n.tag \in {"MergeSelection", "MergeContinue", "MergeBreak", "Unreachable"} -> infer_passed(r, n)
      [] n.tag = "Jump" -> infer_jump(r, n)
      [] n.tag = "Branch" -> infer_branch(infer(r, n.ops[1], Ill), n)
      [] n.tag = "Join" -> infer_join(r, n)
      [] n.tag = "TailCall" -> infer_tail_call(infer_nodes(r, n.ops, expect_nothing(n.ops)), n)
      [] n.tag = "If" -> infer_if(infer(r, n.ops[1], varying(Bool)), n)
      [] n.tag = "Loop" -> infer_loop(r, n)
      [] n.tag = "Control" -> infer_control(r, n)
      [] OTHER -> fails(r)

-----------------------------------------------------------------------------
(* Abstractions and declarations.                                                           *)
infer_body_of(r, b, n, k) ==
    IF n.tag \in MemLast THEN Ends(After_mem(infer_terminator(r, n), b, k), b)
    ELSE Ends(infer_terminator(infer_mem(r, b, k), n), b)
infer_body(r, b) == IF r.ok THEN infer_body_of(r, b, r.src.blocks[b].body, Len(r.src.blocks[b].chain)) ELSE r

(* A parameter has a qualified type.                                                        *)
infer_params(r, b) ==
    must([r EXCEPT !.done = @ \cup {<< "Block", b >>}, !.dst.blocks[b].params = r.src.blocks[b].params],
         \A i \in DOMAIN r.src.blocks[b].params :
            "is_uniform" \in DOMAIN r.src.blocks[b].params[i].type /\ is_data_type(r.src.blocks[b].params[i].type.type))
visit_block(r, b) ==
    IF << "Block", b >> \in r.done \/ ~r.ok THEN r ELSE infer_body(infer_params(r, b), b)

function_head(r, d, b) ==
    [infer_params(r, b) EXCEPT !.dst.decls[d].types = annotate_all_types(r.src.decls[d].types),
                               !.returns = annotate_all_types(r.src.decls[d].types)]
infer_function(r, d, b) ==
    LET q == function_head(r, d, b)
    IN  IF ~q.ok \/ r.src.blocks[b].body.tag = "Null" THEN q ELSE infer_body(q, b)

(* A constant has the type it says, or that of its value.                                    *)
constant_of(q, d) ==
    IF q.ok THEN [q EXCEPT !.dst.decls[d].value = q.v, !.dst.decls[d].types = << q.v.type.type >>] ELSE q
infer_constant(r, d, decl) ==
    constant_of(infer(r, decl.value, IF decl.types = << >> THEN Ill ELSE uniform(decl.types[1])), d)
initialised(q, d) == IF q.ok THEN [q EXCEPT !.dst.decls[d].value = q.v] ELSE q
infer_global(r, d, decl) ==
    IF decl.value.tag = "Null" THEN r ELSE initialised(infer(r, decl.value, uniform(decl.types[1])), d)

declared(r, d, decl) ==
    CASE decl.tag = "Function" -> infer_function(r, d, decl.block)
      [] decl.tag = "Constant" -> infer_constant(r, d, decl)
      [] decl.tag = "GlobalVariable" -> infer_global(must(r, is_data_type(decl.types[1])), d, decl)
      [] OTHER -> r
visit_decl(r, d) ==
    IF << "Decl", d >> \in r.done \/ ~r.ok THEN r
    ELSE [declared([r EXCEPT !.done = @ \cup {<< "Decl", d >>}], d, r.src.decls[d]) EXCEPT !.returns = r.returns]

infer_exported(r, d) == visit(r, "exported", d)
visit_exported(r, d) ==
    CASE d > Len(r.src.decls) -> r
      [] Exported \in elements(r.src.decls[d].annotations) -> infer_exported(infer_decl(r, d), d + 1)
      [] OTHER -> infer_exported(r, d + 1)

visit(r, what, x) ==
    CASE what = "exported" -> visit_exported(r, x)
      [] what = "decl" -> visit_decl(r, x)
      [] what = "block" -> visit_block(r, x)
      [] what = "mem" -> visit_mem(r, x[1], x[2])
      [] what = "list" -> visit_list(r, x.vs, x.ns, x.expected)
      [] what = "value" -> visit_value(r, x.n, x.expected)
slim_pass_infer(m) == infer_exported(Inferring(m), 1)
=============================================================================
