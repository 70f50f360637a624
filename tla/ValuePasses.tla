----------------------------- MODULE ValuePasses -----------------------------
(* The passes that replace the operations of a value: lower_int64.c, lower_mask.c,          *)
(* lower_vec_arr.c, lower_fill.c, lower_nullptr.c, lower_subgroup_ops.c,                    *)
(* eliminate_constants.c, and the helpers of int.c they write conversions with.  A pass     *)
(* builds its result in an arena of its own, so everything it writes is checked and folded  *)
(* again.                                                                                   *)
EXTENDS Folding

(* The types of the other arena, and the same value in one of them.                         *)
RECURSIVE rewrite_type(_, _), represented(_, _, _)
rewrite_type(pass, t) ==
    CASE pass = "lower_int64" /\ t.tag = "Int" /\ t.width = IntTy64 -> RecordType(<< int32_type, int32_type >>)
      [] pass = "lower_mask" /\ t.tag = "MaskType" -> uint64_type
      [] pass = "lower_vec_arr" /\ t.tag = "PackType" -> ArrType(rewrite_type(pass, t.element_type), t.size)
      [] t.tag \in {"ArrType", "PackType"} -> [t EXCEPT !.element_type = rewrite_type(pass, @)]
      [] t.tag = "RecordType" -> RecordType([i \in DOMAIN t.members |-> rewrite_type(pass, t.members[i])])
      [] t.tag = "PtrType" -> [t EXCEPT !.pointed_type = rewrite_type(pass, @)]
      [] OTHER -> t

halves(v) == << v % 2^IntTy32, v \div 2^IntTy32 >>

represented(pass, v, t) ==
    CASE pass = "lower_int64" /\ t.tag = "Int" /\ t.width = IntTy64 -> halves(v)
      [] t.tag \in {"ArrType", "PackType", "RecordType"} ->
            [i \in DOMAIN v |-> represented(pass, v[i], composite_element_types(t)[i])]
      [] OTHER -> v
represented_outcome(pass, outcome, t) ==
    IF outcome = Undefined THEN Undefined ELSE << represented(pass, outcome[1], t) >>

-----------------------------------------------------------------------------
(* int.c: integers are converted through the type of the same width or of the same sign.    *)
resigned(t, is_signed) == Int_(t.width, is_signed)

int32_literal(v) == int_literal(int32_type, v % 2^IntTy32)
uint32_literal(v) == int_literal(uint32_type, v)
uint64_literal(v) == int_literal(uint64_type, v)

reinterpret_cast(e, t) == make("reinterpret", << e >>, t)
conversion(e, t) == make("convert", << e >>, t)
binary(op, a, b) == make(op, << a, b >>, NoType)

convert_int_extend_according_to_src_t(dst, e, src) ==
    reinterpret_cast(conversion(e, resigned(dst, src.is_signed)), dst)
convert_int_extend_according_to_dst_t(dst, e, src) ==
    conversion(reinterpret_cast(e, resigned(src, dst.is_signed)), dst)
convert_int_extend(dst, e, src, is_signed) ==
    reinterpret_cast(conversion(reinterpret_cast(e, resigned(src, is_signed)), resigned(dst, is_signed)), dst)
convert_int_zero_extend(dst, e, src) == convert_int_extend(dst, e, src, FALSE)
convert_int_sign_extend(dst, e, src) == convert_int_extend(dst, e, src, TRUE)

-----------------------------------------------------------------------------
(* lower_int64.c: only additions are taken apart.                                           *)
extract_half(src, i) == binary("extract", src, int32_literal(i))
tuple_helper(es, t) == make("composite", es, t)

lower_add_NoCarry(a, b) ==
    LET lo_and_carry == binary("add_carry", extract_half(a, 0), extract_half(b, 0))
        hi == binary("add", extract_half(a, 1), extract_half(b, 1))
    IN  tuple_helper(<< extract_half(lo_and_carry, 0), hi >>, RecordType(<< int32_type, int32_type >>))
lower_add(a, b) ==
    LET lo_and_carry == binary("add_carry", extract_half(a, 0), extract_half(b, 0))
        hi == binary("add", binary("add", extract_half(a, 1), extract_half(b, 1)), extract_half(lo_and_carry, 1))
    IN  tuple_helper(<< extract_half(lo_and_carry, 0), hi >>, RecordType(<< int32_type, int32_type >>))

lower_int_literal(n) ==
    tuple_helper(<< uint32_literal(halves(n.raw)[1]), uint32_literal(halves(n.raw)[2]) >>,
                 RecordType(<< uint32_type, uint32_type >>))

(* lower_mask.c                                                                             *)
lower_mask_is_thread_active(mask, index) ==
    LET shifted == binary("rshift_logical", mask, conversion(index, uint64_type))
    IN  binary("eq", binary("and", shifted, uint64_literal(1)), uint64_literal(1))

(* lower_vec_arr.c: the width is that of the result.                                        *)
ScalarifiedOps ==
    ArithmeticOps \cup ExtendedOps \cup BooleanOps \cup OrderedOps \cup EqualityOps \cup ShiftOps
        \cup FloatOps \cup {"fma", "neg", "not", "abs", "sign"}

scalarify_primop(op, nops, t) ==
    make("composite",
         [i \in 1..t.size |-> make(op, [j \in DOMAIN nops |-> binary("extract", nops[j], int32_literal(i - 1))], NoType)],
         ArrType(t.element_type, t.size))

(* lower_fill.c                                                                             *)
lower_fill_node(value, composite_t) ==
    make("composite", [i \in 1..composite_t.size |-> value], composite_t)

(* lower_nullptr.c: one constant for every type.                                            *)
make_nullptr(t) == constant(build(reinterpret_cast(uint64_literal(0), t)))

-----------------------------------------------------------------------------
(* lower_subgroup_ops.c: what the target does not broadcast is taken apart in a function of *)
(* its type, whose parameter is varying.                                                    *)
is_extended_type(t) == maybe_packed_element(t).tag \in {"Int", "Float"}
is_supported_natively(t, emulate) ==
    \/ t.tag = "Int" /\ t.width = IntTy32
    \/ ~emulate /\ is_extended_type(t)

src_param(n) == node("Param", "src", << >>, NoType, 0, qualified_type(typed(n), FALSE), n.val)

(* A function returns what its type says: a uniform value.                                  *)
returned(n, t) == IF is_qualified_subtype(qualified_type(t, TRUE), n.type) THEN n ELSE IllNode

RECURSIVE build_subgroup_first(_, _), generate(_, _, _)

first_of_halves(param_, t, emulate) ==
    LET hi == build(convert_int_zero_extend(int32_type, binary("rshift_logical", param_, int32_literal(IntTy32)), t))
        lo == build(convert_int_zero_extend(int32_type, param_, t))
        first_hi == convert_int_zero_extend(t, build_subgroup_first(hi, emulate), int32_type)
        first_lo == convert_int_zero_extend(t, build_subgroup_first(lo, emulate), int32_type)
    IN  build(binary("or", first_lo, binary("lshift", first_hi, int32_literal(IntTy32))))

first_of_elements(param_, t, emulate) ==
    build(make("composite",
               [i \in DOMAIN composite_element_types(t) |->
                    build_subgroup_first(build(binary("extract", param_, uint32_literal(i - 1))), emulate)], t))

generate(param_, t, emulate) ==
    CASE t.tag \in {"ArrType", "RecordType"} -> first_of_elements(param_, t, emulate)
      [] t.tag = "Int" /\ t.width = IntTy64 -> first_of_halves(param_, t, emulate)
      [] t.tag = "PtrType" ->
            build(reinterpret_cast(generate(build(reinterpret_cast(param_, uint64_type)), uint64_type, emulate), t))
      [] OTHER -> IllNode

build_subgroup_first(src, emulate) ==
    IF src.tag = "Ill" THEN IllNode
    ELSE IF is_supported_natively(typed(src), emulate) THEN new_node("broadcast_first", << src >>, NoType)
    ELSE returned(generate(src_param(src), typed(src), emulate), typed(src))

-----------------------------------------------------------------------------
(* The rewriters: operands first, then what the pass puts in place of the node.             *)
Passes == {"lower_int64", "lower_mask", "lower_vec_arr", "lower_fill", "lower_nullptr",
           "lower_subgroup_ops", "eliminate_constants"}

recreate(pass, n, args) == make(n.op, args, rewrite_type(pass, n.targ))

(* args are the operands in the new arena.                                                  *)
process(pass, n, args) ==
    CASE pass = "lower_int64" /\ n.op = "add" /\ typed(n) \in {uint64_type, Int_(IntTy64, TRUE)} ->
            build(lower_add(args[1], args[2]))
      [] pass = "lower_mask" /\ n.op = "empty_mask" -> uint64_literal(0)
      [] pass = "lower_mask" /\ n.op = "mask_is_thread_active" ->
            build(lower_mask_is_thread_active(args[1], args[2]))
      [] pass = "lower_vec_arr" /\ n.op \in ScalarifiedOps /\ typed(n).tag = "PackType" ->
            build(scalarify_primop(n.op, args, typed(n)))
      [] pass = "lower_fill" /\ n.op = "fill" -> build(lower_fill_node(args[1], rewrite_type(pass, n.targ)))
      [] pass = "lower_subgroup_ops" /\ n.op = "broadcast_first" -> build_subgroup_first(args[1], TRUE)
      [] OTHER -> build(recreate(pass, n, args))

retyped(pass, n) ==
    [n EXCEPT !.type.type = rewrite_type(pass, @),
              !.val = [l \in Lanes |-> represented_outcome(pass, @[l], typed(n))]]

RECURSIVE rewrite_node(_, _)
rewrite_nodes(pass, ns) == CHOOSE args \in { [i \in DOMAIN ns |-> rewrite_node(pass, ns[i])] } : TRUE
rewrite_node(pass, n) ==
    CASE n.tag = "Instruction" -> process(pass, n, rewrite_nodes(pass, n.args))
      [] n.tag = "RefDecl" -> IF pass = "eliminate_constants" THEN rewrite_node(pass, n.args[1])
                              ELSE constant(rewrite_node(pass, n.args[1]))
      [] n.tag = "IntLiteral" /\ pass = "lower_int64" /\ typed(n).width = IntTy64 -> build(lower_int_literal(n))
      [] n.tag = "NullPtr" /\ pass = "lower_nullptr" -> make_nullptr(typed(n))
      [] n.tag \in {"Param", "Undef", "NullPtr"} -> retyped(pass, n)
      [] OTHER -> n
=============================================================================
