------------------------------ MODULE Folding -------------------------------
(* The nodes that compute values, and what the arena does with each before it is interned:  *)
(* the checker gives it a type (check.c) and folding may put another node in its place      *)
(* (fold.c).  A node carries the outcome it has in every lane, computed from its operands.  *)
(* A literal keeps its integer in a container of 64 bits, whatever its width.               *)
EXTENDS ValueSemantics

node(tag, op, args, targ, raw, qt, val) ==
    [tag |-> tag, op |-> op, args |-> args, targ |-> targ, raw |-> raw, type |-> qt, val |-> val]

IllNode == node("Ill", "", << >>, NoType, 0, Ill, Everywhere(Undefined))

param(name, t, is_uniform, vs) ==
    node("Param", name, << >>, NoType, 0, qualified_type(t, is_uniform), [l \in Lanes |-> << vs[l] >>])
int_literal(t, raw) ==
    node("IntLiteral", "", << >>, NoType, raw, qualified_type(t, TRUE), Everywhere(<< raw % 2^t.width >>))
float_literal(halves) ==
    node("FloatLiteral", "", << >>, NoType, halves, qualified_type(Float, TRUE), Everywhere(<< halves >>))
bool_lit(b) ==
    node(IF b THEN "True" ELSE "False", "", << >>, NoType, 0, qualified_type(Bool, TRUE), Everywhere(<< b >>))
undef(t) == node("Undef", "", << >>, NoType, 0, qualified_type(t, TRUE), Everywhere(Undefined))
null_ptr(t) == node("NullPtr", "", << >>, NoType, 0, qualified_type(t, TRUE), Everywhere(<< 0 >>))
constant(value) == node("RefDecl", "", << value >>, NoType, 0, value.type, value.val)

typed(n) == n.type.type
operand_types(args) == [i \in DOMAIN args |-> args[i].type]

resolve_node_to_definition(n) == IF n.tag = "RefDecl" THEN n.args[1] ELSE n
is_int_literal(n) == resolve_node_to_definition(n).tag = "IntLiteral"
is_float_literal(n) == resolve_node_to_definition(n).tag = "FloatLiteral"
raw_value(n) == resolve_node_to_definition(n).raw
get_int_literal_value(n, sign_extend) ==
    LET bits == raw_value(n) % 2^(typed(n).width)
    IN  IF sign_extend THEN signed_value(bits, typed(n).width) ELSE bits

is_literal_of(n, v) == is_int_literal(n) /\ get_int_literal_value(n, FALSE) = v
is_zero(n) == is_literal_of(n, 0)
is_one(n) == is_literal_of(n, 1)

(* The instructions are those of check_type_prim_op and these.                              *)
MemoryOps == {"load", "composite_element", "array_offset"}
GroupOps == {"broadcast_first"}

selectors(args) ==
    [i \in DOMAIN args |->
        IF is_int_literal(args[i])
        THEN selector_of(get_int_literal_value(args[i], TRUE), args[i].tag = "IntLiteral") ELSE NoLiteral]

check_type(op, ts, targ, lits) ==
    CASE op = "composite" -> check_type_composite(ts, targ)
      [] op = "fill" -> check_type_fill(ts[1], targ)
      [] op = "load" -> check_type_load(ts[1])
      [] op = "composite_element" -> check_type_ptr_composite_element(ts, lits)
      [] op = "array_offset" -> check_type_ptr_array_element_offset(ts)
      [] op = "broadcast_first" -> qualified_type(ts[1].type, TRUE)
      [] OTHER -> check_type_prim_op(op, ts, targ, lits)

instruction(op, args, targ, qt) ==
    node("Instruction", op, args, targ, 0, qt,
         Meaning(op, [i \in DOMAIN args |-> args[i].val], [i \in DOMAIN args |-> typed(args[i])], qt.type))

-----------------------------------------------------------------------------
(* Arithmetic on literals is that of the container, without a sign.                         *)
Container(v) == v % 2^IntTy64

fold_int_literals(op, a, b, t) ==
    CASE op = "add" -> int_literal(t, Container(a + b))
      [] op = "sub" -> int_literal(t, Container(a - b))
      [] op = "mul" -> int_literal(t, Container(a * b))
      [] op = "div" -> int_literal(t, a \div b)
      [] op = "mod" -> int_literal(t, a % b)

fold_float_literals(op, a, b) ==
    CASE op = "add" -> float_literal(a + b)
      [] op = "sub" -> float_literal(a - b)
      [] op = "mul" -> float_literal(truncated_quotient(a * b, 2))
      [] op = "div" -> float_literal(truncated_quotient(2 * a, b))
      [] op = "mod" -> float_literal(sign_of(a) * (magnitude(a) % magnitude(b)))

(* The integer a conversion starts from is the literal's own, as a number of the container. *)
fold_convert_literal(n, dst) ==
    LET old_value == Container(get_int_literal_value(n, typed(n).is_signed))
    IN  CASE is_int_literal(n) /\ dst.tag = "Int" -> int_literal(dst, old_value % 2^dst.width)
          [] is_int_literal(n) /\ dst.tag = "Float" -> float_literal(2 * old_value)
          [] is_float_literal(n) /\ dst.tag = "Int" ->
                int_literal(dst, Container(truncated_quotient(raw_value(n), 2)))
          [] OTHER -> IllNode

FoldedBinaryOps == {"add", "sub", "mul", "div", "mod"}

(* Each rule yields nothing, or what stands in place of the node.                           *)
NoFold == << >>

fold_constant_math(n) ==
    LET args == n.args
        all_int_literals == \A i \in DOMAIN args : is_int_literal(args[i])
        all_float_literals == \A i \in DOMAIN args : is_float_literal(args[i])
    IN  CASE ~(all_int_literals \/ all_float_literals) \/ args = << >> -> NoFold
          [] n.op = "neg" -> << IF all_int_literals THEN int_literal(typed(n), Container(-raw_value(args[1])))
                                ELSE float_literal(-raw_value(args[1])) >>
          [] n.op \in FoldedBinaryOps ->
                << IF all_int_literals
                   THEN fold_int_literals(n.op, raw_value(args[1]), raw_value(args[2]), typed(n))
                   ELSE fold_float_literals(n.op, raw_value(args[1]), raw_value(args[2])) >>
          [] n.op = "reinterpret" /\ all_int_literals /\ n.targ.tag = "Int" ->
                << int_literal(n.targ, raw_value(args[1])) >>
          [] n.op = "convert" /\ n.targ.tag \in {"Int", "Float"} -> << fold_convert_literal(args[1], n.targ) >>
          [] OTHER -> NoFold

other(args, i) == args[3 - i]

(* The first operand that decides, in the order the code looks at them.                     *)
fold_neutral(args, v) ==
    CASE is_literal_of(args[1], v) -> << other(args, 1) >>
      [] is_literal_of(args[2], v) -> << other(args, 2) >>
      [] OTHER -> NoFold

fold_mul(args) ==
    CASE is_zero(args[1]) -> << args[1] >>
      [] is_zero(args[2]) -> << args[2] >>
      [] OTHER -> fold_neutral(args, 1)

(* Nodes are interned: two are one if they are made of the same parts.                      *)
RECURSIVE same_node(_, _)
same_node(a, b) ==
    /\ a.tag = b.tag /\ a.op = b.op /\ a.raw = b.raw /\ a.type = b.type /\ a.targ = b.targ
    /\ Len(a.args) = Len(b.args)
    /\ \A i \in DOMAIN a.args : same_node(a.args[i], b.args[i])

fold_simplify_math(n) ==
    CASE n.op = "add" -> fold_neutral(n.args, 0)
      [] n.op = "sub" /\ is_zero(n.args[2]) -> << n.args[1] >>
      [] n.op = "sub" /\ is_zero(n.args[1]) ->
            << instruction("neg", << n.args[2] >>, NoType, n.args[2].type) >>
      [] n.op = "mul" -> fold_mul(n.args)
      [] n.op = "div" /\ is_one(n.args[2]) -> << n.args[1] >>
      [] n.op \in EqualityOps /\ same_node(n.args[1], n.args[2]) -> << bool_lit(n.op = "eq") >>
      [] OTHER -> NoFold

is_cast(n) == n.op \in {"convert", "reinterpret"}

fold_trivial(n) ==
    CASE n.op = "subgroup_assume_uniform" /\ n.args[1].type.is_uniform -> << n.args[1] >>
      [] is_cast(n) /\ n.targ = typed(n.args[1]) -> << n.args[1] >>
      [] OTHER -> NoFold

(* The first rule that applies.                                                             *)
fold_prim_op(n) ==
    LET folded == fold_constant_math(n) \o fold_simplify_math(n) \o fold_trivial(n) \o << n >>
    IN  folded[1]

fold_memory_poison(n) ==
    IF n.args # << >> /\ n.args[1].tag = "Undef" /\ (n.op \in MemoryOps \/ is_cast(n))
    THEN undef(typed(n)) ELSE n

-----------------------------------------------------------------------------
(* A pointer is followed to its source through casts and through elements at offset zero.   *)
RECURSIVE chase(_, _, _, _)
chase_AnyElement(ptr, distance, specialize_generic, src_as) ==
    CASE ptr.tag = "Instruction" /\ ptr.op \in {"reinterpret", "composite_element"} ->
            chase(ptr.args[1], distance + 1, specialize_generic, src_as)
      [] OTHER -> [ptr |-> ptr, distance |-> distance, specialize_generic |-> specialize_generic, src_as |-> src_as]
chase(ptr, distance, specialize_generic, src_as) ==
    CASE ptr.tag = "Instruction" /\ ptr.op = "reinterpret" ->
            chase(ptr.args[1], distance + 1, specialize_generic, src_as)
      [] ptr.tag = "Instruction" /\ ptr.op = "convert" /\ ptr.targ.tag = "PtrType" ->
            IF specialize_generic THEN [ptr |-> IllNode, distance |-> 0, specialize_generic |-> TRUE, src_as |-> src_as]
            ELSE chase(ptr.args[1], distance, TRUE, typed(ptr.args[1]).address_space)
      [] ptr.tag = "Instruction" /\ ptr.op = "composite_element" /\ is_zero(ptr.args[2]) ->
            chase(ptr.args[1], distance + 1, specialize_generic, src_as)
      [] OTHER -> [ptr |-> ptr, distance |-> distance, specialize_generic |-> specialize_generic, src_as |-> src_as]

(* Every node is checked and folded as it is made, those that folding makes too.            *)
RECURSIVE new_node(_, _, _)

reinterpreted(ptr, pointee, as) ==
    IF typed(ptr).tag # "PtrType" \/ typed(ptr).pointed_type # pointee
    THEN new_node("reinterpret", << ptr >>, PtrType(as, pointee))
    ELSE ptr

resolve_ptr_source(ptr) ==
    LET source == chase(ptr, 0, FALSE, typed(ptr).address_space)
    IN  CASE ~(source.distance > 1 \/ source.specialize_generic) -> NoFold
          [] source.ptr.tag = "Ill" -> << IllNode >>
          [] OTHER -> << reinterpreted(source.ptr, typed(ptr).pointed_type, source.src_as) >>

(* If the type is not that of the node any more, the result is converted back to it.        *)
converted_back(r, t) == IF is_qualified_subtype(t, r.type) THEN r ELSE new_node("convert", << r >>, t.type)

with_source(n, source) ==
    IF source = NoFold THEN n
    ELSE converted_back(new_node(n.op, [n.args EXCEPT ![1] = source[1]], n.targ), n.type)

fold_simplify_ptr_operand(n) ==
    IF n.tag = "Instruction" /\ n.op \in MemoryOps THEN with_source(n, resolve_ptr_source(n.args[1])) ELSE n

fold_operation(n) ==
    CASE n.tag # "Instruction" \/ n.op \in {"composite", "fill", "load", "composite_element"} \cup GroupOps -> n
      [] n.op = "array_offset" -> IF is_zero(n.args[2]) THEN n.args[1] ELSE n
      [] OTHER -> fold_prim_op(n)

(* The assertions the code ends with: what the node is replaced by has its type.            *)
keeps_type(original, n) == IF is_qualified_subtype(original.type, n.type) THEN n ELSE IllNode

fold_node(n) == keeps_type(n, fold_operation(fold_simplify_ptr_operand(fold_memory_poison(n))))

checked_node(op, args, targ, qt) == IF qt = Ill THEN IllNode ELSE fold_node(instruction(op, args, targ, qt))

new_node(op, args, targ) ==
    IF \E i \in DOMAIN args : args[i].tag = "Ill" THEN IllNode
    ELSE checked_node(op, args, targ, check_type(op, operand_types(args), targ, selectors(args)))

(* The expressions that passes write: instructions whose operands are nodes or expressions. *)
make(op, args, targ) == [tag |-> "Make", op |-> op, args |-> args, targ |-> targ]
RECURSIVE build(_)
built_operands(es) == CHOOSE args \in { [i \in DOMAIN es |-> build(es[i])] } : TRUE
build(e) == IF e.tag = "Make" THEN new_node(e.op, built_operands(e.args), e.targ) ELSE e
=============================================================================
