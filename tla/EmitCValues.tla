----------------------------- MODULE EmitCValues -----------------------------
(* The C expressions the back end writes for an operation (emit_c_value.c, dialect C11) and *)
(* what C says they are worth: operands are promoted and converted to a common type before  *)
(* they meet, a literal has the first type its digits fit, and every result is converted    *)
(* to the type of the variable it is bound to.  A signed overflow is taken to wrap.         *)
EXTENDS Folding

(* A C value is a number of one of the types of C, written as those of the intermediate     *)
(* representation: int is IntTy32 wide, long IntTy64.                                       *)
CInt == Int_(IntTy32, TRUE)
CLong == Int_(IntTy64, TRUE)
CUnsignedLong == Int_(IntTy64, FALSE)
c_val(t, v) == [type |-> t, v |-> v]

-----------------------------------------------------------------------------
(* The rules of C (external).                                                               *)
c_ranks == << CInt, Int_(IntTy32, FALSE), CLong, CUnsignedLong, Float >>
c_rank(t) == CHOOSE i \in DOMAIN c_ranks : c_ranks[i] = t
c_common(a, b) == IF c_rank(a.type) < c_rank(b.type) THEN b.type ELSE a.type

c_cast(c, t) == IF c.type = t THEN << c.v >> ELSE Converted(c.v, c.type, t)

c_fits(digits, t) == digits < 2^(IF t.is_signed THEN t.width - 1 ELSE t.width)
c_decimal_type(digits) ==
    CASE c_fits(digits, CInt) -> CInt [] c_fits(digits, CLong) -> CLong [] OTHER -> CUnsignedLong
c_decimal(i) ==
    LET t == c_decimal_type(magnitude(i)) IN c_val(t, stored(i, t))

c_truth(b) == c_val(CInt, IF b THEN 1 ELSE 0)

(* outcome is that of the operator on two values of type t.                                 *)
c_operated(op, t, outcome) ==
    CASE outcome = Undefined -> Undefined
      [] op \in OrderedOps \cup EqualityOps -> << c_truth(outcome[1]) >>
      [] OTHER -> << c_val(t, outcome[1]) >>
c_binary(op, a, b) ==
    LET t == c_common(a, b)
    IN  c_operated(op, t, Binary(op, c_cast(a, t)[1], c_cast(b, t)[1], t))

(* The sign of the left operand alone decides how >> fills up.                              *)
c_shift(operator, a, b) ==
    c_operated(operator, a.type,
               Shifted(CASE operator = "<<" -> "lshift" [] a.type.is_signed -> "rshift_arithm"
                         [] OTHER -> "rshift_logical", a.v, b.v, a.type))

c_conditional(condition, a, b) ==
    LET t == c_common(a, b) IN << c_val(t, c_cast(IF condition.v # 0 THEN a ELSE b, t)[1]) >>

(* A function of the library converts its arguments to the type it takes.                   *)
c_call(op, args, t) ==
    c_operated(op, t, Scalar(op, [i \in DOMAIN args |-> c_cast(args[i], t)[1]], [i \in DOMAIN args |-> t], t))

-----------------------------------------------------------------------------
(* What is printed for an operand: the digits of a literal's container, or a variable.      *)
is_printable(t) == t.tag \in {"Int", "Float", "Bool"}

c_emit_literal(n) == c_decimal(IF typed(n).is_signed THEN signed_value(n.raw, IntTy64) ELSE n.raw)

c_variable(t, v) == IF t.tag = "Bool" THEN c_truth(v) ELSE c_val(t, v)

c_emit_value(n, l) ==
    IF n.tag = "IntLiteral" THEN c_emit_literal(n) ELSE c_variable(typed(n), n.val[l][1])

(* The value is converted to the type of the variable that is declared for it.              *)
c_bind_intermediary_result_AsItIs(c, t) == IF t.tag = "Bool" THEN << c.v # 0 >> ELSE << c.v >>
c_bind_intermediary_result(c, t) == IF t.tag = "Bool" THEN << c.v # 0 >> ELSE c_cast(c, t)
c_bound(outcome, t) == IF outcome = Undefined THEN Undefined ELSE c_bind_intermediary_result(outcome[1], t)

InfixOps == (ArithmeticOps \ {"min", "max"}) \cup BooleanOps \cup OrderedOps \cup EqualityOps
c_type_of(op, ts) == IF op \in {"floor", "ceil", "round", "fma"} THEN Float ELSE ts[1]

(* ops are the C values of the operands; ts their types.                                    *)
emit_primop(op, ops, ts, dst) ==
    CASE op \in InfixOps -> c_binary(op, ops[1], ops[2])
      [] op = "neg" -> c_binary("sub", c_decimal(0), ops[1])
      [] op = "not" -> << c_truth(ops[1].v = 0) >>
      [] op = "lshift" -> c_shift("<<", ops[1], ops[2])
      [] op \in {"rshift_arithm", "rshift_logical"} -> c_shift(">>", ops[1], ops[2])
      [] op = "min" -> c_conditional(c_binary("gt", ops[1], ops[2])[1], ops[2], ops[1])
      [] op = "max" -> c_conditional(c_binary("gt", ops[1], ops[2])[1], ops[1], ops[2])
      [] op = "sign" -> c_conditional(c_binary("gt", ops[1], c_decimal(0))[1], c_decimal(1), c_decimal(-1))
      [] op \in {"abs", "floor", "ceil", "round", "fma"} -> c_call(op, ops, c_type_of(op, ts))
      [] op = "fract" -> c_binary("sub", c_decimal(1), c_call("floor", ops, Float)[1])
      [] op = "select" -> c_conditional(ops[1], ops[2], ops[3])
      [] op = "convert" -> c_operated(op, dst, c_cast(ops[1], dst))
      [] op = "reinterpret" -> << c_val(dst, c_bind_intermediary_result(ops[1], ts[1])[1]) >>
      [] op = "subgroup_assume_uniform" -> << ops[1] >>

c_value(n) ==
    [l \in Lanes |->
        IF \E i \in DOMAIN n.args : n.args[i].val[l] = Undefined THEN Undefined
        ELSE c_bound(emit_primop(n.op, [i \in DOMAIN n.args |-> c_emit_value(n.args[i], l)],
                                 [i \in DOMAIN n.args |-> typed(n.args[i])], typed(n)), typed(n))]

(* What is not written in C, or not modelled: vectors, composites and pointers.             *)
Printable(n) ==
    /\ n.op \notin ExtendedOps /\ is_printable(typed(n))
    /\ \A i \in DOMAIN n.args : is_printable(typed(n.args[i]))
=============================================================================
