--------------------------- MODULE ValueSemantics ---------------------------
(* What the operations of the intermediate representation compute, lane by lane: the        *)
(* reference that folding, lowering and code generation are compared with.  An outcome is   *)
(* << v >>, or << >> where the operation does not say what it yields (a division by zero, a *)
(* shift by too much).  An integer is the number its bits spell, a float a number of        *)
(* halves, a pointer the address of a word, a composite the sequence of its elements.        *)
EXTENDS IrTypes

CONSTANT Lanes

Undefined == << >>

signed_value(v, bits) == IF v >= 2^(bits - 1) THEN v - 2^bits ELSE v
number(v, t) == IF t.tag = "Int" /\ t.is_signed THEN signed_value(v, t.width) ELSE v
stored(v, t) == IF t.tag = "Int" THEN v % 2^t.width ELSE v

bits_of(t) == IF t.tag = "MaskType" THEN IntTy64 ELSE type_bitwidth(t)

magnitude(a) == IF a < 0 THEN -a ELSE a
truncated_quotient(a, b) ==
    IF (a < 0) = (b < 0) THEN magnitude(a) \div magnitude(b) ELSE -(magnitude(a) \div magnitude(b))
sign_of(a) == CASE a < 0 -> -1 [] a = 0 -> 0 [] OTHER -> 1

Bits(v, n) == [i \in 0..(n - 1) |-> (v \div 2^i) % 2 = 1]
FromBits(b, n) ==
    LET sum[i \in 0..n] == IF i = 0 THEN 0 ELSE sum[i - 1] + (IF b[i - 1] THEN 2^(i - 1) ELSE 0)
    IN  sum[n]
bitwise(op, a, b, n) ==
    FromBits([i \in 0..(n - 1) |-> CASE op = "and" -> Bits(a, n)[i] /\ Bits(b, n)[i]
                                     [] op = "or" -> Bits(a, n)[i] \/ Bits(b, n)[i]
                                     [] op = "xor" -> Bits(a, n)[i] # Bits(b, n)[i]], n)

Ordering(op, a, b) ==
    CASE op = "lt" -> a < b [] op = "lte" -> a <= b [] op = "gt" -> a > b [] op = "gte" -> a >= b

(* Division rounds towards zero.  A remainder is given where all conventions agree on it.   *)
Quotient(a, b, t) ==
    CASE b = 0 -> Undefined
      [] t.tag = "Float" -> IF (2 * a) % magnitude(b) = 0 THEN << truncated_quotient(2 * a, b) >> ELSE Undefined
      [] number(stored(truncated_quotient(a, b), t), t) = truncated_quotient(a, b) ->
            << stored(truncated_quotient(a, b), t) >>
      [] OTHER -> Undefined
Remainder(a, b, t) ==
    IF b = 0 \/ (a < 0) # (b < 0) THEN Undefined ELSE << stored(sign_of(a) * (magnitude(a) % magnitude(b)), t) >>

Product(a, b, t) ==
    CASE t.tag # "Float" -> << stored(a * b, t) >>
      [] (a * b) % 2 = 0 -> << truncated_quotient(a * b, 2) >>
      [] OTHER -> Undefined

Shifted(op, v, a, t) ==
    CASE a >= t.width -> Undefined
      [] op = "lshift" -> << (v * 2^a) % 2^t.width >>
      [] op = "rshift_logical" -> << v \div 2^a >>
      [] op = "rshift_arithm" -> << stored(signed_value(v, t.width) \div 2^a, t) >>

(* t is the type of the first operand.                                                      *)
Unary(op, v, t) ==
    LET n == number(v, t)
    IN  CASE op = "neg" -> << stored(-n, t) >>
          [] op = "not" -> IF t.tag = "Bool" THEN << ~v >>
                           ELSE << 2^bits_of(t) - 1 - v >>
          [] op = "abs" -> << stored(magnitude(n), t) >>
          [] op = "sign" -> IF t.tag = "Float" THEN << 2 * sign_of(n) >> ELSE << stored(sign_of(n), t) >>
          [] op = "floor" -> << 2 * (n \div 2) >>
          [] op = "ceil" -> << -(2 * ((-n) \div 2)) >>
          [] op = "round" -> IF n % 2 = 1 THEN Undefined ELSE << n >>
          [] op = "fract" -> << n % 2 >>

Binary(op, v, w, t) ==
    LET a == number(v, t)
        b == number(w, t)
    IN  CASE op = "add" -> << stored(a + b, t) >>
          [] op = "sub" -> << stored(a - b, t) >>
          [] op = "mul" -> Product(a, b, t)
          [] op = "div" -> Quotient(a, b, t)
          [] op = "mod" -> Remainder(a, b, t)
          [] op = "min" -> << IF a < b THEN v ELSE w >>
          [] op = "max" -> << IF a < b THEN w ELSE v >>
          [] op = "add_carry" -> << << (v + w) % 2^t.width, (v + w) \div 2^t.width >> >>
          [] op = "sub_borrow" -> << << (v - w) % 2^t.width, IF v < w THEN 1 ELSE 0 >> >>
          [] op = "mul_extended" -> << << stored(a * b, t), stored((a * b) \div 2^t.width, t) >> >>
          [] op \in BooleanOps -> << IF t.tag = "Bool"
                                     THEN CASE op = "and" -> v /\ w [] op = "or" -> v \/ w [] op = "xor" -> v # w
                                     ELSE bitwise(op, v, w, bits_of(t)) >>
          [] op \in OrderedOps -> << Ordering(op, a, b) >>
          [] op \in EqualityOps -> << (v = w) = (op = "eq") >>

(* The upper half of the addresses is private to a lane; no object lies in both halves.     *)
PrivateBase == 2^(IntTy64 - 1)
InSpace(address, t) ==
    t.address_space # "Generic" => (t.address_space = "Private") = (address >= PrivateBase)

(* Integers are extended by their own sign; a float loses what is behind the point.         *)
Converted(v, src, dst) ==
    CASE src.tag = "Int" /\ dst.tag = "Int" -> << stored(number(v, src), dst) >>
      [] src.tag = "Int" /\ dst.tag = "Float" -> << 2 * number(v, src) >>
      [] src.tag = "Float" /\ dst.tag = "Int" ->
            LET n == truncated_quotient(v, 2)
            IN  IF number(stored(n, dst), dst) = n THEN << stored(n, dst) >> ELSE Undefined
      [] src.tag = "PtrType" -> IF InSpace(v, src) /\ InSpace(v, dst) THEN << v >> ELSE Undefined
      [] OTHER -> << v >>

Scalar(op, vs, ts, t) ==
    CASE op \in ShiftOps -> Shifted(op, vs[1], vs[2], ts[1])
      [] op = "select" -> << IF vs[1] THEN vs[2] ELSE vs[3] >>
      [] op = "fma" -> IF (vs[1] * vs[2]) % 2 = 0 THEN << truncated_quotient(vs[1] * vs[2], 2) + vs[3] >>
                       ELSE Undefined
      [] op = "convert" -> Converted(vs[1], ts[1], t)
      [] op = "mask_is_thread_active" -> << (vs[1] \div 2^vs[2]) % 2 = 1 >>
      [] op = "empty_mask" -> << 0 >>
      [] op = "reinterpret" -> << vs[1] >>
      [] Len(vs) = 1 -> Unary(op, vs[1], ts[1])
      [] OTHER -> Binary(op, vs[1], vs[2], ts[1])

(* All the elements, if each of them is defined.                                            *)
Whole(outcomes) ==
    IF \E i \in DOMAIN outcomes : outcomes[i] = Undefined THEN Undefined
    ELSE << [i \in DOMAIN outcomes |-> outcomes[i][1]] >>

Elementwise(op, vs, ts, t) ==
    Whole([i \in 1..t.size |-> Scalar(op, [k \in DOMAIN vs |-> vs[k][i]],
                                      [k \in DOMAIN ts |-> maybe_packed_element(ts[k])], t.element_type)])

(* Both halves of every element.                                                            *)
ElementwisePair(op, vs, t) ==
    [h \in 1..2 |-> [i \in 1..t.size |-> Binary(op, vs[1][i], vs[2][i], t.element_type)[1][h]]]

Element(v, i) == IF i \in 0..(Len(v) - 1) THEN << v[i + 1] >> ELSE Undefined
Shuffled(v, is) ==
    Whole([k \in DOMAIN is |-> IF is[k] < 0 THEN << 0 >> ELSE Element(v, is[k])])

(* Sizes, offsets and addresses count words.                                                 *)
RECURSIVE WordsOf(_), OffsetOf(_, _)
WordsOf(t) ==
    CASE t.tag = "RecordType" -> OffsetOf(t, Len(t.members))
      [] t.tag \in {"ArrType", "PackType"} -> t.size * WordsOf(t.element_type)
      [] OTHER -> bits_of(t) \div Word
OffsetOf(t, i) ==
    CASE t.tag # "RecordType" -> i * WordsOf(t.element_type)
      [] i = 0 -> 0
      [] OTHER -> OffsetOf(t, i - 1) + WordsOf(t.members[i])

Moved(address, words) == (address + words) % 2^IntTy64
Displaced(address, words) ==
    IF (address >= PrivateBase) = (Moved(address, words) >= PrivateBase) THEN << Moved(address, words) >> ELSE Undefined

(* vs are the values of the operands in one lane, ts their types.                           *)
Outcome(op, vs, ts, t) ==
    CASE op = "composite" -> << vs >>
      [] op = "fill" -> << [i \in 1..t.size |-> vs[1]] >>
      [] op = "extract" -> Element(vs[1], vs[2])
      [] op = "insert" -> IF vs[3] \in 0..(Len(vs[1]) - 1) THEN << [vs[1] EXCEPT ![vs[3] + 1] = vs[2]] >>
                          ELSE Undefined
      [] op = "shuffle" -> Shuffled(vs[1] \o vs[2], [k \in 1..(Len(vs) - 2) |-> number(vs[k + 2], ts[k + 2])])
      [] op = "composite_element" -> Displaced(vs[1], OffsetOf(ts[1].pointed_type, vs[2]))
      [] op = "array_offset" -> Displaced(vs[1], number(vs[2], ts[2]) * WordsOf(ts[1].pointed_type))
      [] op \in ExtendedOps /\ ts[1].tag = "PackType" -> << ElementwisePair(op, vs, ts[1]) >>
      [] t.tag = "PackType" -> Elementwise(op, vs, ts, t)
      [] OTHER -> Scalar(op, vs, ts, t)

(* From here on over all lanes: vals[k][l] is the outcome of operand k in lane l.           *)
Lanewise(op, vals, ts, t) ==
    [l \in Lanes |-> IF \E k \in DOMAIN vals : vals[k][l] = Undefined THEN Undefined
                     ELSE Outcome(op, [k \in DOMAIN vals |-> vals[k][l][1]], ts, t)]

Uniform(val) == \A l, m \in Lanes : val[l] # Undefined /\ val[m] # Undefined => val[l] = val[m]

FirstLane == CHOOSE l \in Lanes : \A m \in Lanes : l <= m
Everywhere(outcome) == [l \in Lanes |-> outcome]
AssumedUniform(val) == IF Uniform(val) THEN val ELSE Everywhere(Undefined)

(* Memory: what is private to a lane holds other words in every lane.                       *)
WordAt(address, l) == (address + 1 + (IF address >= PrivateBase THEN l ELSE 0)) % 2^Word
RECURSIVE ReadAt(_, _, _)
ReadAt(t, address, l) ==
    IF t.tag \in {"RecordType", "ArrType", "PackType"}
    THEN [i \in DOMAIN composite_element_types(t) |->
            ReadAt(composite_element_types(t)[i], Moved(address, OffsetOf(t, i - 1)), l)]
    ELSE WordAt(address, l)
(* Only what lies within the address space of the pointer may be read.                       *)
Readable(ptr_t, address, words) ==
    /\ Displaced(address, words - 1) # Undefined
    /\ InSpace(address, ptr_t)
LoadedOutcome(t, ptr_t, address, l) ==
    IF Readable(ptr_t, address, WordsOf(t)) THEN << ReadAt(t, address, l) >> ELSE Undefined
Loaded(val, t, ptr_t) ==
    [l \in Lanes |-> IF val[l] = Undefined THEN Undefined ELSE LoadedOutcome(t, ptr_t, val[l][1], l)]

Meaning(op, vals, ts, t) ==
    CASE op = "subgroup_assume_uniform" -> AssumedUniform(vals[1])
      [] op = "broadcast_first" -> Everywhere(vals[1][FirstLane])
      [] op = "load" -> Loaded(vals[1], t, ts[1])
      [] OTHER -> Lanewise(op, vals, ts, t)
=============================================================================
