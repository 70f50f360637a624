-------------------------------- MODULE Values --------------------------------
(* Values built one operation at a time from parameters, literals and constants.  Whatever  *)
(* the arena makes of an operation, whatever a pass turns it into and whatever the back     *)
(* ends write for it has to be worth what the operation means in every lane.                *)
EXTENDS ValuePasses

CONSTANTS Palettes,         \* choices of what the parameters hold in the lanes
          Depth,            \* operations that may be built on top of one another
          AddressDepth      \* and on top of casts of an address

C == INSTANCE EmitCValues
Spirv == INSTANCE EmitSpirvValues

VARIABLES
    palette,                \* what the parameters hold
    made                    \* the operations so far: the node each became, and what it means

valuevars == << palette, made >>

entry(n, meant, qt) == [node |-> n, meant |-> meant, type |-> qt]

-----------------------------------------------------------------------------
(* What values are built from.                                                              *)
int64_type == Int_(IntTy64, TRUE)
pair_type == RecordType(<< int32_type, uint64_type >>)
array_type == ArrType(int32_type, 2)
vector_type == PackType(int32_type, 2)
global_ptr(t) == PtrType("Global", t)

small(p, factor) == [l \in Lanes |-> (factor * l + p) % 2^IntTy32]
wide(p, factor) == [l \in Lanes |-> (factor * l + 3 * p) % 2^IntTy64]
at(address) == [l \in Lanes |-> address]

Integers(p) ==
    << param("x", int32_type, FALSE, small(0, 1)), param("y", int32_type, FALSE, small(p, 1)),
       param("x", uint32_type, FALSE, small(0, 1)), param("y", uint32_type, FALSE, small(p, 3)),
       param("u", int32_type, TRUE, small(p, 0)), param("u", uint32_type, TRUE, small(p, 0)),
       param("x", int64_type, FALSE, wide(p, 5)), param("y", int64_type, FALSE, wide(p, 7)),
       param("x", uint64_type, FALSE, wide(p, 7)), param("y", uint64_type, FALSE, wide(p, 11)) >>
(* Literals as the front ends write them: the bits of the value, whatever its sign.         *)
Literals ==
    << int_literal(int32_type, 0), int_literal(int32_type, 1), int_literal(int32_type, 2^IntTy32 - 1),
       int_literal(uint32_type, 1), int_literal(uint32_type, 2^IntTy32 - 1), int_literal(uint64_type, 2^IntTy32 + 1),
       float_literal(0), float_literal(3), bool_lit(TRUE),
       constant(int_literal(int32_type, 1)), constant(int_literal(uint32_type, 0)) >>
Others(p) ==
    << param("f", Float, FALSE, [l \in Lanes |-> l + p - 3]), param("g", Float, FALSE, [l \in Lanes |-> 2 * l - p]),
       param("c", Bool, FALSE, [l \in Lanes |-> l % 2 = 0]), param("d", Bool, TRUE, [l \in Lanes |-> p = 1]),
       param("m", MaskType, TRUE, wide(p, 0)), undef(int32_type), null_ptr(global_ptr(pair_type)) >>
Composites(p) ==
    << param("v", vector_type, FALSE, [l \in Lanes |-> << l, (l + p) % 2^IntTy32 >>]),
       param("w", vector_type, FALSE, [l \in Lanes |-> << p % 2^IntTy32, (3 * l) % 2^IntTy32 >>]),
       param("r", pair_type, FALSE, [l \in Lanes |-> << l, wide(p, 5)[l] >>]),
       param("t", array_type, FALSE, [l \in Lanes |-> << l, p % 2^IntTy32 >>]) >>
Pointers ==
    << param("p", global_ptr(pair_type), TRUE, at(PrivateBase \div 2)),
       param("q", global_ptr(array_type), TRUE, at(PrivateBase \div 2)),
       param("s", PtrType("Private", pair_type), TRUE, at(PrivateBase)),
       undef(global_ptr(int32_type)) >>

Seeds == [p \in Palettes |-> Integers(p) \o Literals \o Others(p) \o Composites(p) \o Pointers]

(* What an operation may use: the seeds, and the last value that was made.                  *)
Latest == made[Len(made)]
seed_entry(n) == entry(n, n.val, n.type)
Nests(n) ==
    n.tag # "Instruction" \/ n.op \in {"convert", "reinterpret", "composite_element", "array_offset"}
available == (IF made = << >> THEN {} ELSE {0}) \cup 1..Len(Seeds[palette])
chosen(i) == IF i = 0 THEN Latest ELSE seed_entry(Seeds[palette][i])
OfTag(tags) == {i \in available : typed(chosen(i).node).tag \in tags}

-----------------------------------------------------------------------------
(* Operations the code gets wrong: what it makes of them is not compared.                   *)

(* fold.c divides, and converts to a float, the container of a literal as it is.            *)
spells_its_value(n) == is_int_literal(n) => raw_value(n) = number(get_int_literal_value(n, FALSE), typed(n))
FoldsContainer(op, args, targ) ==
    /\ \A i \in DOMAIN args : is_int_literal(args[i])
    /\ op \in {"div", "mod"} \/ (op = "convert" /\ targ = Float)
    /\ ~\A i \in DOMAIN args : spells_its_value(args[i])
(* It stops at a literal divided by zero, and mixes up the bits and the value of a float.   *)
FoldsBadly(op, args, targ) ==
    \/ op \in {"div", "mod"} /\ is_int_literal(args[1]) /\ is_zero(args[2])
    \/ op \in {"div", "mod"} /\ is_float_literal(args[1]) /\ is_float_literal(args[2]) /\ raw_value(args[2]) = 0
    \/ op = "convert" /\ targ = Float /\ is_float_literal(args[1])

(* It takes a vector compared with itself for a single truth value.                         *)
ComparesVectorWithItself(op, args) ==
    op \in EqualityOps /\ typed(args[1]).tag = "PackType" /\ same_node(args[1], args[2])

(* It stops at an address that is converted to the generic address space and back.          *)
ConvertedTwice(op, args, targ) ==
    op = "convert" /\ targ.tag = "PtrType" /\ chase(args[1], 0, FALSE, "Generic").specialize_generic

Foldable(op, args, targ) ==
    /\ ~FoldsContainer(op, args, targ) /\ ~FoldsBadly(op, args, targ)
    /\ ~ComparesVectorWithItself(op, args) /\ ~ConvertedTwice(op, args, targ)

(* The bits of a float are not modelled.  The checker leaves open what a lane of a mask and *)
(* the carry of a float are: nothing asks for a carry of floats, and lower_tailcalls.c for  *)
(* the lane of a mask only.  One side of a conversion of pointers is to be generic, which   *)
(* cast.c says and does not look at; and what the bits of a pointer are in another address  *)
(* space is not said, although fold.c follows them there.                                   *)
RECURSIVE reinterpreted_from(_)
reinterpreted_from(n) == IF n.op = "reinterpret" THEN reinterpreted_from(n.args[1]) ELSE n
StaysInItsSpace(src, t) == src.tag = "PtrType" => src.address_space = t.address_space
WellUsed(op, args, targ) ==
    /\ op = "reinterpret" => typed(args[1]) # Float /\ targ # Float
    /\ op = "reinterpret" /\ targ.tag = "PtrType" => StaysInItsSpace(typed(reinterpreted_from(args[1])), targ)
    /\ op = "convert" /\ targ.tag = "PtrType" => is_generic_ptr_type(typed(args[1])) \/ is_generic_ptr_type(targ)
    /\ op \in ExtendedOps => maybe_packed_element(typed(args[1])) # Float
    /\ op = "mask_is_thread_active" => typed(args[1]) = MaskType /\ typed(args[2]) = uint32_type

-----------------------------------------------------------------------------
UnaryOps == {"neg", "not", "abs", "sign", "subgroup_assume_uniform", "broadcast_first", "load"} \cup FloatOps
BinaryOps == ArithmeticOps \cup ExtendedOps \cup BooleanOps \cup OrderedOps \cup EqualityOps
MixedOps == ShiftOps \cup {"extract", "mask_is_thread_active", "composite_element", "array_offset"}
TernaryOps == {"select", "fma", "insert"}
CastTypes == {int32_type, uint32_type, int64_type, uint64_type, Float, MaskType,
              global_ptr(pair_type), global_ptr(int32_type), global_ptr(array_type), PtrType("Generic", pair_type)}

(* The checker accepts the operation, and folding then decides what it becomes.             *)
Made(op, es, args, targ, qt) ==
    /\ qt # Ill
    /\ WellUsed(op, args, targ) /\ Foldable(op, args, targ)
    /\ made' = Append(made, entry(new_node(op, args, targ),
                                  Meaning(op, [i \in DOMAIN es |-> es[i].meant], [i \in DOMAIN es |-> es[i].type.type],
                                          qt.type), qt))
    /\ UNCHANGED palette

Construct(op, es, targ) ==
    \E args \in { [i \in DOMAIN es |-> es[i].node] } :
        Made(op, es, args, targ, check_type(op, operand_types(args), targ, selectors(args)))

(* Once there is a value that may be used, the next operation uses it.                      *)
LooksThrough(n) ==
    \/ n.op = "composite_element" /\ is_zero(n.args[2])
    \/ is_cast(n) /\ typed(reinterpreted_from(n.args[1])).tag = "PtrType"
MayBuild ==
    made # << >> => /\ Len(made) < (IF LooksThrough(Latest.node) THEN AddressDepth ELSE Depth)
                    /\ Nests(Latest.node)
Build(op, is, targ) ==
    /\ made # << >> => \E k \in DOMAIN is : is[k] = 0
    /\ Len(made) >= Depth => op \in MemoryOps
    /\ Construct(op, [k \in DOMAIN is |-> chosen(is[k])], targ)

Unary_ == MayBuild /\ \E op \in UnaryOps, i \in available : Build(op, << i >>, NoType)
Binary_ ==
    /\ MayBuild
    /\ \E i, j \in available :
        \E op \in (IF typed(chosen(i).node) = typed(chosen(j).node) THEN BinaryOps ELSE {}) \cup MixedOps :
            Build(op, << i, j >>, NoType)
Cast == MayBuild /\ \E op \in {"convert", "reinterpret"}, targ \in CastTypes, i \in available : Build(op, << i >>, targ)
Select ==
    MayBuild /\ \E c \in OfTag({"Bool"}), i, j \in OfTag({"Int", "Float"}) : Build("select", << c, i, j >>, NoType)
Fma == MayBuild /\ \E i, j, k \in OfTag({"Float"}) : Build("fma", << i, j, k >>, NoType)
Insert ==
    MayBuild /\ \E i \in OfTag({"RecordType", "ArrType", "PackType"}), j, k \in OfTag({"Int"}) :
        is_int_literal(chosen(k).node) /\ Build("insert", << i, j, k >>, NoType)
Shuffle ==
    MayBuild /\ \E i, j \in OfTag({"PackType"}), k, l \in OfTag({"Int"}) :
        /\ is_int_literal(chosen(k).node) /\ is_int_literal(chosen(l).node)
        /\ Build("shuffle", << i, j, k, l >>, NoType)
Compose ==
    MayBuild /\ \E t \in {pair_type, array_type, vector_type}, i, j \in OfTag({"Int"}) : Build("composite", << i, j >>, t)
Fill_ == MayBuild /\ \E t \in {array_type, vector_type}, i \in OfTag({"Int"}) : Build("fill", << i >>, t)
EmptyMask == made = << >> /\ Build("empty_mask", << >>, NoType)

ValuesInit == palette \in Palettes /\ made = << >>

ValuesNext == Unary_ \/ Binary_ \/ Cast \/ Select \/ Fma \/ Insert \/ Shuffle \/ Compose \/ Fill_ \/ EmptyMask

ValuesSpec == ValuesInit /\ [][ValuesNext]_valuevars

-----------------------------------------------------------------------------
Agree(val, meant) == \A l \in Lanes : meant[l] # Undefined => val[l] = meant[l]

(* Folding (fold.c) replaces an operation by a node that is worth the same in every lane,   *)
(* whose type is as good: no assertion of the arena fails on the way, whatever casts,       *)
(* constants and neutral elements the operands are made of.                                 *)
FoldExact ==
    made # << >> => /\ Latest.node.tag # "Ill"
                    /\ is_qualified_subtype(Latest.type, Latest.node.type)
                    /\ Agree(Latest.node.val, Latest.meant)

(* A value the checker (check.c) calls uniform is the same in all lanes.                    *)
UniformSound == made # << >> /\ Latest.node.type.is_uniform => Uniform(Latest.meant)

(* What the passes handle; lower_int64.c has no case for the rest.                          *)
IsLiteral(n) == n.tag = "IntLiteral"
Wide(n) == typed(n).tag = "Int" /\ typed(n).width = IntTy64
covers(pass, n) ==
    CASE pass = "lower_int64" -> /\ n.op = "add" /\ Wide(n)
                                 /\ \A i \in DOMAIN n.args : n.args[i].tag = "Param"
      [] pass = "lower_mask" -> typed(n) = MaskType \/ \E i \in DOMAIN n.args : typed(n.args[i]) = MaskType
      [] pass = "lower_vec_arr" -> n.op \in ScalarifiedOps /\ typed(n).tag = "PackType"
      [] pass = "lower_fill" -> n.op = "fill"
      [] pass = "lower_nullptr" -> \E i \in DOMAIN n.args : n.args[i].tag = "NullPtr"
      [] pass = "lower_subgroup_ops" ->
            n.op = "broadcast_first" /\ typed(n).tag \in {"Int", "PtrType", "RecordType", "ArrType"}
      [] pass = "eliminate_constants" -> \E i \in DOMAIN n.args : n.args[i].tag = "RefDecl"
      [] OTHER -> FALSE

Lowered(pass, n, meant, t) ==
    \A lowered \in { rewrite_node(pass, n) } :
        /\ lowered.tag # "Ill"
        /\ is_qualified_subtype(qualified_type(rewrite_type(pass, t.type), t.is_uniform), lowered.type)
        /\ Agree(lowered.val, [l \in Lanes |-> represented_outcome(pass, meant[l], t.type)])

(* What reaches the back ends: constants are eliminated, masks and fills lowered.           *)
resolved(n) == [n EXCEPT !.args = [i \in DOMAIN n.args |-> resolve_node_to_definition(n.args[i])]]
Emitted(n) ==
    /\ n.tag = "Instruction" /\ n.op \notin GroupOps \cup MemoryOps \cup {"fill", "composite", "empty_mask"}
    /\ n.op \notin {"mask_is_thread_active"} /\ typed(n) # MaskType
    /\ \A i \in DOMAIN n.args : n.args[i].tag # "Undef" /\ typed(n.args[i]) # MaskType

(* What emit_c_value.c gets wrong: the bits of integers are not inverted by a !, the sign   *)
(* of a number decides for >>, the sign of zero is -1, the fraction is taken from one, the  *)
(* digits of a literal are those of its container, in a type they fit.                      *)
ComparingOps == OrderedOps \cup EqualityOps \cup {"div", "mod", "min", "max", "sign"} \cup ShiftOps
MistakenByC(n) ==
    \/ n.op = "not" /\ typed(n) # Bool
    \/ n.op = "rshift_arithm" /\ ~typed(n).is_signed
    \/ n.op = "rshift_logical" /\ typed(n).is_signed
    \/ n.op \in {"sign", "fract"}
    \/ n.op = "mod" /\ typed(n) = Float
    \/ n.op \in ComparingOps /\ ~\A i \in DOMAIN n.args : spells_its_value(n.args[i])
    \/ n.op \in ShiftOps /\ IsLiteral(resolved(n).args[1]) /\ Wide(n)

(* Integers brought to another type keep their number, as one of the type whose sign        *)
(* decides, or their bits.                                                                  *)
Resized(n, dst, e, t) ==
    \A built \in { build(e) } :
        built.tag # "Ill" /\ Agree(built.val, [l \in Lanes |-> IF n.val[l] = Undefined THEN Undefined
                                                              ELSE << stored(number(n.val[l][1], t), dst) >>])
IntegersResized(n, src) ==
    \A dst \in {int32_type, uint32_type, int64_type, uint64_type} :
        /\ Resized(n, dst, convert_int_extend_according_to_src_t(dst, n, src), src)
        /\ Resized(n, dst, convert_int_extend_according_to_dst_t(dst, n, src), resigned(src, dst.is_signed))
        /\ Resized(n, dst, convert_int_zero_extend(dst, n, src), resigned(src, FALSE))
        /\ Resized(n, dst, convert_int_sign_extend(dst, n, src), resigned(src, TRUE))

(* The passes that take an operation apart leave one worth the same, of the type the other  *)
(* arena has for it: carries, halves, bits, elements and constants.  The helpers of int.c   *)
(* they widen and narrow integers with extend the sign they are asked to.                   *)
LoweringExact ==
    made # << >> =>
        /\ \A pass \in Passes : covers(pass, Latest.node) => Lowered(pass, Latest.node, Latest.meant, Latest.type)
        /\ Latest.type.type.tag = "Int" /\ Latest.node.op \notin BinaryOps \cup MixedOps \cup TernaryOps =>
               IntegersResized(Latest.node, typed(Latest.node))

(* The instructions the SPIR-V back end selects (emit_spv_value.c) for an operation, and    *)
(* the constants it writes for literals, are worth what the operation means: signs, widths. *)
SpirvExact ==
    made # << >> /\ Emitted(Latest.node) => Agree(Spirv!spv_value(resolved(Latest.node)), Latest.meant)

(* The C expression (emit_c_value.c) is worth it too, whatever the operands are promoted    *)
(* to, whatever type the digits of a literal have, and once converted to the variable's.    *)
CExact ==
    made # << >> /\ Emitted(Latest.node) /\ C!Printable(Latest.node) /\ ~MistakenByC(Latest.node) =>
        Agree(C!c_value(resolved(Latest.node)), Latest.meant)
=============================================================================
