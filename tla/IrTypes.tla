------------------------------ MODULE IrTypes -------------------------------
(* The types of values (ir/type.c, ir/cast.c, ir/composite.c) and what the checker demands  *)
(* of the instructions that compute them (check.c): the type of every value says whether    *)
(* all lanes of the subgroup hold the same one.  A failed assertion yields the type Ill.    *)
(* Nominal types, images and functions are left out.                                        *)
EXTENDS Integers, Sequences, FiniteSets

CONSTANT Word               \* the bits that stand for the 32 of IntTy32; IntTy64 has twice as many

IntTy32 == Word
IntTy64 == 2 * Word

Int_(width, is_signed) == [tag |-> "Int", width |-> width, is_signed |-> is_signed]
Float == [tag |-> "Float", width |-> IntTy32]
Bool == [tag |-> "Bool"]
MaskType == [tag |-> "MaskType"]
NoType == [tag |-> "NotAType"]
RecordType(members) == [tag |-> "RecordType", members |-> members]
ArrType(element_type, size) == [tag |-> "ArrType", element_type |-> element_type, size |-> size]
PackType(element_type, width) == [tag |-> "PackType", element_type |-> element_type, size |-> width]
PtrType(address_space, pointed_type) ==
    [tag |-> "PtrType", address_space |-> address_space, pointed_type |-> pointed_type]

qualified_type(type, is_uniform) == [type |-> type, is_uniform |-> is_uniform]
Ill == qualified_type(NoType, FALSE)

uint32_type == Int_(IntTy32, FALSE)
int32_type == Int_(IntTy32, TRUE)
uint64_type == Int_(IntTy64, FALSE)

-----------------------------------------------------------------------------
(* Classes of types.                                                                        *)
RECURSIVE is_data_type(_)
is_data_type(t) ==
    CASE t.tag \in {"ArrType", "PackType"} -> is_data_type(t.element_type)
      [] t.tag = "RecordType" -> \A i \in DOMAIN t.members : is_data_type(t.members[i])
      [] OTHER -> t # NoType

is_arithm_type(t) == t.tag \in {"Int", "Float"}
is_ordered_type(t) == is_arithm_type(t)
has_boolean_ops(t) == t.tag \in {"Int", "Bool", "MaskType"}
is_generic_ptr_type(t) == t.tag = "PtrType" /\ t.address_space = "Generic"

(* Lanes that read one address of such a space read one value.                              *)
is_addr_space_uniform(as) == as \notin {"Generic", "Input", "Output", "Function", "Private"}

(* subtype.tag = supertype.tag is the first test of the code.  A size of zero is that of an *)
(* array whose size is not known.                                                           *)
RECURSIVE is_subtype(_, _)
is_subtype(supertype, type) ==
    /\ supertype.tag = type.tag
    /\ \/ type = supertype
       \/ /\ type.tag = "RecordType"
          /\ Len(supertype.members) = Len(type.members)
          /\ \A i \in DOMAIN type.members : is_subtype(supertype.members[i], type.members[i])
       \/ /\ type.tag = "PtrType"
          /\ supertype.address_space = type.address_space
          /\ is_subtype(supertype.pointed_type, type.pointed_type)
       \/ /\ type.tag \in {"ArrType", "PackType"}
          /\ is_subtype(supertype.element_type, type.element_type)
          /\ supertype.size \in {type.size} \cup (IF type.tag = "ArrType" THEN {0} ELSE {})

is_qualified_subtype(supertype, type) ==
    /\ supertype.is_uniform => type.is_uniform
    /\ is_subtype(supertype.type, type.type)

maybe_packed_element(t) == IF t.tag = "PackType" THEN t.element_type ELSE t
maybe_packed_width(t) == IF t.tag = "PackType" THEN t.size ELSE 1
maybe_packed_type(t, width) == IF width = 1 THEN t ELSE PackType(t, width)

composite_element_types(t) ==
    IF t.tag = "RecordType" THEN t.members ELSE [i \in 1..t.size |-> t.element_type]

(* 0 for SIZE_MAX, which types without a width have, masks too.                             *)
type_bitwidth(t) ==
    CASE t.tag \in {"Int", "Float"} -> t.width [] t.tag = "PtrType" -> IntTy64 [] OTHER -> 0

-----------------------------------------------------------------------------
(* Casts.                                                                                   *)
is_reinterpret_cast_legal(src, dst) ==
    \/ src = dst
    \/ /\ \A t \in {src, dst} : is_arithm_type(t) \/ t.tag \in {"MaskType", "PtrType"}
       /\ type_bitwidth(src) = type_bitwidth(dst)
       /\ {src.tag, dst.tag} = {"PtrType"} => (is_generic_ptr_type(src) = is_generic_ptr_type(dst))

(* A conversion of integers changes the sign or the width; one of pointers is from or to    *)
(* the generic address space and keeps the type of the element.                             *)
is_conversion_legal(src, dst) ==
    /\ \A t \in {src, dst} : is_arithm_type(t) \/ t.tag = "PtrType"
    /\ (src.tag = "PtrType") = (dst.tag = "PtrType")
    /\ ~(is_generic_ptr_type(src) /\ is_generic_ptr_type(dst))
    /\ {src.tag, dst.tag} = {"Int"} => ~(src.is_signed # dst.is_signed /\ src.width # dst.width)
    /\ src.tag = "PtrType" => src.pointed_type = dst.pointed_type

-----------------------------------------------------------------------------
(* What an instruction demands of its operands and what its result is.  ts are the types of *)
(* the operands, lits the integers the operands resolve to, or NoLiteral, and whether they  *)
(* are literals themselves or constants that stand for one.                                 *)
selector_of(value, direct) == [value |-> value, direct |-> direct]
NoLiteral == selector_of(-1, FALSE)

ShiftOps == {"lshift", "rshift_arithm", "rshift_logical"}
ExtendedOps == {"add_carry", "sub_borrow", "mul_extended"}
ArithmeticOps == {"min", "max", "add", "sub", "mul", "div", "mod"}
BooleanOps == {"and", "or", "xor"}
OrderedOps == {"lt", "lte", "gt", "gte"}
EqualityOps == {"eq", "neq"}
FloatOps == {"floor", "ceil", "round", "fract"}

checked(condition, t, u) == IF condition THEN qualified_type(t, u) ELSE Ill
all_uniform(ts) == \A i \in DOMAIN ts : ts[i].is_uniform
same_types(ts) == \A i \in DOMAIN ts : ts[i].type = ts[1].type
element(ts, i) == maybe_packed_element(ts[i].type)
width(ts, i) == maybe_packed_width(ts[i].type)

check_unary(ts, allowed) == checked(Len(ts) = 1 /\ allowed, ts[1].type, ts[1].is_uniform)

check_signed(ts) ==
    check_unary(ts, \/ element(ts, 1).tag = "Float"
                    \/ element(ts, 1).tag = "Int" /\ element(ts, 1).is_signed)

check_shift(ts) ==
    checked(/\ width(ts, 1) = width(ts, 2)
            /\ element(ts, 1).tag = "Int" /\ element(ts, 2).tag = "Int",
            ts[1].type, all_uniform(ts))

check_arithmetic(ts) == checked(is_arithm_type(element(ts, 1)) /\ same_types(ts), ts[1].type, all_uniform(ts))

check_extended(ts) ==
    checked(is_arithm_type(element(ts, 1)) /\ same_types(ts),
            RecordType(<<ts[1].type, ts[1].type>>), all_uniform(ts))

check_boolean(ts) == checked(has_boolean_ops(element(ts, 1)) /\ same_types(ts), ts[1].type, all_uniform(ts))

check_comparison(ts, ordered) ==
    checked((ordered => is_ordered_type(element(ts, 1))) /\ same_types(ts),
            maybe_packed_type(Bool, width(ts, 1)), all_uniform(ts))

check_fma(ts) == checked(element(ts, 1).tag = "Float" /\ same_types(ts), ts[1].type, all_uniform(ts))

check_select(ts) ==
    checked(/\ width(ts, 2) = width(ts, 1) /\ width(ts, 3) = width(ts, 1)
            /\ is_subtype(Bool, element(ts, 1))
            /\ element(ts, 2) = element(ts, 3),
            ts[2].type, all_uniform(ts))

(* A record is entered at what resolves to a literal, a vector at a literal itself, an array *)
(* anywhere.                                                                                *)
enter_composite_type(t, selector, lit) ==
    CASE selector.tag # "Int" -> NoType
      [] t.tag = "RecordType" -> IF lit.value \in 0..(Len(t.members) - 1) THEN t.members[lit.value + 1] ELSE NoType
      [] t.tag = "ArrType" -> t.element_type
      [] t.tag = "PackType" -> IF lit.direct /\ lit.value \in 0..(t.size - 1) THEN t.element_type ELSE NoType
      [] OTHER -> NoType

check_extract(ts, lits) ==
    LET t == enter_composite_type(ts[1].type, ts[2].type, lits[2])
    IN  checked(t # NoType, t, ts[1].is_uniform /\ ts[2].is_uniform)

check_insert(ts, lits) ==
    LET t == enter_composite_type(ts[1].type, ts[3].type, lits[3])
    IN  checked(t # NoType /\ is_subtype(t, ts[2].type), ts[1].type, all_uniform(ts))

(* A negative index stands for an element nobody cares about.                               *)
check_shuffle(ts, lits) ==
    checked(/\ ts[1].type.tag = "PackType" /\ ts[2].type.tag = "PackType"
            /\ element(ts, 1) = element(ts, 2)
            /\ \A i \in 3..Len(ts) : lits[i].value < width(ts, 1) + width(ts, 2),
            PackType(element(ts, 1), Len(ts) - 2), all_uniform(ts))

check_cast(ts, dst, legal) == checked(is_data_type(dst) /\ legal, dst, ts[1].is_uniform)

check_mask_or_subgroup(op, ts) ==
    CASE op = "empty_mask" -> qualified_type(MaskType, TRUE)
      [] op = "mask_is_thread_active" -> qualified_type(Bool, all_uniform(ts))
      [] op = "subgroup_assume_uniform" -> qualified_type(ts[1].type, TRUE)

check_type_prim_op(op, ts, dst, lits) ==
    CASE op = "neg" -> check_unary(ts, is_arithm_type(element(ts, 1)))
      [] op = "not" -> check_unary(ts, has_boolean_ops(element(ts, 1)))
      [] op \in FloatOps -> check_unary(ts, element(ts, 1).tag = "Float")
      [] op \in {"abs", "sign"} -> check_signed(ts)
      [] op \in ShiftOps -> check_shift(ts)
      [] op \in ArithmeticOps -> check_arithmetic(ts)
      [] op \in ExtendedOps -> check_extended(ts)
      [] op \in BooleanOps -> check_boolean(ts)
      [] op \in OrderedOps -> check_comparison(ts, TRUE)
      [] op \in EqualityOps -> check_comparison(ts, FALSE)
      [] op = "fma" -> check_fma(ts)
      [] op = "select" -> check_select(ts)
      [] op = "extract" -> check_extract(ts, lits)
      [] op = "insert" -> check_insert(ts, lits)
      [] op = "shuffle" -> check_shuffle(ts, lits)
      [] op = "reinterpret" -> check_cast(ts, dst, is_reinterpret_cast_legal(ts[1].type, dst))
      [] op = "convert" -> check_cast(ts, dst, is_conversion_legal(ts[1].type, dst))
      [] OTHER -> check_mask_or_subgroup(op, ts)

check_type_composite(ts, t) ==
    LET expected == composite_element_types(t)
    IN  checked(/\ is_data_type(t) /\ Len(ts) = Len(expected)
                /\ \A i \in DOMAIN ts : is_subtype(expected[i], ts[i].type),
                t, all_uniform(ts))

check_type_fill(qt, t) == checked(is_data_type(t) /\ is_subtype(t.element_type, qt.type), t, qt.is_uniform)

get_pointee_type(t) == IF t.tag = "PtrType" THEN t.pointed_type ELSE NoType

check_type_load_AnyAddressSpace(qt) ==
    checked(qt.type.tag = "PtrType", get_pointee_type(qt.type), qt.is_uniform)
check_type_load(qt) ==
    checked(qt.type.tag = "PtrType", get_pointee_type(qt.type),
            qt.is_uniform /\ is_addr_space_uniform(qt.type.address_space))

check_type_ptr_array_element_offset(ts) ==
    checked(ts[1].type.tag = "PtrType" /\ ts[2].type.tag = "Int" /\ is_data_type(ts[1].type.pointed_type),
            ts[1].type, all_uniform(ts))

check_type_ptr_composite_element(ts, lits) ==
    LET t == enter_composite_type(get_pointee_type(ts[1].type), ts[2].type, lits[2])
    IN  checked(t # NoType, PtrType(ts[1].type.address_space, t), all_uniform(ts))
=============================================================================
