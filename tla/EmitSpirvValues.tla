-------------------------- MODULE EmitSpirvValues ---------------------------
(* The instructions the SPIR-V back end selects for an operation (emit_spv_value.c), and    *)
(* what SPIR-V says they compute: unlike the types of the intermediate representation, the  *)
(* opcode decides whether an integer has a sign.                                            *)
EXTENDS Folding

Identity == "Nop"
Illegal == "Max"

classes == <<"Signed", "Unsigned", "FP", "Logical", "Ptr">>
class_index(c) == CHOOSE i \in DOMAIN classes : classes[i] = c

classify_operand_type(type) ==
    LET t == maybe_packed_element(type)
    IN  CASE t.tag = "Int" -> IF t.is_signed THEN "Signed" ELSE "Unsigned"
          [] t.tag = "Bool" -> "Logical"
          [] t.tag = "PtrType" -> "Ptr"
          [] t.tag = "Float" -> "FP"

(* By the class of the first operand; what the code leaves out of an entry is zero, Nop.    *)
first_op_table ==
    [add |-> <<"IAdd", "IAdd", "FAdd", Illegal, Illegal>>,
     sub |-> <<"ISub", "ISub", "FSub", Illegal, Illegal>>,
     mul |-> <<"IMul", "IMul", "FMul", Illegal, Illegal>>,
     div |-> <<"SDiv", "UDiv", "FDiv", Illegal, Illegal>>,
     mod |-> <<"SMod", "UMod", "FMod", Illegal, Illegal>>,
     add_carry |-> <<"IAddCarry", "IAddCarry", Illegal, Identity, Identity>>,
     sub_borrow |-> <<"ISubBorrow", "ISubBorrow", Illegal, Identity, Identity>>,
     mul_extended |-> <<"SMulExtended", "UMulExtended", Illegal, Identity, Identity>>,
     neg |-> <<"SNegate", "SNegate", "FNegate", Identity, Identity>>,
     eq |-> <<"IEqual", "IEqual", "FOrdEqual", "LogicalEqual", "PtrEqual">>,
     neq |-> <<"INotEqual", "INotEqual", "FOrdNotEqual", "LogicalNotEqual", "PtrNotEqual">>,
     lt |-> <<"SLessThan", "ULessThan", "FOrdLessThan", Illegal, Illegal>>,
     lte |-> <<"SLessThanEqual", "ULessThanEqual", "FOrdLessThanEqual", Illegal, Illegal>>,
     gt |-> <<"SGreaterThan", "UGreaterThan", "FOrdGreaterThan", Illegal, Illegal>>,
     gte |-> <<"SGreaterThanEqual", "UGreaterThanEqual", "FOrdGreaterThanEqual", Illegal, Illegal>>,
     not |-> <<"Not", "Not", Illegal, "LogicalNot", Identity>>,
     and |-> <<"BitwiseAnd", "BitwiseAnd", Illegal, "LogicalAnd", Identity>>,
     or |-> <<"BitwiseOr", "BitwiseOr", Illegal, "LogicalOr", Identity>>,
     xor |-> <<"BitwiseXor", "BitwiseXor", Illegal, "LogicalNotEqual", Identity>>,
     lshift |-> <<"ShiftLeftLogical", "ShiftLeftLogical", Illegal, Illegal, Identity>>,
     rshift_arithm |-> <<"ShiftRightArithmetic", "ShiftRightArithmetic", Illegal, Illegal, Identity>>,
     rshift_logical |-> <<"ShiftRightLogical", "ShiftRightLogical", Illegal, Illegal, Identity>>,
     abs |-> <<"SAbs", Illegal, "FAbs", Illegal, Identity>>,
     sign |-> <<"SSign", Illegal, "FSign", Illegal, Identity>>,
     min |-> <<"SMin", "UMin", "FMin", Illegal, Illegal>>,
     max |-> <<"SMax", "UMax", "FMax", Illegal, Illegal>>]

(* By the class of the operand and that of the result.                                      *)
first_and_result_table ==
    [convert |-> << <<"SConvert", "UConvert", "ConvertSToF", Illegal, Illegal>>,
                    <<"SConvert", "UConvert", "ConvertUToF", Illegal, Illegal>>,
                    <<"ConvertFToS", "ConvertFToU", "FConvert", Illegal, Illegal>>,
                    <<Illegal, Illegal, Illegal, Identity, Illegal>>,
                    <<Illegal, Illegal, Illegal, Illegal, Identity>> >>,
     reinterpret |-> << <<Illegal, "Bitcast", "Bitcast", Illegal, "ConvertUToPtr">>,
                        <<"Bitcast", Illegal, "Bitcast", Illegal, "ConvertUToPtr">>,
                        <<"Bitcast", "Bitcast", Identity, Illegal, Illegal>>,
                        <<Illegal, Illegal, Illegal, Identity, Illegal>>,
                        <<"ConvertPtrToU", "ConvertPtrToU", Illegal, Illegal, Illegal>> >>]

monomorphic_table ==
    [floor |-> "Floor", ceil |-> "Ceil", round |-> "Round", fract |-> "Fract", fma |-> "Fma",
     subgroup_assume_uniform |-> Identity]

CustomOps == {"insert", "extract", "shuffle", "select"}

get_opcode(op, ts, dst) ==
    CASE op \in DOMAIN first_op_table -> first_op_table[op][class_index(classify_operand_type(ts[1]))]
      [] op \in DOMAIN first_and_result_table ->
            first_and_result_table[op][class_index(classify_operand_type(ts[1]))]
                                      [class_index(classify_operand_type(dst))]
      [] op \in DOMAIN monomorphic_table -> monomorphic_table[op]
      [] OTHER -> Illegal

(* What has no opcode is written by hand: casts between pointers, composites, selections.   *)
emit_custom(op, ts, dst) ==
    CASE op = "reinterpret" -> IF ts[1].tag = "PtrType" /\ dst.tag = "PtrType" THEN "Bitcast" ELSE Illegal
      [] op = "extract" -> "CompositeExtract"
      [] op = "insert" -> "CompositeInsert"
      [] op = "shuffle" -> "VectorShuffle"
      [] op = "select" -> "Select"
      [] OTHER -> Illegal

emit_spv_primop(op, ts, dst) ==
    LET opcode == get_opcode(op, ts, dst)
    IN  IF opcode = Illegal THEN emit_custom(op, ts, dst) ELSE opcode

(* A literal of 64 bits takes two words, any other one.                                     *)
emit_spv_int_literal_OneWord(raw, bits) == raw % 2^IntTy32
emit_spv_int_literal(raw, bits) == IF bits = IntTy64 THEN raw ELSE raw % 2^IntTy32

-----------------------------------------------------------------------------
(* SPIR-V: what the opcodes compute from the bits of their operands (external).             *)
SignedOpcodes ==
    [SDiv |-> "div", SLessThan |-> "lt", SLessThanEqual |-> "lte", SGreaterThan |-> "gt",
     SGreaterThanEqual |-> "gte", SAbs |-> "abs", SSign |-> "sign", SMin |-> "min", SMax |-> "max",
     SMod |-> "mod", SNegate |-> "neg", SMulExtended |-> "mul_extended", SConvert |-> "convert",
     ConvertSToF |-> "convert"]
UnsignedOpcodes ==
    [UDiv |-> "div", UMod |-> "mod", ULessThan |-> "lt", ULessThanEqual |-> "lte", UGreaterThan |-> "gt",
     UGreaterThanEqual |-> "gte", UMin |-> "min", UMax |-> "max", UMulExtended |-> "mul_extended",
     UConvert |-> "convert", ConvertUToF |-> "convert", IAdd |-> "add", ISub |-> "sub", IMul |-> "mul",
     IAddCarry |-> "add_carry", ISubBorrow |-> "sub_borrow", IEqual |-> "eq", INotEqual |-> "neq",
     Not |-> "not", BitwiseAnd |-> "and", BitwiseOr |-> "or", BitwiseXor |-> "xor",
     ShiftLeftLogical |-> "lshift", ShiftRightArithmetic |-> "rshift_arithm",
     ShiftRightLogical |-> "rshift_logical"]
OtherOpcodes ==
    [FAdd |-> "add", FSub |-> "sub", FMul |-> "mul", FDiv |-> "div", FMod |-> "mod", FNegate |-> "neg",
     FOrdEqual |-> "eq", FOrdNotEqual |-> "neq", FOrdLessThan |-> "lt", FOrdLessThanEqual |-> "lte",
     FOrdGreaterThan |-> "gt", FOrdGreaterThanEqual |-> "gte", FAbs |-> "abs", FSign |-> "sign",
     FMin |-> "min", FMax |-> "max", Floor |-> "floor", Ceil |-> "ceil", Round |-> "round",
     Fract |-> "fract", Fma |-> "fma", LogicalEqual |-> "eq", LogicalNotEqual |-> "neq",
     LogicalNot |-> "not", LogicalAnd |-> "and", LogicalOr |-> "or", PtrEqual |-> "eq",
     PtrNotEqual |-> "neq", ConvertFToS |-> "convert", ConvertFToU |-> "convert", FConvert |-> "convert",
     Bitcast |-> "reinterpret", ConvertUToPtr |-> "reinterpret", ConvertPtrToU |-> "reinterpret",
     CompositeExtract |-> "extract", CompositeInsert |-> "insert",
     VectorShuffle |-> "shuffle", Select |-> "select"]

with_sign(t, is_signed) ==
    CASE t.tag = "Int" -> Int_(t.width, is_signed)
      [] t.tag = "PackType" /\ t.element_type.tag = "Int" -> PackType(Int_(t.element_type.width, is_signed), t.size)
      [] OTHER -> t

RunSigned(op, vals, ts, t, is_signed) ==
    Meaning(op, vals, [i \in DOMAIN ts |-> with_sign(ts[i], is_signed)], with_sign(t, is_signed))

(* An operand that is a literal is the constant that was written for it.                    *)
spv_operand(n) ==
    IF n.tag = "IntLiteral" THEN Everywhere(<< emit_spv_int_literal(n.raw, typed(n).width) >>) ELSE n.val

spv_run(opcode, vals, ts, t) ==
    CASE opcode = Identity -> vals[1]
      [] opcode = Illegal -> Everywhere(Undefined)
      [] opcode \in DOMAIN SignedOpcodes -> RunSigned(SignedOpcodes[opcode], vals, ts, t, TRUE)
      [] opcode \in DOMAIN UnsignedOpcodes -> RunSigned(UnsignedOpcodes[opcode], vals, ts, t, FALSE)
      [] OTHER -> Meaning(OtherOpcodes[opcode], vals, ts, t)

spv_value(n) ==
    spv_run(emit_spv_primop(n.op, [i \in DOMAIN n.args |-> typed(n.args[i])], typed(n)),
            [i \in DOMAIN n.args |-> spv_operand(n.args[i])],
            [i \in DOMAIN n.args |-> typed(n.args[i])], typed(n))
=============================================================================
