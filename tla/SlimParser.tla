----------------------------- MODULE SlimParser -----------------------------
(* The tokenizer (frontend/slim/token.c) and the parser (frontend/slim/parser.c) of Slim,    *)
(* with the builder of bodies the parser drives (body_builder.c).  Names stay unbound and    *)
(* numbers untyped; what the parser makes of them are nodes of a front end instruction set.  *)
(* Function p of the parser reads the tokens from p.pos on: it leaves the node it accepted,  *)
(* or Null, in p.v, several in p.vs, a type in p.t and so on.  A failed expectation ends the *)
(* parse: after it every token is the end of file.                                           *)
(* Left out: ext_instr, switch, and the instruction `call'.                                  *)
EXTENDS FunctionIr

(* The tokenizer of Slim (frontend/slim/token.c).  A text is a sequence of units: a maximal  *)
(* run of letters, digits and underscores that starts with no digit, a run of digits, a      *)
(* quoted string, or any other character.  Hexadecimal numbers, exponents and suffixes of    *)
(* numbers, and what is behind the point but .0 and .5, are left out.                         *)

Unit(class, s, n) == [class |-> class, s |-> s, n |-> n]
word(s) == Unit("word", s, 0)
digits(n) == Unit("digits", "", n)
sign(s) == Unit("sign", s, 0)
quoted(s) == Unit("string", s, 0)
space == Unit("space", " ", 0)
newline == Unit("newline", "", 0)

(* The tag of a token that has a text is that text.  n and halves are the number written,    *)
(* point is whether there is one.                                                            *)
Token(tag, s, n, halves, point) == [tag |-> tag, s |-> s, n |-> n, halves |-> halves, point |-> point]
Symbol(tag) == Token(tag, "", 0, 0, FALSE)
EOF_tok == Symbol("EOF")

Keywords ==
    {"uniform", "varying", "struct", "union", "array", "private", "shared", "subgroup", "global", "input",
     "output", "extern", "generic", "logical", "var", "val", "ptr", "ref", "type", "fn", "cont", "lambda",
     "i8", "i16", "i32", "i64", "u8", "u16", "u32", "u64", "f16", "f32", "f64", "mask_t", "composite", "pack",
     "const", "bool", "true", "false", "if", "else", "control", "merge_selection", "loop", "continue", "break",
     "jump", "branch", "switch", "case", "default", "join", "call", "tailcall", "return", "unreachable"}

(* In the order of the table: the first text that matches is the token.                      *)
Symbols ==
    << [tag |-> ">>>", text |-> << ">", ">", ">" >>], [tag |-> ">>", text |-> << ">", ">" >>],
       [tag |-> "<<", text |-> << "<", "<" >>], [tag |-> "==", text |-> << "=", "=" >>],
       [tag |-> "!=", text |-> << "!", "=" >>], [tag |-> ">=", text |-> << ">", "=" >>],
       [tag |-> "<=", text |-> << "<", "=" >>] >>
    \o [i \in 1..24 |->
          LET c == << ">", "<", "&", "^", "|", "!", "+", "-", "*", "/", "%", "(", ")", "{", "}", "[", "]",
                      "@", "#", ".", ";", ":", ",", "=" >>[i]
          IN  [tag |-> c, text |-> << c >>]]

unit_at(text, i) == IF i <= Len(text) THEN text[i] ELSE newline
Spells(text, i, symbol) == \A k \in DOMAIN symbol : unit_at(text, i + k - 1).s = symbol[k]

RECURSIVE line_end(_, _), comment_end(_, _), eat_whitespace_and_comments(_, _)
line_end(text, i) == IF i > Len(text) \/ text[i] = newline THEN i ELSE line_end(text, i + 1)
comment_end(text, i) ==
    IF i > Len(text) THEN i
    ELSE IF text[i].s = "/" /\ text[i - 1].s = "*" THEN i + 1 ELSE comment_end(text, i + 1)

eat_whitespace_and_comments(text, i) ==
    CASE i > Len(text) -> i
      [] text[i].class \in {"space", "newline"} -> eat_whitespace_and_comments(text, i + 1)
      [] Spells(text, i, << "/", "/" >>) -> eat_whitespace_and_comments(text, line_end(text, i))
      [] Spells(text, i, << "/", "*" >>) -> eat_whitespace_and_comments(text, comment_end(text, i + 3))
      [] OTHER -> i

(* The token at i, and where it ends.                                                        *)
Number(text, i) ==
    LET point == unit_at(text, i + 1).s = "."
        fraction == point /\ unit_at(text, i + 2).class = "digits"
    IN  [token |-> Token("dec_lit", "", text[i].n, IF fraction /\ text[i + 2].n = 5 THEN 1 ELSE 0, point),
         next |-> i + (IF fraction THEN 3 ELSE IF point THEN 2 ELSE 1)]

Sign(text, i) ==
    LET k == CHOOSE k \in DOMAIN Symbols : /\ Spells(text, i, Symbols[k].text)
                                           /\ \A l \in 1..(k - 1) : ~Spells(text, i, Symbols[l].text)
    IN  [token |-> Symbol(Symbols[k].tag), next |-> i + Len(Symbols[k].text)]

next_token(text, i) ==
    CASE text[i].class = "word" ->
            [token |-> IF text[i].s \in Keywords THEN Symbol(text[i].s) ELSE Token("identifier", text[i].s, 0, 0, FALSE),
             next |-> i + 1]
      [] text[i].class = "digits" -> Number(text, i)
      [] text[i].class = "string" -> [token |-> Token("string_lit", text[i].s, 0, 0, FALSE), next |-> i + 1]
      [] OTHER -> Sign(text, i)

RECURSIVE TokensFrom(_, _, _)
TokensFrom(text, i, tokens) ==
    IF i > Len(text) THEN tokens
    ELSE LET found == next_token(text, i)
         IN  TokensFrom(text, eat_whitespace_and_comments(text, found.next), Append(tokens, found.token))
Tokens(text) == TokensFrom(text, eat_whitespace_and_comments(text, 1), << >>)
-----------------------------------------------------------------------------

Parser(text) ==
    [toks |-> Tokens(text), pos |-> 1, ok |-> TRUE, m |-> EmptyModule, cur |-> -1, stack |-> << >>,
     v |-> Null, vs |-> << >>, t |-> NoType, ts |-> << >>, s |-> "", ss |-> << >>, ps |-> << >>]

tok(p) == IF p.ok /\ p.pos <= Len(p.toks) THEN p.toks[p.pos] ELSE EOF_tok
Is(p, tag) == tok(p).tag = tag
next(p) == [p EXCEPT !.pos = @ + 1]
syntax_error(p) == [p EXCEPT !.ok = FALSE]
expect(p, condition) == IF condition THEN p ELSE syntax_error(p)
expect_token(p, tag) == IF Is(p, tag) THEN next(p) ELSE syntax_error(p)
accept_token(p, tag) == IF Is(p, tag) THEN next(p) ELSE p

(* What the parser calls again from within itself goes by parse: what is to be read, and what *)
(* it depends on.                                                                            *)
RECURSIVE parse(_, _, _)

Value(p, v) == [p EXCEPT !.v = v]
Values_(p, vs) == [p EXCEPT !.vs = vs]
Typed(p, t) == [p EXCEPT !.t = t]
Keep(p, v) == [p EXCEPT !.vs = Append(@, v)]

accept_identifier(p) == IF Is(p, "identifier") THEN [next(p) EXCEPT !.s = tok(p).s] ELSE [p EXCEPT !.s = ""]
expect_identifier(p) == LET q == accept_identifier(p) IN expect(q, q.s # "")

-----------------------------------------------------------------------------
(* Builders of bodies.  cur is the block that instructions go to: 0 for a pure builder, -1   *)
(* where there is none.  A structured construct ends that block, and building goes on in the *)
(* tail of the construct; bodies are set when the builder is finished.                       *)
Varying(types) == [i \in DOMAIN types |-> [type |-> qualified_type(types[i], FALSE), name |-> ""]]
gen_variables(yield_types) == Varying(yield_types)

basic_block(p, params, name) == [p EXCEPT !.m.blocks = Append(@, Abstraction(params, name))]
newest(p) == Len(p.m.blocks)
bld_begin(p, b) == [p EXCEPT !.cur = b, !.stack = << >>]
bld_restore(p, outer) == [p EXCEPT !.cur = outer.cur, !.stack = outer.stack]

(* Only what touches memory has a place in the chain: a primitive operation is a value.       *)
bld_add_instruction(p, n) ==
    IF p.cur <= 0 \/ n.tag = "PrimOp" THEN Value(p, n)
    ELSE Value([p EXCEPT !.m.blocks[p.cur].chain = Append(@, n)], Ref(p.cur, Len(p.m.blocks[p.cur].chain) + 1))

tuple_helper(ns) == Bare("Composite", ns)
maybe_tuple_helper(ns) == IF Len(ns) = 1 THEN ns[1] ELSE tuple_helper(ns)

(* The construct comes without its tail, which is made here and stands at place at.          *)
add_structured_construct(p, params, construct, at) ==
    LET q == basic_block(p, params, "")
        whole == [construct EXCEPT !.ops[at] = BlockNode(newest(q))]
    IN  Value([q EXCEPT !.stack = Append(@, [at |-> p.cur, construct |-> whole]), !.cur = newest(q)],
              maybe_tuple_helper([i \in DOMAIN params |-> ParamNode(newest(q), i)]))

RECURSIVE build_body(_, _, _)
build_body(p, i, terminator) ==
    IF i > Len(p.stack) THEN [p EXCEPT !.m.blocks[p.cur].body = terminator]
    ELSE build_body([p EXCEPT !.m.blocks[p.stack[i].at].body = p.stack[i].construct], i + 1, terminator)
bld_finish(p, terminator) == build_body(p, 1, terminator)

-----------------------------------------------------------------------------
(* Types.                                                                                   *)
make_unbound(name) == Node("Unbound", name, << >>, << >>, << >>)
UnboundType(name) == [tag |-> "Unbound", type_name |-> name]

NumericalTypes ==
    [i8 |-> Int_(IntTy32 \div 4, TRUE), i16 |-> Int_(IntTy32 \div 2, TRUE), i32 |-> int32_type,
     i64 |-> Int_(IntTy64, TRUE), u8 |-> Int_(IntTy32 \div 4, FALSE), u16 |-> Int_(IntTy32 \div 2, FALSE),
     u32 |-> uint32_type, u64 |-> uint64_type, f16 |-> [Float EXCEPT !.width = IntTy32 \div 2],
     f32 |-> Float, f64 |-> [Float EXCEPT !.width = IntTy64]]
accept_numerical_type(p) ==
    IF tok(p).tag \in DOMAIN NumericalTypes THEN Typed(next(p), NumericalTypes[tok(p).tag]) ELSE Typed(p, NoType)

AddressSpaces ==
    [global |-> "Global", private |-> "Private", shared |-> "Shared", subgroup |-> "Subgroup",
     generic |-> "Generic", input |-> "Input", output |-> "Output", extern |-> "External"]
accept_address_space(p) ==
    IF tok(p).tag \in DOMAIN AddressSpaces THEN [next(p) EXCEPT !.s = AddressSpaces[tok(p).tag]]
    ELSE [p EXCEPT !.s = ""]

(* A number as it is written: its value as an integer, its halves, and its point if any.     *)
(* The text of a token is interned under all that follows it (shd_string_sized), so that two  *)
(* numbers of a text are never one node: at is where this one is written.                    *)
UntypedNumber(token, negate, at) ==
    Node("UntypedNumber", "", << IF negate THEN -token.n ELSE token.n, IF negate THEN -token.halves ELSE token.halves,
                                 IF token.point THEN 1 ELSE 0, at >>, << >>, << >>)

accept_unqualified_type(p) == parse(p, "type", 0)
struct_members(p, members) == parse(p, "members", members)
expect_type(p) == LET q == accept_unqualified_type(p) IN expect(q, q.t # NoType)
parse_members(p, members) ==
    IF Is(p, "}") \/ ~p.ok THEN Typed(accept_token(p, "}"), RecordType(members))
    ELSE LET q == expect_type(p) IN struct_members(expect_token(expect_identifier(q), ";"), Append(members, q.t))

pointer_type(p) ==
    LET q == accept_address_space(p)
        r == expect_type(expect(q, q.s # ""))
    IN  Typed(r, PtrType(q.s, r.t))

(* A size that is not written is that of an array whose size is not known.                   *)
array_type(p) ==
    LET q == expect_type(p)
    IN  IF Is(q, ";") THEN Typed(expect_token(next(expect(next(q), Is(next(q), "dec_lit"))), "]"),
                                 ArrType(q.t, tok(next(q)).n))
        ELSE Typed(expect_token(q, "]"), ArrType(q.t, 0))
pack_type(p) ==
    LET q == expect_token(expect_type(expect_token(p, "[")), ";")
    IN  Typed(expect_token(expect_token(q, "dec_lit"), "]"), PackType(q.t, tok(q).n))

parse_type(p) ==
    CASE tok(p).tag \in DOMAIN NumericalTypes -> accept_numerical_type(p)
      [] Is(p, "bool") -> Typed(next(p), Bool)
      [] Is(p, "mask_t") -> Typed(next(p), MaskType)
      [] Is(p, "ptr") \/ Is(p, "ref") -> pointer_type(next(p))
      [] Is(p, "[") -> array_type(next(p))
      [] Is(p, "pack") -> pack_type(next(p))
      [] Is(p, "struct") -> struct_members(expect_token(next(p), "{"), << >>)
      [] Is(p, "identifier") -> Typed(next(p), UnboundType(tok(p).s))
      [] OTHER -> Typed(p, NoType)

Qualifiers == {"uniform", "varying"}
accept_qualified_type(p) ==
    IF tok(p).tag \notin Qualifiers THEN Typed(p, NoType)
    ELSE LET q == expect_type(next(p)) IN Typed(q, qualified_type(q.t, Is(p, "uniform")))
accept_maybe_qualified_type(p) ==
    IF tok(p).tag \in Qualifiers THEN accept_qualified_type(p) ELSE accept_unqualified_type(p)

RECURSIVE accept_types(_, _, _, _), type_arguments(_, _)
accept_types(p, separator, qualified, types) ==
    LET q == IF qualified THEN accept_maybe_qualified_type(p) ELSE accept_unqualified_type(p)
    IN  IF q.t = NoType THEN [q EXCEPT !.ts = types]
        ELSE accept_types(accept_token(q, separator), separator, qualified, Append(types, q.t))

type_arguments(p, types) ==
    LET q == expect_type(p)
    IN  CASE ~q.ok \/ Is(q, "]") -> [accept_token(q, "]") EXCEPT !.ts = Append(types, q.t)]
          [] OTHER -> type_arguments(accept_token(q, ","), Append(types, q.t))
accept_type_arguments(p) == IF Is(p, "[") THEN type_arguments(next(p), << >>) ELSE [p EXCEPT !.ts = << >>]

-----------------------------------------------------------------------------
(* Values and expressions.                                                                  *)
PrimOps ==
    UNION {ShiftOps, ExtendedOps, ArithmeticOps, BooleanOps, OrderedOps, EqualityOps, FloatOps,
           {"neg", "not", "abs", "sign", "select", "fma", "convert", "reinterpret", "extract", "insert",
            "shuffle", "empty_mask", "mask_is_thread_active"}}

infix(token, op, precedence) == [token |-> token, op |-> op, precedence |-> precedence]
InfixOperators ==
    {infix("*", "mul", 1), infix("-", "sub", 2), infix("+", "add", 2), infix("/", "div", 1), infix("%", "mod", 1),
     infix(">>>", "rshift_logical", 3), infix(">>", "rshift_arithm", 3), infix("<<", "lshift", 3),
     infix("&", "and", 4), infix("^", "xor", 5), infix("|", "or", 6), infix("==", "eq", 7), infix("!=", "neq", 7),
     infix(">", "gt", 7), infix(">=", "gte", 7), infix("<", "lt", 7), infix("<=", "lte", 7),
     infix("#", "Subscript", 0), infix("=", "Assign", 10)}
max_precedence == 10
is_infix_operator(p) == \E o \in InfixOperators : o.token = tok(p).tag
infix_operator(p) == CHOOSE o \in InfixOperators : o.token = tok(p).tag

(* Operators that are no operation of the representation become front end instructions.      *)
apply(p, op, ns) ==
    bld_add_instruction(p, IF op \in PrimOps THEN PrimOp(op, << >>, ns) ELSE Bare(op, ns))

Number_(p, negate) ==
    IF Is(p, "dec_lit") THEN Value(next(p), UntypedNumber(tok(p), negate, p.pos)) ELSE Value(p, Null)
accept_numerical_literal(p) ==
    LET q == accept_numerical_type(p)
        r == Number_(accept_token(q, "-"), Is(q, "-"))
    IN  CASE r.v.tag = "Null" -> expect(r, q.t = NoType /\ ~Is(q, "-"))
          [] q.t = NoType -> r
          [] OTHER -> Value(r, Node("Constrained", "", << >>, << r.v >>, << q.t >>))

accept_value(p) == parse(p, "value", 0)
accept_primary_expr(p) == parse(p, "primary", 0)
accept_expr(p, outer_precedence) == parse(p, "expr", outer_precedence)
infix_expr(p, outer_precedence) == parse(p, "infix", outer_precedence)
operands(p, list, must) == parse(p, "operands", [list |-> list, must |-> must])
accept_operand(p) == accept_expr(p, max_precedence)
expect_operand(p) == LET q == accept_operand(p) IN expect(q, q.v.tag # "Null")

parse_operands(p, list, must) ==
    LET q == accept_operand(p)
    IN  CASE ~q.ok -> q
          [] q.v.tag = "Null" -> Values_(expect_token(expect(q, ~must), ")"), list)
          [] Is(q, ",") -> operands(next(q), Append(list, q.v), TRUE)
          [] OTHER -> Values_(expect_token(q, ")"), Append(list, q.v))
expect_operands(p) == operands(expect_token(p, "("), << >>, FALSE)

prim_op(p, name) ==
    LET q == accept_type_arguments(p)
        r == expect_operands(q)
    IN  bld_add_instruction(expect(r, p.cur >= 0), PrimOp(name, q.ts, r.vs))
alloca(p) ==
    LET q == accept_type_arguments(p)
        r == expect_operands(q)
    IN  bld_add_instruction(expect(r, r.vs = << >>), Node("StackAlloc", "", << >>, << >>, q.ts))
debug_printf(p) ==
    LET q == expect_operands(p)
        r == expect(q, q.vs # << >> /\ q.vs[1].tag = "StringLiteral")
    IN  IF r.ok THEN bld_add_instruction(r, Node("DebugPrintf", q.vs[1].name, << >>, Tail(q.vs), << >>)) ELSE r

named_value(p, name) ==
    CASE name \in PrimOps -> prim_op(p, name)
      [] name = "alloca" -> alloca(p)
      [] name = "debug_printf" -> debug_printf(p)
      [] OTHER -> bld_add_instruction(p, make_unbound(name))

(* What is between parentheses: nothing, a value, or a tuple.                                *)
parenthesised(p) ==
    IF Is(p, ")") THEN Value(next(p), tuple_helper(<< >>))
    ELSE LET q == operands(p, << >>, TRUE) IN Value(q, maybe_tuple_helper(q.vs))
composite(p) ==
    LET q == expect_type(p)
        r == expect_operands(q)
    IN  Value(r, Node("Composite", "", << >>, r.vs, << q.t >>))

parse_value(p) ==
    LET q == accept_numerical_literal(p)
    IN  CASE q.v.tag # "Null" \/ ~q.ok -> q
          [] Is(p, "identifier") -> named_value(next(p), tok(p).s)
          [] Is(p, "string_lit") -> Value(next(p), StringLiteral(tok(p).s))
          [] Is(p, "true") -> Value(next(p), Bare("True", << >>))
          [] Is(p, "false") -> Value(next(p), Bare("False", << >>))
          [] Is(p, "(") -> parenthesised(next(p))
          [] Is(p, "composite") -> composite(next(p))
          [] OTHER -> Value(p, Null)

(* A number has no type here, so that its negation is an operation too.                      *)
UnaryOperators == [t \in {"-", "!", "*", "&"} |->
                     CASE t = "-" -> "neg" [] t = "!" -> "not" [] t = "*" -> "Dereference" [] t = "&" -> "AddrOf"]
parse_primary(p) ==
    IF tok(p).tag \in DOMAIN UnaryOperators
    THEN LET q == accept_primary_expr(next(p))
         IN  apply(expect(q, q.v.tag # "Null"), UnaryOperators[tok(p).tag], << q.v >>)
    ELSE accept_value(p)

(* p.v is the expression so far.                                                            *)
infix_step(p, q) == apply(expect(q, q.v.tag # "Null"), infix_operator(p).op, << p.v, q.v >>)
call_step(p, q) == bld_add_instruction(q, Bare("Call", << p.v >> \o q.vs))
parse_infix(p, outer_precedence) ==
    CASE p.v.tag = "Null" \/ ~p.ok -> p
      [] is_infix_operator(p) ->
            IF infix_operator(p).precedence > outer_precedence THEN p
            ELSE infix_expr(infix_step(p, accept_expr(next(p), infix_operator(p).precedence - 1)), outer_precedence)
      [] Is(p, "(") -> infix_expr(call_step(p, expect_operands(p)), outer_precedence)
      [] OTHER -> p
parse_expr(p, outer_precedence) == infix_expr(accept_primary_expr(p), outer_precedence)

-----------------------------------------------------------------------------
(* Parameters, with a default value each if defaults.                                       *)
RECURSIVE parameters(_, _, _)
parameter(p) == LET q == accept_qualified_type(p) IN expect_identifier(expect(q, q.t # NoType))
default_value(p, defaults) == IF defaults THEN accept_operand(expect_token(p, "=")) ELSE p
with_parameter(p, q, defaults) ==
    LET r == default_value(q, defaults)
    IN  [r EXCEPT !.ps = Append(p.ps, [type |-> q.t, name |-> q.s]), !.vs = IF defaults THEN Append(p.vs, r.v) ELSE @]
parameters(p, defaults, again) ==
    IF ~p.ok \/ (Is(p, ")") /\ ~again) THEN expect_token(p, ")")
    ELSE LET q == with_parameter(p, parameter(p), defaults)
         IN  parameters(accept_token(q, ","), defaults, Is(q, ","))
expect_parameters(p, defaults) ==
    parameters([expect_token(p, "(") EXCEPT !.ps = << >>, !.vs = << >>], defaults, FALSE)

-----------------------------------------------------------------------------
(* Instructions, statements, terminators and bodies.                                        *)
expect_body(p, b, default) == parse(p, "body", [block |-> b, default |-> default])
statements(p) == parse(p, "statements", 0)
continuations(p, outer) == parse(p, "continuations", outer)

(* A case of a construct is a block of its own.                                             *)
body_of_case(p, params, default) ==
    LET q == basic_block(p, params, "") IN Value(expect_body(q, newest(q), default), BlockNode(newest(q)))

if_condition(p) == expect_token(expect_operand(expect_token(p, "(")), ")")
if_false(p) == IF Is(p, "else") THEN body_of_case(next(p), << >>, "MergeSelection") ELSE Value(p, Null)
if_cases(p, q, r, s) ==
    add_structured_construct(s, gen_variables(p.ts), Node("If", "", << >>, << q.v, r.v, s.v, Null >>, p.ts), 4)
if_instruction(p) ==
    LET q == if_condition(p)
        r == body_of_case(q, << >>, "MergeSelection")
    IN  if_cases(p, q, r, if_false(r))

loop_instruction(p) ==
    LET q == expect_parameters(p, TRUE)
        r == body_of_case(q, q.ps, "MergeContinue")
    IN  add_structured_construct(r, gen_variables(p.ts), Node("Loop", "", << >>, << r.v, Null >> \o q.vs, p.ts), 2)

control_instruction(p) ==
    LET q == expect_identifier(expect_token(p, "("))
        jp == [type |-> JoinPointType(p.ts), name |-> q.s]
        r == body_of_case(expect_token(q, ")"), << jp >>, "")
    IN  add_structured_construct(r, gen_variables(p.ts), Node("Control", "", << >>, << r.v, Null >>, p.ts), 2)

yield_types(p) == accept_types(next(p), "none", FALSE, << >>)
accept_control_flow_instruction(p) ==
    CASE Is(p, "if") -> if_instruction(yield_types(p))
      [] Is(p, "loop") -> loop_instruction(yield_types(p))
      [] Is(p, "control") -> control_instruction(yield_types(p))
      [] OTHER -> Value(p, Null)

accept_instruction(p) ==
    LET q == accept_operand(p)
    IN  IF q.v.tag # "Null" THEN expect_token(q, ";") ELSE accept_control_flow_instruction(q)

RECURSIVE expect_identifiers(_, _), expect_types_and_identifiers(_, _, _)
expect_identifiers(p, names) ==
    LET q == expect_identifier(p)
    IN  IF Is(q, ",") THEN expect_identifiers(next(q), Append(names, q.s)) ELSE [q EXCEPT !.ss = Append(names, q.s)]
expect_types_and_identifiers(p, names, types) ==
    LET q == expect_identifier(expect_type(p))
    IN  IF Is(q, ",") THEN expect_types_and_identifiers(next(q), Append(names, q.s), Append(types, q.t))
        ELSE [q EXCEPT !.ss = Append(names, q.s), !.ts = Append(types, q.t)]

strings2nodes(names) == [i \in DOMAIN names |-> StringLiteral(names[i])]
bind(p, tag, types, q) ==
    bld_add_instruction(expect(q, q.v.tag # "Null"), Node(tag, "", << >>, << q.v >> \o strings2nodes(p.ss), types))
bind_val(p) == bind(p, "BindVal", << >>, accept_instruction(expect_token(p, "=")))
bind_var(p) == bind(p, "BindVar", p.ts, accept_instruction(expect_token(p, "=")))

accept_statement(p) ==
    CASE Is(p, "val") -> bind_val(expect_identifiers(next(p), << >>))
      [] Is(p, "var") -> bind_var(expect_types_and_identifiers(next(p), << >>, << >>))
      [] OTHER -> accept_instruction(p)
parse_statements(p) ==
    LET q == accept_statement(p) IN IF q.v.tag = "Null" \/ ~q.ok THEN q ELSE statements(q)

(* The target is looked up after the arguments.                                             *)
expect_jump(p) ==
    LET q == expect_identifier(p)
        r == expect_operands(q)
        s == bld_add_instruction(r, make_unbound(q.s))
    IN  Value(s, Bare("Jump", << s.v >> \o r.vs))

with_condition(p, q, r) == Value(expect_token(r, ")"), Bare("Branch", << p.v, q.v, r.v >>))
true_target(p, q) == with_condition(p, q, expect_jump(expect_token(q, ",")))
branch(p) ==
    LET q == accept_value(expect_token(p, "("))
    IN  true_target(q, expect_jump(expect_token(expect(q, q.v.tag # "Null"), ",")))

optional_operands(p) == IF Is(p, "(") THEN expect_operands(p) ELSE Values_(p, << >>)
with_arguments(tag, p) == Value(p, Bare(tag, p.vs))
(* A join point or a callee in parentheses, and its arguments.                              *)
applied(tag, p) ==
    LET q == expect_operands(p) IN Value(q, Bare(tag, << p.v >> \o q.vs))
in_parentheses(p) == expect_token(expect_operand(expect_token(p, "(")), ")")

accept_terminator(p) ==
    CASE Is(p, "jump") -> expect_jump(next(p))
      [] Is(p, "branch") -> branch(next(p))
      [] Is(p, "return") -> with_arguments("Return", expect_operands(next(p)))
      [] Is(p, "merge_selection") -> with_arguments("MergeSelection", optional_operands(next(p)))
      [] Is(p, "continue") -> with_arguments("MergeContinue", optional_operands(next(p)))
      [] Is(p, "break") -> with_arguments("MergeBreak", optional_operands(next(p)))
      [] Is(p, "join") -> applied("Join", in_parentheses(next(p)))
      [] Is(p, "tailcall") -> applied("TailCall", in_parentheses(next(p)))
      [] Is(p, "unreachable") -> Value(expect_token(expect_token(next(p), "("), ")"), Bare("Unreachable", << >>))
      [] OTHER -> Value(p, Null)

terminator_or(p, default) ==
    CASE p.v.tag # "Null" -> expect_token(p, ";")
      [] default # "" -> Value(p, Bare(default, << >>))
      [] OTHER -> syntax_error(p)

(* p.ss and p.vs collect the names and the blocks of the continuations of a body.            *)
continuation(p, q) ==
    LET r == basic_block(expect_parameters(q, FALSE), << >>, q.s)
        s == expect_body([r EXCEPT !.m.blocks[newest(r)].params = r.ps], newest(r), "")
    IN  [s EXCEPT !.ss = Append(p.ss, q.s), !.vs = Append(p.vs, BlockNode(newest(r)))]
parse_continuations(p, outer) ==
    IF Is(p, "cont") THEN continuations(continuation(p, expect_identifier(next(p))), outer) ELSE p

(* The statements, a block for the names of the continuations, and one for the terminator:   *)
(* the terminator sees the continuations, the statements do not.                             *)
terminator_case(p, default) ==
    LET q == basic_block(p, << >>, "")
        r == terminator_or(accept_terminator(bld_begin(q, newest(q))), default)
    IN  Value(bld_finish(r, r.v), BlockNode(newest(q)))
cont_wrapper_case(p, q, terminator) ==
    LET r == continuations([basic_block(q, << >>, "") EXCEPT !.ss = << >>, !.vs = << >>], p)
        wrapper == newest(q) + 1
        s == bld_add_instruction(bld_begin(r, wrapper), Bare("BindContinuations", strings2nodes(r.ss) \o r.vs))
    IN  Value(bld_finish(s, Bare("Jump", << terminator >>)), BlockNode(wrapper))
with_terminator(p, q) == cont_wrapper_case(p, q, q.v)
end_of_body(outer, p, q) ==
    bld_restore(bld_finish(expect_token([q EXCEPT !.cur = p.cur, !.stack = p.stack], "}"), Bare("Jump", << q.v >>)), outer)
body_from(outer, p, default) == end_of_body(outer, p, with_terminator(p, terminator_case(p, default)))
parse_body(p, b, default) == body_from(p, statements(bld_begin(expect_token(p, "{"), b)), default)

-----------------------------------------------------------------------------
(* Declarations.                                                                            *)
RECURSIVE annotation_values(_), accept_annotations(_, _), global_qualifiers(_, _)
annotation_values(p) ==
    LET q == accept_value(p)
        r == Keep(expect(q, q.v.tag # "Null"), q.v)
    IN  IF Is(r, ",") THEN annotation_values(next(r)) ELSE expect_token(r, ")")
annotation_payload(p) ==
    CASE ~Is(p, "(") -> p
      [] Is(next(p), ")") -> next(next(p))
      [] OTHER -> annotation_values(next(p))
accept_annotations(p, list) ==
    IF ~Is(p, "@") THEN Values_(p, list)
    ELSE LET q == accept_identifier(next(p))
             r == annotation_payload(Values_([q EXCEPT !.cur = -1], << >>))
         IN  accept_annotations(r, Append(list, Node("Annotation", q.s, << >>, r.vs, << >>)))

Declared(p, decl) == Value([p EXCEPT !.m.decls = Append(@, decl)], DeclNode(Len(p.m.decls) + 1))
hint(t) == IF t = NoType THEN << >> ELSE << t >>

constant(q, r, annotations) ==
    Declared(expect_token(expect(r, r.v.tag # "Null"), ";"),
             [Declaration("Constant", q.s, annotations, hint(q.t)) EXCEPT !.value = r.v])
accept_const(p, annotations) ==
    LET q == expect_identifier(accept_unqualified_type(p))
    IN  constant(q, accept_operand(bld_begin(expect_token(q, "="), 0)), annotations)

function(p, annotations, name, types) ==
    LET q == basic_block(p, p.ps, name)
        d == [Declaration("Function", name, annotations, types) EXCEPT !.block = newest(q)]
        r == Declared(q, d)
    IN  Value(IF Is(r, ";") THEN next(r) ELSE expect_body(r, newest(q), IF types = << >> THEN "Return" ELSE ""), r.v)
fn_signature(p) == accept_types(p, ",", TRUE, << >>)
fn_parameters(name, p, annotations) == function(expect_parameters(p, FALSE), annotations, name, p.ts)
accept_fn_decl(p, annotations) ==
    LET q == expect_identifier(p) IN fn_parameters(q.s, fn_signature(q), annotations)

(* g is what the qualifiers so far say.                                                     *)
global_qualifiers(p, g) ==
    LET q == accept_address_space(p)
    IN  CASE Is(p, "logical") -> global_qualifiers(next(p), [g EXCEPT !.logical = TRUE])
          [] Is(p, "uniform") -> global_qualifiers(next(p), [g EXCEPT !.uniform = TRUE])
          [] q.s # "" -> global_qualifiers(expect(q, g.as \in {"", q.s}), [g EXCEPT !.as = q.s])
          [] OTHER -> [p |-> expect(p, g.as # "" /\ (g.uniform => g.as = "Input")), g |-> g]

global_init(p) == IF Is(p, "=") THEN accept_value([next(p) EXCEPT !.cur = -1]) ELSE Value(p, Null)
global_var(p, q, g, annotations) ==
    Declared(expect_token(q, ";"),
             [Declaration("GlobalVariable", p.s,
                          IF g.logical THEN Append(annotations, Node("Annotation", "Logical", << >>, << >>, << >>)) ELSE annotations,
                          << p.t >>)
              EXCEPT !.as = IF g.uniform THEN "UInput" ELSE g.as, !.value = q.v])
named_global_var(p, g, annotations) == global_var(p, global_init(p), g, annotations)
accept_global_var_decl(p, annotations) ==
    LET found == global_qualifiers(p, [as |-> "", uniform |-> FALSE, logical |-> FALSE])
    IN  named_global_var(expect_identifier(expect_type(found.p)), found.g, annotations)

accept_nominal_type_decl(p, annotations) ==
    LET q == expect_identifier(p)
        r == expect_type(expect_token(q, "="))
    IN  Declared(expect_token(r, ";"), Declaration("NominalType", q.s, annotations, << r.t >>))

declaration(p) ==
    CASE Is(p, "const") -> accept_const(next(p), p.vs)
      [] Is(p, "fn") -> accept_fn_decl(next(p), p.vs)
      [] Is(p, "var") -> accept_global_var_decl(next(p), p.vs)
      [] Is(p, "type") -> accept_nominal_type_decl(next(p), p.vs)
      [] OTHER -> syntax_error(p)

slim_parse(p) == parse(p, "module", 0)
parse_module(p) == IF Is(p, "EOF") THEN p ELSE slim_parse(declaration(accept_annotations(p, << >>)))

parse(p, what, x) ==
    CASE what = "module" -> parse_module(p)
      [] what = "type" -> parse_type(p)
      [] what = "members" -> parse_members(p, x)
      [] what = "value" -> parse_value(p)
      [] what = "primary" -> parse_primary(p)
      [] what = "expr" -> parse_expr(p, x)
      [] what = "infix" -> parse_infix(p, x)
      [] what = "operands" -> parse_operands(p, x.list, x.must)
      [] what = "body" -> parse_body(p, x.block, x.default)
      [] what = "statements" -> parse_statements(p)
      [] what = "continuations" -> parse_continuations(p, x)
slim_parse_string(text) == slim_parse(Parser(text))
=============================================================================
