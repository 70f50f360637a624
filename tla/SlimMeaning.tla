----------------------------- MODULE SlimMeaning ------------------------------
(* What running a Slim program does, told on its syntax trees: the reference its compilation *)
(* is compared with.  A name means its innermost binding; a continuation sees the bindings   *)
(* of the body it is written in, and its fellows; operands are evaluated from left to right; *)
(* a number has the type its place asks for, or else is an i32, or an f32 with a point.       *)
EXTENDS SlimInference

(* What a Slim program says, told without the compiler: its syntax trees, and the text that  *)
(* stands for one, in several layouts.                                                       *)

Tree(tag, name, args) ==
    [tag |-> tag, name |-> name, args |-> args, nums |-> << >>, types |-> << >>, names |-> << >>, params |-> << >>,
     bodies |-> << >>]

num(n) == [Tree("num", "", << >>) EXCEPT !.nums = << n, 0 >>]
number_and_a_half(n) == [Tree("num", "", << >>) EXCEPT !.nums = << n, 1 >>]
num_of(t, n) == [num(n) EXCEPT !.types = << t >>]
truth(b) == Tree("truth", IF b THEN "true" ELSE "false", << >>)
name_(x) == Tree("name", x, << >>)
text_(s) == Tree("text", s, << >>)
un(op, e) == Tree("unary", op, << e >>)
bin(op, a, b) == Tree("binary", op, << a, b >>)
app(f, args) == Tree("call", f, args)
prim(op, args) == Tree("prim", op, args)
prim_of(op, t, args) == [prim(op, args) EXCEPT !.types = << t >>]
made(t, args) == [Tree("composite", "", args) EXCEPT !.types = << t >>]

if_(types, c, bodies) == [Tree("if", "", << c >>) EXCEPT !.types = types, !.bodies = bodies]
loop_(types, params, inits, body) == [Tree("loop", "", inits) EXCEPT !.types = types, !.params = params, !.bodies = << body >>]
control_(types, jp, body) == [Tree("control", jp, << >>) EXCEPT !.types = types, !.bodies = << body >>]

let(names, e) == [Tree("val", "", << e >>) EXCEPT !.names = names]
variable(t, name, e) == [Tree("var", "", << e >>) EXCEPT !.names = << name >>, !.types = << t >>]
do(e) == Tree("do", "", << e >>)
ends(tag, args) == Tree(tag, "", args)
ret(args) == ends("return", args)
join_(jp, args) == Tree("join", jp, args)
jump_(k, args) == Tree("jump", k, args)
branch_(c, t, f) == Tree("branch", "", << c, t, f >>)
tail_(f, args) == Tree("tailcall", f, args)
nothing == Tree("none", "", << >>)

Body_(stmts, end, conts) == [stmts |-> stmts, end |-> end, conts |-> conts]
Cont_(name, params, body) == [name |-> name, params |-> params, body |-> body]
Formal(t, name) == [type |-> varying(t), name |-> name]
fn_(name, types, params, body) ==
    [kind |-> "fn", name |-> name, types |-> types, params |-> params, body |-> << body >>, value |-> nothing, as |-> ""]
const_(name, types, e) ==
    [kind |-> "const", name |-> name, types |-> types, params |-> << >>, body |-> << >>, value |-> e, as |-> ""]
global_(as, t, name, e) ==
    [kind |-> "var", name |-> name, types |-> << t >>, params |-> << >>, body |-> << >>, value |-> e, as |-> as]

-----------------------------------------------------------------------------
(* The text of a tree, with no more parentheses than the operators need.                     *)
Loosest == 10
Binds(op) ==
    CASE op = "#" -> 0 [] op \in {"*", "/", "%"} -> 1 [] op \in {"+", "-"} -> 2 [] op \in {"<<", ">>", ">>>"} -> 3
      [] op = "&" -> 4 [] op = "^" -> 5 [] op = "|" -> 6 [] op = "=" -> Loosest [] OTHER -> 7
Strokes(op) ==
    CASE op = ">>>" -> << sign(">"), sign(">"), sign(">") >> [] op = ">>" -> << sign(">"), sign(">") >>
      [] op = "<<" -> << sign("<"), sign("<") >> [] op = "==" -> << sign("="), sign("=") >>
      [] op = "!=" -> << sign("!"), sign("=") >> [] op = "<=" -> << sign("<"), sign("=") >>
      [] op = ">=" -> << sign(">"), sign("=") >> [] OTHER -> << sign(op) >>

(* A token is the units that must stay together.                                            *)
w(s) == << << word(s) >> >>
o(op) == << Strokes(op) >>
RECURSIVE Listed(_, _)
Listed(texts, separator) ==
    CASE texts = << >> -> << >> [] Len(texts) = 1 -> texts[1] [] OTHER -> texts[1] \o separator \o Listed(Tail(texts), separator)
Parens(text) == o("(") \o text \o o(")")
Args(texts) == Parens(Listed(texts, o(",")))

RECURSIVE TypeText(_), Written(_), BodyText(_)
NumberName(t) == CHOOSE s \in DOMAIN NumericalTypes : NumericalTypes[s] = t
SpaceName(as) == CHOOSE s \in DOMAIN AddressSpaces : AddressSpaces[s] = as
TypeText(t) ==
    CASE t.tag = "Bool" -> w("bool")
      [] t.tag = "PtrType" -> w("ptr") \o w(SpaceName(t.address_space)) \o TypeText(t.pointed_type)
      [] t.tag = "ArrType" -> o("[") \o TypeText(t.element_type) \o o(";") \o << << digits(t.size) >> >> \o o("]")
      [] OTHER -> w(NumberName(t))
TypesText(types) == [i \in DOMAIN types |-> TypeText(types[i])]
FormalText(p) == w(IF p.type.is_uniform THEN "uniform" ELSE "varying") \o TypeText(p.type.type) \o w(p.name)
FormalsText(ps) == [i \in DOMAIN ps |-> FormalText(ps[i])]
NamesText(names) == Listed([i \in DOMAIN names |-> w(names[i])], o(","))
Flat(texts) == Listed(texts, << >>)

Precedence(e) == IF e.tag = "binary" THEN Binds(e.name) ELSE -1
Within(e, limit) == IF Precedence(e) > limit THEN Parens(Written(e)) ELSE Written(e)
(* A sign in front binds more tightly than what follows its operand.                        *)
Operand(e) == IF e.tag \in {"binary", "call"} THEN Parens(Written(e)) ELSE Written(e)
Number_text(e) ==
    << << digits(e.nums[1]) >> \o IF e.nums[2] = 1 THEN << sign("."), digits(5) >> ELSE << >> >>
Written(e) ==
    LET args == [i \in DOMAIN e.args |-> Written(e.args[i])]
    IN  CASE e.tag = "num" -> Flat(TypesText(e.types)) \o Number_text(e)
          [] e.tag \in {"truth", "name"} -> w(e.name)
          [] e.tag = "text" -> << << quoted(e.name) >> >>
          [] e.tag = "unary" -> o(e.name) \o Operand(e.args[1])
          [] e.tag = "binary" -> Within(e.args[1], Binds(e.name)) \o o(e.name) \o Within(e.args[2], Binds(e.name) - 1)
          [] e.tag = "call" -> w(e.name) \o Args(args)
          [] e.tag = "prim" -> w(e.name) \o (IF e.types = << >> THEN << >> ELSE o("[") \o TypeText(e.types[1]) \o o("]")) \o Args(args)
          [] e.tag = "composite" -> w("composite") \o TypeText(e.types[1]) \o Args(args)
          [] e.tag = "if" -> w("if") \o Flat(TypesText(e.types)) \o Parens(args[1])
                             \o Listed([i \in DOMAIN e.bodies |-> BodyText(e.bodies[i])], w("else"))
          [] e.tag = "loop" -> w("loop") \o Flat(TypesText(e.types))
                               \o Args([i \in DOMAIN args |-> FormalText(e.params[i]) \o o("=") \o args[i]]) \o BodyText(e.bodies[1])
          [] e.tag = "control" -> w("control") \o Flat(TypesText(e.types)) \o Parens(w(e.name)) \o BodyText(e.bodies[1])
          [] e.tag = "val" -> w("val") \o NamesText(e.names) \o o("=") \o args[1]
          [] e.tag = "var" -> w("var") \o TypeText(e.types[1]) \o w(e.names[1]) \o o("=") \o args[1]
          [] e.tag = "do" -> args[1]
          [] e.tag = "jump" -> w("jump") \o w(e.name) \o Args(args)
          [] e.tag \in {"join", "tailcall"} -> w(e.tag) \o Parens(w(e.name)) \o Args(args)
          [] e.tag = "branch" -> w("branch") \o Args(<< Operand(e.args[1]), Tail(args[2]), Tail(args[3]) >>)
          [] OTHER -> w(e.tag) \o Args(args)

Constructs == {"if", "loop", "control"}
StatementText(s) == Written(s) \o IF s.args[1].tag \in Constructs THEN << >> ELSE o(";")
ContText(k) == w("cont") \o w(k.name) \o Args(FormalsText(k.params)) \o BodyText(k.body)
BodyText(b) ==
    o("{") \o Flat([i \in DOMAIN b.stmts |-> StatementText(b.stmts[i])])
           \o (IF b.end = nothing THEN << >> ELSE Written(b.end) \o o(";"))
           \o Flat([i \in DOMAIN b.conts |-> ContText(b.conts[i])]) \o o("}")

exported == o("@") \o w("Exported")
DeclText(d) ==
    CASE d.kind = "fn" -> exported \o w("fn") \o w(d.name) \o Listed(TypesText(d.types), o(","))
                          \o Args(FormalsText(d.params)) \o BodyText(d.body[1])
      [] d.kind = "const" -> w("const") \o Flat(TypesText(d.types)) \o w(d.name) \o o("=") \o Written(d.value) \o o(";")
      [] d.kind = "var" -> exported \o w("var") \o w(SpaceName(d.as)) \o TypeText(d.types[1]) \o w(d.name) \o o("=") \o Written(d.value) \o o(";")
ProgramText(decls) == Flat([i \in DOMAIN decls |-> DeclText(decls[i])])

(* Tokens may stand side by side unless they would read as something else.                   *)
Layouts == {"tight", "spaced", "commented"}
joined_words(a, b) == {a[Len(a)].class, b[1].class} \subseteq {"word", "digits"}
comment_start(a, b) == a = << sign("/") >> /\ b[1].s \in {"/", "*"}
Between(a, b, layout) ==
    CASE layout = "spaced" -> << space >>
      [] layout = "commented" -> IF a[1].class = "word" THEN << sign("/"), sign("*"), word("x"), sign("/"), sign("*"), sign("/") >>
                                 ELSE << space, sign("/"), sign("/"), word("x"), newline >>
      [] OTHER -> IF joined_words(a, b) \/ comment_start(a, b) THEN << space >> ELSE << >>
RECURSIVE Laid(_, _)
Laid(tokens, layout) ==
    IF Len(tokens) = 1 THEN tokens[1]
    ELSE tokens[1] \o Between(tokens[1], tokens[2], layout) \o Laid(Tail(tokens), layout)
-----------------------------------------------------------------------------

Ended(sig, id, vals, st) == [sig |-> sig, id |-> id, vals |-> vals, st |-> st]
Gives(vals, st) == Ended("Value", 0, vals, st)

(* What a name stands for; what a function returns is under a name no program has.            *)
Binding_(kind, value, conts, env) == [kind |-> kind, value |-> value, conts |-> conts, env |-> env]
NoNames == [x \in {} |-> Binding_("none", Stuck, << >>, << >>)]
ToValue(value) == Binding_("value", value, << >>, << >>)
ToPlace(ptr) == Binding_("place", ptr, << >>, << >>)
ToJoin(id) == Binding_("join", rv(NoType, id), << >>, << >>)
ToCont(i, conts, env) == Binding_("cont", rv(NoType, i), conts, env)
RECURSIVE Bind(_, _, _)
Bind(env, names, bindings) ==
    IF names = << >> THEN env ELSE Bind((Head(names) :> Head(bindings)) @@ env, Tail(names), Tail(bindings))
Names(formals) == [i \in DOMAIN formals |-> formals[i].name]
TypesOf(formals) == [i \in DOMAIN formals |-> formals[i].type.type]
ToValues(vals) == [i \in DOMAIN vals |-> ToValue(vals[i])]
NoTypes(es) == [i \in DOMAIN es |-> NoType]

OperationOf(op) ==
    CASE op = "+" -> "add" [] op = "*" -> "mul" [] op = "/" -> "div" [] op = "%" -> "mod"
      [] op = "<<" -> "lshift" [] op = ">>" -> "rshift_arithm" [] op = ">>>" -> "rshift_logical"
      [] op = "&" -> "and" [] op = "^" -> "xor" [] op = "|" -> "or"
      [] op = "==" -> "eq" [] op = "!=" -> "neq" [] op = "<" -> "lt" [] op = "<=" -> "lte" [] op = ">" -> "gt"
      [] op = ">=" -> "gte" [] OTHER -> op
ResultType(op, types, ts) ==
    CASE types # << >> -> types[1]
      [] op \in OrderedOps \cup EqualityOps -> Bool
      [] op = "select" -> ts[2]
      [] OTHER -> ts[1]
Computed(op, types, args) == Operated(op, args, ResultType(op, types, [i \in DOMAIN args |-> args[i].t]))

TypeAt(e, t) ==
    CASE e.types # << >> -> e.types[1] [] t # NoType -> t [] e.nums[2] = 1 -> Float [] OTHER -> int32_type
Literal(e, t) == rv(t, IF t = Float THEN 2 * e.nums[1] + e.nums[2] ELSE stored(e.nums[1], t))

ElementOf(value, i) == rv(composite_element_types(value.t)[i + 1], value.v[i + 1])
ElementsOf(value) == [i \in DOMAIN value.v |-> ElementOf(value, i - 1)]
PlaceOf(ptr, i) ==
    rv(PtrType(ptr.t.address_space, composite_element_types(ptr.t.pointed_type)[i + 1]),
       PlaceIn(ptr.v.cell, Append(ptr.v.path, i)))

DeclNamed(P, x) == CHOOSE d \in DOMAIN P : P[d].name = x
IsDecl(P, env, x, kind) == x \notin DOMAIN env /\ P[DeclNamed(P, x)].kind = kind
GlobalPlace(P, d) == rv(PtrType(P[d].as, P[d].types[1]), PlaceIn(d, << >>))
RECURSIVE IsPlace(_, _, _)
IsPlace(P, env, e) ==
    CASE e.tag = "name" -> IF e.name \in DOMAIN env THEN env[e.name].kind = "place" ELSE IsDecl(P, env, e.name, "var")
      [] e.tag = "binary" /\ e.name = "#" -> IsPlace(P, env, e.args[1])
      [] OTHER -> e.tag = "unary" /\ e.name = "*"

-----------------------------------------------------------------------------
(* What happens in P, in a scope and a state.                                                *)
RECURSIVE Happens(_, _, _, _, _)
Eval(P, env, st, e, t) == Happens(P, env, st, "value", [e |-> e, t |-> t])
EvalFrom(P, env, o1, es, types) == Happens(P, env, o1.st, "list", [o1 |-> o1, es |-> es, types |-> types])
Place(P, env, st, e) == Happens(P, env, st, "place", e)
RunBody(P, env, st, b, default) == Happens(P, env, st, "body", [b |-> b, i |-> 1, default |-> default])
RunStatements(P, env, st, b, i, default) == Happens(P, env, st, "body", [b |-> b, i |-> i, default |-> default])
Repeat(P, env, e, o1) == Happens(P, env, o1.st, "loop", [e |-> e, o1 |-> o1])
EndOf(P, env, st, e, default) == Happens(P, env, st, "end", [e |-> e, default |-> default])

Given(P, env, st, es, types) == EvalFrom(P, env, Gives(<< >>, st), es, types)
More(P, env, vals, o1, es, types) == EvalFrom(P, env, [o1 EXCEPT !.vals = vals \o @], es, types)
ListValue(P, env, o1, es, types) ==
    IF es = << >> \/ o1.sig # "Value" THEN o1
    ELSE More(P, env, o1.vals, Eval(P, env, o1.st, Head(es), Head(types)), Tail(es), Tail(types))

(* A place, and what is evaluated to tell which.                                             *)
Element_place(o1, o2) == [o2 EXCEPT !.vals = << PlaceOf(o1.vals[1], o2.vals[1].v) >>]
Subscripted(P, env, o1, e) == Element_place(o1, Eval(P, env, o1.st, e, NoType))
PlaceValue(P, env, st, e) ==
    CASE e.tag = "unary" -> Eval(P, env, st, e.args[1], NoType)
      [] e.tag = "binary" -> Subscripted(P, env, Place(P, env, st, e.args[1]), e.args[2])
      [] e.name \in DOMAIN env -> Gives(<< env[e.name].value >>, st)
      [] OTHER -> Gives(<< GlobalPlace(P, DeclNamed(P, e.name)) >>, st)
Read(o1) == [o1 EXCEPT !.vals = << ReadCell(o1.st, o1.vals[1]) >>]
Written_to(o1, o2) == Gives(<< >>, WriteCell(o2.st, o1.vals[1], o2.vals[1]))
Assigned(P, env, o1, e) == Written_to(o1, Eval(P, env, o1.st, e, o1.vals[1].t.pointed_type))

Constant(P, st, d) == Eval(P, NoNames, st, P[d].value, IF P[d].types = << >> THEN NoType ELSE P[d].types[1])
Named(P, env, st, x) ==
    CASE x \in DOMAIN env -> Gives(<< IF env[x].kind = "place" THEN ReadCell(st, env[x].value) ELSE env[x].value >>, st)
      [] P[DeclNamed(P, x)].kind = "const" -> Constant(P, st, DeclNamed(P, x))
      [] P[DeclNamed(P, x)].kind = "var" -> Gives(<< ReadCell(st, GlobalPlace(P, DeclNamed(P, x))) >>, st)

Operation(o1, op, types) == [o1 EXCEPT !.vals = << Computed(op, types, @) >>]
Printed(o1, text) == Gives(<< >>, [o1.st EXCEPT !.trace = Append(@, << text, o1.vals >>)])
Composed(o1, t) == [o1 EXCEPT !.vals = << rv(t, [i \in DOMAIN @ |-> @[i].v]) >>]

(* A call sees no local names of its caller.                                                 *)
ScopeOf(d, vals) == Bind("return" :> Binding_("types", Stuck, d.types, << >>), Names(d.params), ToValues(vals))
Default(d) == IF d.types = << >> THEN "Return" ELSE ""
Invoke(P, d, o1) == IF o1.sig # "Value" THEN o1 ELSE RunBody(P, ScopeOf(d, o1.vals), o1.st, d.body[1], Default(d))
Leave(o1, sig) == IF o1.sig = sig THEN [o1 EXCEPT !.sig = "Value"] ELSE o1
CallOf(P, env, st, d, args) == Invoke(P, d, Given(P, env, st, args, TypesOf(d.params)))

Again(P, env, e, o1) == IF o1.sig = "MergeContinue" THEN Repeat(P, env, e, o1) ELSE Leave(o1, "MergeBreak")
LoopValue(P, env, e, o1) ==
    Again(P, env, e, RunBody(P, Bind(env, Names(e.params), ToValues(o1.vals)), o1.st, e.bodies[1], "MergeContinue"))
Choose_case(P, env, o1, bodies) ==
    CASE o1.vals[1].v -> Leave(RunBody(P, env, o1.st, bodies[1], "MergeSelection"), "MergeSelection")
      [] Len(bodies) = 2 -> Leave(RunBody(P, env, o1.st, bodies[2], "MergeSelection"), "MergeSelection")
      [] OTHER -> Gives(<< >>, o1.st)
JoinedAt(o1, id) == IF o1.id = id THEN Leave(o1, "Join") ELSE o1
InControl(P, env, st, e) == JoinedAt(RunBody(P, (e.name :> ToJoin(st.joins)) @@ env, st, e.bodies[1], ""), st.joins)

ElementValue(o1) == [o1 EXCEPT !.vals = << ElementOf(@[1], @[2].v) >>]
TreeValue(P, env, st, e, t) ==
    CASE e.tag = "num" -> Gives(<< Literal(e, TypeAt(e, t)) >>, st)
      [] e.tag = "truth" -> Gives(<< rv(Bool, e.name = "true") >>, st)
      [] IsPlace(P, env, e) -> Read(Place(P, env, st, e))
      [] e.tag = "name" -> Named(P, env, st, e.name)
      [] e.tag = "unary" /\ e.name = "&" -> Place(P, env, st, e.args[1])
      [] e.tag = "unary" -> Operation(Eval(P, env, st, e.args[1], NoType), IF e.name = "-" THEN "neg" ELSE "not", << >>)
      [] e.tag = "binary" /\ e.name = "=" -> Assigned(P, env, Place(P, env, st, e.args[1]), e.args[2])
      [] e.tag = "binary" /\ e.name = "-" -> Operation(Given(P, env, st, e.args, NoTypes(e.args)), "sub", << >>)
      [] e.tag = "binary" /\ e.name = "#" -> ElementValue(Given(P, env, st, e.args, NoTypes(e.args)))
      [] e.tag = "binary" -> Operation(Given(P, env, st, e.args, NoTypes(e.args)), OperationOf(e.name), << >>)
      [] e.tag = "prim" /\ e.name = "debug_printf" ->
            Printed(Given(P, env, st, Tail(e.args), NoTypes(Tail(e.args))), e.args[1].name)
      [] e.tag = "prim" /\ e.name = "alloca" ->
            Gives(<< rv(PtrType("Private", e.types[1]), PlaceIn(Len(st.mem) + 1, << >>)) >>, NewCell(st))
      [] e.tag = "prim" -> Operation(Given(P, env, st, e.args, NoTypes(e.args)), e.name, e.types)
      [] e.tag = "composite" -> Composed(Given(P, env, st, e.args, composite_element_types(e.types[1])), e.types[1])
      [] e.tag = "call" -> Leave(CallOf(P, env, st, P[DeclNamed(P, e.name)], e.args), "Return")
      [] e.tag = "if" -> Choose_case(P, env, Eval(P, env, st, e.args[1], Bool), e.bodies)
      [] e.tag = "loop" -> Repeat(P, env, e, Given(P, env, st, e.args, TypesOf(e.params)))
      [] e.tag = "control" -> InControl(P, env, [st EXCEPT !.joins = @ + 1], e)

-----------------------------------------------------------------------------
(* Bodies: the statements, then how the body ends, which is where its continuations are seen. *)
WithConts(env, conts) == Bind(env, Names(conts), [i \in DOMAIN conts |-> ToCont(i, conts, env)])
RunCont(P, st, k, vals) ==
    LET cont == k.conts[k.value.v]
    IN  RunBody(P, Bind(WithConts(k.env, k.conts), Names(cont.params), ToValues(vals)), st, cont.body, "")
Signal(o1, sig, id) == IF o1.sig = "Value" THEN Ended(sig, id, o1.vals, o1.st) ELSE o1
GoTo(P, env, o1, name) == IF o1.sig = "Value" THEN RunCont(P, o1.st, env[name], o1.vals) ELSE o1

Branched(P, env, o1, e, default) == EndOf(P, env, o1.st, IF o1.vals[1].v THEN e.args[2] ELSE e.args[3], default)
BodyEnd(P, env, st, e, default) ==
    CASE e.tag = "none" -> Ended(default, 0, << >>, st)
      [] e.tag = "return" -> Signal(Given(P, env, st, e.args, env["return"].conts), "Return", 0)
      [] e.tag = "branch" -> Branched(P, env, Eval(P, env, st, e.args[1], Bool), e, default)
      [] e.tag = "tailcall" -> Invoke(P, P[DeclNamed(P, e.name)], Given(P, env, st, e.args, NoTypes(e.args)))
      [] e.tag = "jump" -> GoTo(P, env, Given(P, env, st, e.args, NoTypes(e.args)), e.name)
      [] e.tag = "join" -> Signal(Given(P, env, st, e.args, NoTypes(e.args)), "Join", env[e.name].value.v)
      [] e.tag = "merge_selection" -> Signal(Given(P, env, st, e.args, NoTypes(e.args)), "MergeSelection", 0)
      [] e.tag = "continue" -> Signal(Given(P, env, st, e.args, NoTypes(e.args)), "MergeContinue", 0)
      [] e.tag = "break" -> Signal(Given(P, env, st, e.args, NoTypes(e.args)), "MergeBreak", 0)

Variable(P, env, b, i, default, ptr, o1) ==
    RunStatements(P, (b.stmts[i].names[1] :> ToPlace(ptr)) @@ env, WriteCell(NewCell(o1.st), ptr, o1.vals[1]), b, i + 1, default)
Given_names(names, vals) == IF Len(names) = Len(vals) THEN vals ELSE ElementsOf(vals[1])
RunStatement(P, env, b, i, default, o1) ==
    CASE o1.sig # "Value" -> o1
      [] b.stmts[i].tag = "do" -> RunStatements(P, env, o1.st, b, i + 1, default)
      [] b.stmts[i].tag = "val" ->
            RunStatements(P, Bind(env, b.stmts[i].names, ToValues(Given_names(b.stmts[i].names, o1.vals))), o1.st, b, i + 1, default)
      [] b.stmts[i].tag = "var" ->
            Variable(P, env, b, i, default, rv(PtrType("Private", b.stmts[i].types[1]), PlaceIn(Len(o1.st.mem) + 1, << >>)), o1)
BodyFrom(P, env, st, b, i, default) ==
    IF i > Len(b.stmts) THEN EndOf(P, WithConts(env, b.conts), st, b.end, default)
    ELSE RunStatement(P, env, b, i, default,
                      Eval(P, env, st, b.stmts[i].args[1], IF b.stmts[i].tag = "var" THEN b.stmts[i].types[1] ELSE NoType))

Happens(P, env, st, what, x) ==
    CASE what = "value" -> TreeValue(P, env, st, x.e, x.t)
      [] what = "list" -> ListValue(P, env, x.o1, x.es, x.types)
      [] what = "place" -> PlaceValue(P, env, st, x)
      [] what = "body" -> BodyFrom(P, env, st, x.b, x.i, x.default)
      [] what = "loop" -> LoopValue(P, env, x.e, x.o1)
      [] what = "end" -> BodyEnd(P, env, st, x.e, x.default)

-----------------------------------------------------------------------------
(* What is seen from outside: what main returns and prints, and the variables of the module. *)
Observed(o1, count) == [sig |-> o1.sig, vals |-> o1.vals, trace |-> o1.st.trace, globals |-> SubSeq(o1.st.mem, 1, count)]
InitialCell(P, d) ==
    IF P[d].kind = "var" THEN << Eval(P, NoNames, Start(<< >>), P[d].value, P[d].types[1]).vals[1].v >> ELSE << >>
Meant(P, args) ==
    Observed(Invoke(P, P[DeclNamed(P, "main")], Gives(args, Start([d \in DOMAIN P |-> InitialCell(P, d)]))), Len(P))
=============================================================================
