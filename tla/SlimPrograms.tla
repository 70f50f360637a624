---------------------------- MODULE SlimPrograms -----------------------------
(* Programs to compile: every pair of operators, every way a few names can hide one another,  *)
(* and programs after those of test/ (control flow, memory, declarations); then programs with *)
(* a mistake.  A source is [decls, without, right]: the text of the declarations, less the     *)
(* token at without, and whether it is a program.                                             *)
EXTENDS SlimMeaning

i32 == int32_type
u32 == uint32_type
u8 == NumericalTypes.u8
a_ == name_("a")
b_ == name_("b")
c_ == name_("c")
x_ == name_("x")
y_ == name_("y")

Right(decls) == [decls |-> decls, without |-> 0, right |-> TRUE]
Wrong(decls) == [decls |-> decls, without |-> 0, right |-> FALSE]
Less(decls, k) == [decls |-> decls, without |-> k, right |-> FALSE]

Ints(names) == [i \in DOMAIN names |-> Formal(i32, names[i])]
say(es) == do(prim("debug_printf", << text_("v") >> \o es))
Main(stmts, end, conts) == fn_("main", << i32 >>, Ints(<< "a", "b" >>), Body_(stmts, end, conts))
Block(stmts, end) == Body_(stmts, end, << >>)
Just(end) == Block(<< >>, end)
set(place, e) == do(bin("=", place, e))

-----------------------------------------------------------------------------
(* Operators: every pair, in both shapes.                                                    *)
Arithmetic == << "*", "/", "%", "+", "-", "<<", ">>", ">>>", "&", "^", "|" >>
Comparisons == << "==", "!=", "<", "<=", ">", ">=" >>
Connectives == << "&", "^", "|", "==", "!=" >>
Shapes(op1, op2) == << bin(op2, bin(op1, a_, b_), c_), bin(op1, a_, bin(op2, b_, c_)) >>
PairsWith(op1, ops) == Flat([i \in DOMAIN ops |-> Shapes(op1, ops[i])])
Compared(op, cmp) == << bin(cmp, bin(op, a_, b_), c_), bin(cmp, a_, bin(op, b_, c_)) >>
Signed(op) ==
    << bin(op, un("-", a_), b_), un("-", bin(op, a_, b_)), bin(op, a_, un("-", b_)), un("!", bin(op, a_, b_)),
       bin(op, un("!", a_), num(1)), bin(op, num_of(i32, -2), un("-", un("-", b_))) >>
Connected(cmp, con) == << bin(con, bin(cmp, a_, b_), bin("<", c_, a_)), bin(con, un("!", bin(cmp, a_, b_)), truth(TRUE)) >>

Saying(es) == << fn_("main", << >>, Ints(<< "a", "b", "c" >>), Block(<< say(es) >>, nothing)) >>
Operators ==
    [i \in DOMAIN Arithmetic |->
        Right(Saying(PairsWith(Arithmetic[i], Arithmetic) \o Signed(Arithmetic[i])
                     \o Flat([j \in DOMAIN Comparisons |-> Compared(Arithmetic[i], Comparisons[j])])))]
    \o [i \in DOMAIN Comparisons |->
          Right(Saying(Flat([j \in DOMAIN Connectives |-> Connected(Comparisons[i], Connectives[j])])))]

-----------------------------------------------------------------------------
(* Names: x and y stand for variables of the module, for a parameter, for what the body       *)
(* binds, for what a case or a loop binds in it, and for what a continuation is given.  One   *)
(* of them is written to where the innermost binding may or may not be a place.               *)
Kinds == << "val", "var" >>
binding(kind, x, e) == IF kind = "val" THEN let(<< x >>, e) ELSE variable(i32, x, e)
both == say(<< x_, y_ >>)
sum == bin("+", x_, bin("*", num(3), y_))
Hiding(n) ==
    << global_("Private", i32, "x", num(1)), global_("Private", i32, "y", num(2)),
       fn_("main", << i32 >>, << Formal(i32, n.param) >>,
           Body_(<< both, binding(n.outer_kind, n.outer, bin("+", sum, num(1))), both,
                    do(if_(<< >>, bin("<", x_, y_), << Block(<< binding(n.inner_kind, n.inner, sum), both,
                                                                set(name_(n.written), bin("+", y_, num(7))), both >>, nothing) >>)),
                    both >>,
                 jump_("k", << bin("-", x_, y_) >>),
                 << Cont_("k", Ints(<< n.cont >>), Block(<< both, set(name_(n.late), num(5)), both >>, ret(<< sum >>))) >>)) >>
IsVariable(n, x) ==
    IF n.outer = x THEN n.outer_kind = "var" ELSE n.param # x
Writable(n) ==
    /\ IF n.inner = n.written THEN n.inner_kind = "var" ELSE IsVariable(n, n.written)
    /\ n.cont # n.late /\ IsVariable(n, n.late)
XY == {"x", "y"}
Hidings ==
    [param : XY, outer : XY, outer_kind : {"val", "var"}, inner : XY, inner_kind : {"val", "var"}, written : XY,
     cont : XY, late : XY]
HidingSource(n) == [decls |-> Hiding(n), without |-> 0, right |-> Writable(n)]

-----------------------------------------------------------------------------
(* Control flow.                                                                            *)
lt(p, q) == bin("<", p, q)
add(p, q) == bin("+", p, q)
i_ == name_("i")
n_ == name_("n")
when(c, end) == do(if_(<< >>, c, << Just(end) >>))
brk(args) == ends("break", args)
cnt(args) == ends("continue", args)
sel(args) == ends("merge_selection", args)

ControlFlow ==
    << Main(<< let(<< "r" >>, if_(<< i32 >>, lt(a_, b_), << Just(sel(<< add(a_, num(1)) >>)),
                                     Block(<< let(<< "t" >>, bin("*", b_, num(2))) >>, sel(<< name_("t") >>)) >>)) >>,
            ret(<< name_("r") >>), << >>),
       Main(<< let(<< "p", "q" >>, if_(<< i32, i32 >>, lt(a_, b_), << Just(sel(<< b_, a_ >>)), Just(sel(<< a_, num(9) >>)) >>)) >>,
            ret(<< bin("-", name_("p"), name_("q")) >>), << >>),
       Main(<< variable(i32, "x", num(0)),
               do(if_(<< >>, lt(a_, b_), << Block(<< set(x_, num(1)), when(lt(num(1), a_), ret(<< num(42) >>)) >>, nothing),
                                             Block(<< set(x_, add(x_, num(2))) >>, sel(<< >>)) >>)) >>,
            ret(<< x_ >>), << >>),
       Main(<< let(<< "s" >>, loop_(<< i32 >>, Ints(<< "i", "n" >>), << num(0), a_ >>,
                                       Block(<< say(<< i_ >>), when(bin(">=", i_, num(3)), brk(<< n_ >>)),
                                                when(bin("==", i_, num(1)), cnt(<< add(i_, num(2)), bin("*", n_, num(3)) >>)) >>,
                                             cnt(<< add(i_, num(1)), add(n_, b_) >>)))) >>,
            ret(<< name_("s") >>), << >>),
       Main(<< variable(i32, "x", num(0)),
               do(loop_(<< >>, Ints(<< "i" >>), << num(0) >>,
                        Block(<< do(loop_(<< >>, Ints(<< "n" >>), << i_ >>,
                                          Block(<< set(x_, add(bin("*", x_, num(2)), n_)), when(lt(num(1), n_), brk(<< >>)) >>,
                                                cnt(<< add(n_, num(1)) >>)))),
                                 when(bin("==", i_, num(2)), brk(<< >>)) >>,
                              cnt(<< add(i_, num(1)) >>)))) >>,
            ret(<< x_ >>), << >>),
       Main(<< variable(i32, "x", a_),
               do(loop_(<< >>, << >>, << >>, Block(<< set(x_, add(x_, b_)), when(bin("!=", bin("&", x_, num(1)), num(0)), brk(<< >>)),
                                                      when(lt(num(9), x_), ret(<< num(7) >>)), set(x_, add(x_, num(1))) >>, nothing))) >>,
            ret(<< x_ >>), << >>),
       Main(<< let(<< "r" >>, control_(<< i32 >>, "jp", Block(<< when(lt(a_, b_), join_("jp", << a_ >>)), say(<< b_ >>) >>,
                                                                join_("jp", << bin("*", b_, num(2)) >>)))) >>,
            ret(<< add(name_("r"), num(1)) >>), << >>),
       Main(<< let(<< "r" >>, control_(<< i32 >>, "j",
                 Block(<< let(<< "s" >>, control_(<< i32 >>, "k",
                             Block(<< when(lt(a_, b_), join_("j", << num(10) >>)),
                                      do(loop_(<< >>, Ints(<< "i" >>), << a_ >>,
                                               Block(<< when(lt(num(4), i_), join_("k", << i_ >>)) >>, cnt(<< add(i_, num(2)) >>)))) >>,
                                   ends("unreachable", << >>)))) >>,
                       join_("j", << add(name_("s"), num(100)) >>)))) >>,
            ret(<< name_("r") >>), << >>),
       Main(<< >>, jump_("k", << num(0), a_ >>),
            << Cont_("k", Ints(<< "i", "n" >>),
                     Block(<< say(<< i_, n_ >>), let(<< "go" >>, lt(i_, num(3))) >>,
                           branch_(name_("go"), jump_("k", << add(i_, num(1)), add(n_, b_) >>), jump_("l", << n_ >>)))),
               Cont_("l", Ints(<< "a" >>), Just(ret(<< bin("-", a_, b_) >>))) >>),
       Main(<< let(<< "x" >>, num(1)) >>, jump_("p", << a_ >>),
            << Cont_("p", Ints(<< "x" >>),
                     Body_(<< >>, branch_(lt(x_, num(2)), jump_("q", << add(x_, num(3)) >>), jump_("r", << >>)),
                           << Cont_("r", << >>, Just(ret(<< bin("*", x_, num(10)) >>))) >>)),
               Cont_("q", Ints(<< "y" >>), Just(jump_("p", << add(y_, x_) >>))) >>),
       Main(<< do(if_(<< >>, lt(a_, b_),
                      << Body_(<< >>, jump_("k", << num(1) >>),
                               << Cont_("k", Ints(<< "n" >>), Block(<< say(<< n_ >>) >>, sel(<< >>))) >>) >>)) >>,
            jump_("k", << num(2) >>), << Cont_("k", Ints(<< "n" >>), Block(<< say(<< n_ >>) >>, ret(<< n_ >>))) >>),
       Main(<< let(<< "r" >>, control_(<< i32 >>, "jp",
                 Body_(<< >>, branch_(lt(a_, b_), jump_("k", << a_ >>), jump_("k", << b_ >>)),
                       << Cont_("k", Ints(<< "n" >>), Just(join_("jp", << add(n_, n_) >>))) >>))) >>,
            ret(<< name_("r") >>), << >>) >>

-----------------------------------------------------------------------------
(* Memory: variables, arrays, pointers, and the order in which places are read and written.   *)
Array(n) == ArrType(i32, n)
at(p, i) == bin("#", p, i)
t_ == name_("t")
g_ == name_("g")
of2(p, q) == made(Array(2), << p, q >>)
Ptr(t) == PtrType("Private", t)
bump == fn_("bump", << i32 >>, << >>, Block(<< set(g_, add(g_, num(1))) >>, ret(<< g_ >>)))
Global == global_("Private", i32, "g", num(4))
even(e) == bin("&", e, num(1))

Memory ==
    << << Main(<< variable(Array(3), "t", made(Array(3), << a_, b_, num(1) >>)), set(at(t_, num(1)), add(at(t_, num(0)), at(t_, num(2)))),
                  set(at(t_, even(a_)), num(8)), say(<< at(t_, num(0)), at(t_, num(1)), at(t_, even(b_)) >>) >>,
               ret(<< at(t_, num(1)) >>), << >>) >>,
       << Main(<< variable(ArrType(Array(2), 2), "t", made(ArrType(Array(2), 2), << of2(a_, b_), of2(num(1), num(2)) >>)),
                  set(at(at(t_, even(a_)), num(1)), add(at(at(t_, num(1)), num(0)), num(5))), let(<< "x" >>, at(t_, num(0))),
                  set(at(t_, num(1)), x_), let(<< "p", "q" >>, x_), say(<< name_("p"), name_("q") >>) >>,
               ret(<< add(at(x_, num(1)), at(at(t_, num(1)), num(1))) >>), << >>) >>,
       << Main(<< variable(i32, "x", a_), let(<< "p" >>, un("&", x_)), let(<< "y" >>, x_),
                  set(un("*", name_("p")), add(un("*", name_("p")), b_)), say(<< x_, y_ >>) >>, ret(<< un("*", name_("p")) >>), << >>) >>,
       << fn_("put", << >>, << Formal(Ptr(i32), "p"), Formal(i32, "v") >>, Block(<< set(un("*", name_("p")), name_("v")) >>, nothing)),
          Main(<< variable(Array(2), "t", of2(a_, b_)), do(app("put", << un("&", at(t_, even(b_))), num(6) >>)) >>,
               ret(<< add(at(t_, num(0)), at(t_, num(1))) >>), << >>) >>,
       << Global, bump, Main(<< say(<< add(g_, app("bump", << >>)), add(app("bump", << >>), g_) >>) >>,
                             ret(<< bin("-", app("bump", << >>), bin("*", g_, app("bump", << >>))) >>), << >>) >>,
       << Global, bump, Main(<< variable(Array(8), "t", made(Array(8), [i \in 1..8 |-> num(i)])),
                                set(at(t_, g_), app("bump", << >>)), set(at(t_, app("bump", << >>)), g_), set(g_, add(g_, app("bump", << >>))) >>,
                             ret(<< add(at(t_, num(4)), at(t_, num(6))) >>), << >>) >>,
       << Main(<< let(<< "p" >>, prim_of("alloca", i32, << >>)), set(un("*", name_("p")), a_),
                  let(<< "t" >>, of2(add(un("*", name_("p")), num(1)), b_)) >>, ret(<< bin("*", at(t_, num(0)), at(t_, num(1))) >>), << >>) >>,
       << global_("Private", Array(2), "g", of2(num(3), num_of(i32, -4))), Main(<< set(at(g_, even(a_)), b_), let(<< "t" >>, g_), set(at(g_, num(0)), num(0)) >>,
               ret(<< add(at(t_, num(0)), at(g_, num(1))) >>), << >>) >>,
       << Main(<< variable(Ptr(i32), "p", prim_of("alloca", i32, << >>)), variable(i32, "x", a_), set(un("*", name_("p")), b_),
                  let(<< "q" >>, un("&", name_("p"))), set(un("*", name_("q")), un("&", x_)) >>,
               ret(<< un("*", un("*", name_("q"))) >>), << >>) >> >>

-----------------------------------------------------------------------------
(* Declarations, calls, and the types of numbers.                                           *)
fib ==
    fn_("fib", << i32 >>, Ints(<< "n" >>),
        Block(<< when(lt(n_, num(2)), ret(<< n_ >>)) >>, ret(<< add(app("fib", << bin("-", n_, num(1)) >>), app("fib", << bin("-", n_, num(2)) >>)) >>)))
half == number_and_a_half(1)
floats(e) == fn_("scaled", << Float >>, << Formal(Float, "f") >>, Just(ret(<< e >>)))

Declarations ==
    << << Main(<< >>, ret(<< add(app("f", << app("f", << a_, b_ >>), num(2) >>), name_("late")) >>), << >>),
          fn_("f", << i32 >>, Ints(<< "b", "a" >>), Just(ret(<< bin("-", a_, bin("*", b_, name_("late"))) >>))),
          const_("late", << i32 >>, add(name_("base"), num(1))), const_("base", << i32 >>, num(5)) >>,
       << fib, Main(<< >>, ret(<< app("fib", << bin("%", b_, num(5)) >>) >>), << >>) >>,
       << const_("one", << i32 >>, num(1)), Main(<< variable(Array(2), "t", of2(a_, b_)), set(at(t_, name_("one")), num(4)), let(<< "x" >>, t_) >>,
               ret(<< at(x_, name_("one")) >>), << >>) >>,
       << fn_("main", << >>, Ints(<< "a", "b" >>), Just(tail_("down", << a_, num(3) >>))),
          fn_("down", << >>, Ints(<< "a", "n" >>),
              Block(<< say(<< a_, n_ >>), when(bin("<=", n_, num(0)), ret(<< >>)) >>, tail_("down", << add(a_, n_), bin("-", n_, num(1)) >>))) >>,
       << fn_("main", << u8, u32 >>, Ints(<< "a", "b" >>),
              Block(<< let(<< "s" >>, add(num_of(u8, 3), num_of(u8, 2))), variable(u32, "x", num(9)), set(x_, add(x_, prim_of("reinterpret", u32, << a_ >>))) >>,
                    ret(<< name_("s"), x_ >>))) >>,
       << floats(bin("*", name_("f"), num_of(Float, 4))),
          Main(<< let(<< "r" >>, app("scaled", << bin("-", prim_of("convert", Float, << a_ >>), half) >>)), say(<< name_("r"), bin("<", name_("r"), half) >>) >>,
               ret(<< prim_of("convert", i32, << name_("r") >>) >>), << >>) >>,
       << fn_("pick", << i32 >>, << Formal(Bool, "c"), Formal(i32, "n") >>, Just(ret(<< prim("select", << c_, n_, un("-", n_) >>) >>))),
          Main(<< let(<< "m" >>, prim("min", << a_, b_ >>)), let(<< "c" >>, lt(name_("m"), a_)) >>,
               ret(<< add(app("pick", << c_, name_("m") >>), app("pick", << un("!", c_), prim("max", << a_, b_ >>) >>)) >>), << >>) >> >>

Programs == [i \in DOMAIN ControlFlow |-> Right(<< ControlFlow[i] >>)] \o [i \in DOMAIN Memory |-> Right(Memory[i])]
            \o [i \in DOMAIN Declarations |-> Right(Declarations[i])]

-----------------------------------------------------------------------------
(* Variables that can go: after test/opt, and where a pointer is cast, a value is stored on    *)
(* some ways only, in a loop, or by somebody else, a control joins at once, or what nobody     *)
(* reads is computed by a call.  A pointer to a variable is not an operand of anything but     *)
(* these.                                                                                    *)
p_ == name_("p")
q_ == name_("q")
cast(op, as, t, e) == prim_of(op, PtrType(as, t), << e >>)
generic(t, e) == cast("convert", "Generic", t, e)
as_u32(e) == cast("reinterpret", "Private", u32, e)
to_u32(e) == prim_of("reinterpret", u32, << e >>)
at_ptr(e) == un("*", e)
counted(inits, stmts, last) ==
    do(loop_(<< >>, Ints(<< "i" >>), << inits >>, Block(stmts \o << when(bin(">=", i_, last), brk(<< >>)) >>, cnt(<< add(i_, num(1)) >>))))
unsigned(stmts, end) == fn_("main", << u32 >>, Ints(<< "a", "b" >>), Block(stmts, end))
put == fn_("put", << >>, << Formal(Ptr(i32), "p"), Formal(i32, "v") >>, Block(<< set(at_ptr(p_), name_("v")) >>, nothing))
stored_by(stmts, tail) ==
    Main(<< variable(i32, "x", num(0)) >>, branch_(lt(num(0), a_), jump_("t", << >>), jump_("j", << >>)),
         << Cont_("t", << >>, Block(<< set(x_, a_) >> \o stmts, jump_("j", << >>))), Cont_("j", << >>, Block(tail, ret(<< x_ >>))) >>)

Optimized ==
    << << Main(<< variable(i32, "x", num(0)), set(x_, num(1)) >>, ret(<< x_ >>), << >>) >>,
       << stored_by(<< >>, << set(x_, num(1)) >>) >>,
       << stored_by(<< say(<< x_ >>) >>, << >>) >>,
       << Main(<< variable(i32, "x", a_) >>, ret(<< at_ptr(generic(i32, un("&", x_))) >>), << >>) >>,
       << unsigned(<< variable(i32, "x", a_), set(x_, add(x_, b_)) >>, ret(<< at_ptr(as_u32(un("&", x_))) >>)) >>,
       << unsigned(<< variable(i32, "x", a_), let(<< "p" >>, un("&", x_)), let(<< "q" >>, generic(u32, as_u32(p_))), let(<< "y" >>, at_ptr(q_)),
                      set(at_ptr(p_), b_) >>, ret(<< add(y_, at_ptr(q_)) >>)) >>,
       << put, Main(<< variable(i32, "x", a_), do(app("put", << un("&", x_), b_ >>)) >>, ret(<< x_ >>), << >>) >>,
       << Main(<< variable(i32, "x", a_), set(at_ptr(as_u32(un("&", x_))), to_u32(b_)) >>, ret(<< x_ >>), << >>) >>,
       << Main(<< variable(i32, "x", a_), let(<< "p" >>, un("&", x_)), set(at_ptr(generic(i32, p_)), b_), let(<< "y" >>, at_ptr(p_)),
                  set(x_, add(y_, num(1))) >>, ret(<< at_ptr(generic(i32, p_)) >>), << >>) >>,
       << Global, bump, Main(<< variable(i32, "x", app("bump", << >>)), variable(i32, "y", a_), set(x_, app("bump", << >>)) >>, ret(<< g_ >>), << >>) >>,
       << Main(<< let(<< "x" >>, control_(<< i32 >>, "jp", Just(join_("jp", << add(a_, b_) >>)))),
                  let(<< "y" >>, control_(<< i32 >>, "j", Block(<< let(<< "n" >>, control_(<< i32 >>, "k", Block(<< say(<< x_ >>) >>, join_("k", << x_ >>)))) >>,
                                                                 join_("j", << bin("*", n_, b_) >>)))) >>,
               ret(<< bin("-", x_, y_) >>), << >>) >>,
       << Main(<< let(<< "y" >>, control_(<< i32 >>, "j", Block(<< do(control_(<< >>, "k", Just(join_("j", << a_ >>)))), say(<< b_ >>) >>, join_("j", << b_ >>)))) >>,
               ret(<< y_ >>), << >>) >>,
       << Main(<< let(<< "x" >>, num(3)) >>, jump_("k", << b_, a_ >>),
               << Cont_("k", Ints(<< "a", "n" >>), Block(<< let(<< "y" >>, add(a_, x_)) >>, jump_("l", << n_, y_ >>))),
                  Cont_("l", Ints(<< "n", "b" >>), Block(<< say(<< n_, b_ >>) >>, ret(<< bin("-", n_, b_) >>))) >>) >>,
       << Main(<< variable(i32, "x", a_), counted(num(0), << say(<< x_ >>), set(x_, b_) >>, num(2)) >>, ret(<< x_ >>), << >>) >>,
       << Main(<< variable(i32, "x", a_), variable(i32, "y", b_), counted(num(0), << variable(i32, "t", x_), set(x_, add(t_, i_)), set(t_, x_), say(<< t_, y_ >>) >>, num(2)) >>,
               ret(<< bin("-", x_, y_) >>), << >>) >>,
       << Main(<< variable(i32, "x", num(0)), variable(i32, "y", b_),
                  do(if_(<< >>, lt(a_, b_), << Block(<< set(x_, num(1)) >>, sel(<< >>)), Block(<< set(x_, num(2)), set(y_, add(x_, y_)) >>, sel(<< >>)) >>)) >>,
               ret(<< add(x_, y_) >>), << >>) >>,
       << Main(<< variable(i32, "x", a_), variable(i32, "y", b_), variable(i32, "n", x_), set(x_, y_), set(y_, n_), say(<< x_, y_ >>) >>,
               ret(<< bin("-", x_, y_) >>), << >>) >>,
       << Main(<< variable(i32, "x", a_), variable(Ptr(i32), "p", un("&", x_)), set(at_ptr(p_), add(x_, b_)), set(x_, add(at_ptr(p_), num(1))) >>,
               ret(<< at_ptr(p_) >>), << >>) >>,
       << Main(<< variable(Array(2), "t", of2(a_, b_)), variable(i32, "x", at(t_, num(1))), set(at(t_, num(0)), x_), variable(Array(2), "q", t_) >>,
               ret(<< add(at(q_, num(0)), at(t_, num(1))) >>), << >>) >>,
       << Main(<< variable(i32, "x", a_), do(if_(<< >>, lt(a_, b_), << Block(<< set(x_, b_), when(lt(num(2), b_), ret(<< x_ >>)) >>, nothing) >>)) >>,
               ret(<< bin("*", x_, x_) >>), << >>) >> >>

-----------------------------------------------------------------------------
(* Mistakes.                                                                                *)
ReturnOf(e) == Main(<< >>, ret(<< e >>), << >>)
Does(s) == Main(<< s >>, ret(<< a_ >>), << >>)
identity == fn_("f", << i32 >>, Ints(<< "n" >>), Just(ret(<< n_ >>)))
returning == Cont_("k", Ints(<< "n" >>), Just(ret(<< n_ >>)))
Mistakes ==
    << << ReturnOf(name_("z")) >>,
       << identity, ReturnOf(app("f", << >>)) >>,
       << identity, ReturnOf(app("f", << a_, b_ >>)) >>,
       << identity, ReturnOf(app("f", << truth(TRUE) >>)) >>,
       << ReturnOf(app("a", << b_ >>)) >>,
       << ReturnOf(add(a_, num_of(u32, 1))) >>,
       << ReturnOf(add(a_, truth(TRUE))) >>,
       << ReturnOf(un("-", lt(a_, b_))) >>,
       << ReturnOf(bin("&", half, half)) >>,
       << ReturnOf(un("*", a_)) >>,
       << ReturnOf(un("&", a_)) >>,
       << ReturnOf(at(a_, num(0))) >>,
       << Does(set(a_, num(1))) >>,
       << Does(set(num(1), a_)) >>,
       << Does(set(add(a_, b_), a_)) >>,
       << Does(when(a_, ret(<< a_ >>))) >>,
       << Does(variable(i32, "x", truth(TRUE))) >>,
       << ReturnOf(at(of2(a_, b_), truth(FALSE))) >>,
       << Main(<< variable(i32, "x", a_), set(x_, lt(a_, b_)) >>, ret(<< x_ >>), << >>) >>,
       << Main(<< do(if_(<< >>, lt(a_, b_), << Block(<< let(<< "x" >>, a_) >>, nothing) >>)) >>, ret(<< x_ >>), << >>) >>,
       << Main(<< do(loop_(<< >>, Ints(<< "i" >>), << num(0) >>, Just(brk(<< >>)))) >>, ret(<< i_ >>), << >>) >>,
       << Main(<< >>, ret(<< n_ >>), << returning >>) >>,
       << Main(<< let(<< "x" >>, name_("k")) >>, jump_("k", << a_ >>), << returning >>) >>,
       << Main(<< >>, jump_("k", << >>), << returning >>) >>,
       << Main(<< >>, jump_("k", << truth(TRUE) >>), << returning >>) >>,
       << Main(<< >>, jump_("l", << a_ >>), << returning >>) >>,
       << Main(<< >>, jump_("a", << a_ >>), << >>) >>,
       << Main(<< >>, join_("a", << a_ >>), << >>) >>,
       << Main(<< do(control_(<< i32 >>, "jp", Just(join_("jp", << >>)))) >>, ret(<< a_ >>), << >>) >>,
       << identity, Main(<< >>, tail_("f", << a_ >>), << >>) >>,
       << Main(<< >>, nothing, << >>) >>,
       << Global, const_("c", << i32 >>, add(g_, num(1))), ReturnOf(c_) >>,
       << const_("c", << >>, num(1)), ReturnOf(c_) >> >>

(* A program from which no token but a few can be taken.                                     *)
Small == << Main(<< let(<< "x" >>, add(a_, num(1))) >>, ret(<< x_ >>), << >>) >>
SmallText == ProgramText(Small)
Needed ==
    {k \in DOMAIN SmallText : SmallText[k] \notin {<< word("Exported") >>, << word("i32") >>, << sign("+") >>, << sign(",") >>}
                              /\ k < Len(SmallText) - 3}

Families == {"operators", "names", "programs", "optimized", "mistakes", "missing"}
ChoicesOf(family) ==
    CASE family = "operators" -> DOMAIN Operators [] family = "names" -> Hidings [] family = "programs" -> DOMAIN Programs
      [] family = "optimized" -> DOMAIN Optimized
      [] family = "mistakes" -> DOMAIN Mistakes [] family = "missing" -> Needed
Source(family, choice) ==
    CASE family = "operators" -> Operators[choice] [] family = "names" -> HidingSource(choice)
      [] family = "programs" -> Programs[choice] [] family = "optimized" -> Right(Optimized[choice])
      [] family = "mistakes" -> Wrong(Mistakes[choice])
      [] family = "missing" -> Less(Small, choice)
Weakenings(family) == IF family \in {"optimized", "programs"} THEN BOOLEAN ELSE {FALSE}
Dropped(tokens, k) == IF k = 0 THEN tokens ELSE SubSeq(tokens, 1, k - 1) \o SubSeq(tokens, k + 1, Len(tokens))
TextOf(source, layout) == Laid(Dropped(ProgramText(source.decls), source.without), layout)
=============================================================================
