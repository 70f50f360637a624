------------------------------ MODULE FunctionIr ------------------------------
(* Functions as nodes (ir/function.c, ir/module.c, grammar.json): abstractions with         *)
(* parameters, a chain of instructions threaded by their mem operand, and a terminator; and *)
(* what running them does in one lane.  A structural node is its own identity, so a record  *)
(* stands for a node of the arena; abstractions are nominal, so they are numbered, and what *)
(* an instruction of a chain yields is named by its block and its place in the chain.        *)
EXTENDS ValueSemantics, TLC

Node(tag, name, nums, ops, types) ==
    [tag |-> tag, name |-> name, nums |-> nums, ops |-> ops, types |-> types, type |-> Ill]
Bare(tag, ops) == Node(tag, "", << >>, ops, << >>)
Null == Bare("Null", << >>)

BlockNode(b) == Node("Block", "", << b >>, << >>, << >>)
ParamNode(b, i) == Node("Param", "", << b, i >>, << >>, << >>)
Ref(b, k) == Node("Ref", "", << b, k >>, << >>, << >>)
DeclNode(d) == Node("Decl", "", << d >>, << >>, << >>)
StringLiteral(s) == Node("StringLiteral", s, << >>, << >>, << >>)
PrimOp(op, type_arguments, operands) == Node("PrimOp", op, << >>, operands, type_arguments)

JoinPointType(yield_types) == [tag |-> "JoinPointType", yield_types |-> yield_types]
FnType(param_types, return_types) ==
    [tag |-> "FnType", param_types |-> param_types, return_types |-> return_types]

(* An abstraction: function() and basic_block() give it its parameters, and                  *)
(* shd_set_abstraction_body its terminator, once.                                            *)
Abstraction(params, name) == [params |-> params, name |-> name, chain |-> << >>, body |-> Null]

(* The body of a function is that of block, its parameters too.                              *)
Declaration(tag, name, annotations, types) ==
    [tag |-> tag, name |-> name, annotations |-> annotations, types |-> types, as |-> "",
     value |-> Null, block |-> 0]
Exported == Node("Annotation", "Exported", << >>, << >>, << >>)

EmptyModule == [decls |-> << >>, blocks |-> << >>]

-----------------------------------------------------------------------------
(* Running a function, step by step: values carry their types, cells of memory hold an        *)
(* outcome.                                                                                  *)
rv(t, v) == [t |-> t, v |-> v]
Stuck == rv(NoType, 0)
PlaceIn(cell, path) == [cell |-> cell, path |-> path]

(* Memory, what was printed, and how many join points there were.                            *)
Start(globals) == [mem |-> globals, trace |-> << >>, joins |-> 0]

(* What a primitive operation yields for values that carry their types.  A pointer that is    *)
(* cast is to the same place.                                                                *)
PtrCasts == {"reinterpret", "convert"}
Operated(op, args, t) ==
    LET outcome == IF op \in PtrCasts /\ t.tag = "PtrType" THEN << args[1].v >>
                   ELSE IF \E i \in DOMAIN args : args[i].t = NoType THEN Undefined
                   ELSE Outcome(op, [i \in DOMAIN args |-> args[i].v], [i \in DOMAIN args |-> args[i].t], t)
    IN  IF outcome = Undefined THEN Stuck ELSE rv(t, outcome[1])

RECURSIVE At(_, _), With(_, _, _)
At(v, path) == IF path = << >> THEN v ELSE At(v[Head(path) + 1], Tail(path))
With(v, path, new) ==
    IF path = << >> THEN new ELSE [v EXCEPT ![Head(path) + 1] = With(v[Head(path) + 1], Tail(path), new)]

ReadCell(st, ptr) == rv(ptr.t.pointed_type, At(st.mem[ptr.v.cell][1], ptr.v.path))
WriteCell(st, ptr, value) ==
    [st EXCEPT !.mem[ptr.v.cell] = IF ptr.v.path = << >> THEN << value.v >>
                                   ELSE << With(st.mem[ptr.v.cell][1], ptr.v.path, value.v) >>]
NewCell(st) == [st EXCEPT !.mem = Append(st.mem, Undefined)]

RECURSIVE ev(_, _, _)
ev(m, env, n) ==
    CASE n.tag = "IntLiteral" -> rv(n.type.type, stored(n.nums[1], n.type.type))
      [] n.tag = "FloatLiteral" -> rv(n.type.type, n.nums[1])
      [] n.tag \in {"True", "False"} -> rv(Bool, n.tag = "True")
      [] n.tag \in {"Param", "Ref"} -> env[<< n.tag, n.nums[1], n.nums[2] >>]
      [] n.tag = "RefDecl" ->
            IF m.decls[n.nums[1]].tag = "Constant" THEN ev(m, env, m.decls[n.nums[1]].value)
            ELSE rv(n.type.type, PlaceIn(n.nums[1], << >>))
      [] n.tag = "FnAddr" -> rv(n.type.type, n.nums[1])
      [] n.tag = "Composite" -> rv(n.type.type, [i \in DOMAIN n.ops |-> ev(m, env, n.ops[i]).v])
      [] n.tag = "PrimOp" -> Operated(n.name, [i \in DOMAIN n.ops |-> ev(m, env, n.ops[i])], n.type.type)
      [] n.tag = "PtrCompositeElement" ->
            LET ptr == ev(m, env, n.ops[1]).v
            IN  rv(n.type.type, PlaceIn(ptr.cell, Append(ptr.path, ev(m, env, n.ops[2]).v)))
      [] OTHER -> Stuck
evs(m, env, ns) == [i \in DOMAIN ns |-> ev(m, env, ns[i])]

Bound(env, key, value) == (key :> value) @@ env
RECURSIVE Entered(_, _, _, _)
Entered(env, b, args, i) == IF i > Len(args) THEN env ELSE Entered(Bound(env, << "Param", b, i >>, args[i]), b, args, i + 1)

(* Where a run is: in block b at instruction k, or, with a signal, on its way to whoever      *)
(* takes it; the frames are the calls and constructs it is inside of, the innermost first.   *)
Outer(kind, s, n, id) == [kind |-> kind, b |-> s.b, k |-> s.k, env |-> s.env, n |-> n, id |-> id]
Enter(s, b, args, env) == [s EXCEPT !.b = b, !.k = 1, !.env = Entered(env, b, args, 1), !.sig = "", !.vals = << >>]
Inside(s, frame) == [s EXCEPT !.frames = << frame >> \o @]
Send(s, sig, id, vals) == [s EXCEPT !.sig = sig, !.id = id, !.vals = vals]
Running(d, m, args, st) ==
    Enter([frames |-> << >>, b |-> 0, k |-> 0, env |-> << >>, sig |-> "", id |-> 0, vals |-> << >>, st |-> st, ended |-> FALSE],
          m.decls[d].block, args, << >>)

Continue(s, value, st) == [s EXCEPT !.k = @ + 1, !.env = Bound(@, << "Ref", s.b, s.k >>, value), !.st = st]
Invoke_(m, s, args) == Enter(Inside(s, Outer("Call", s, Null, 0)), m.decls[args[1].v].block, Tail(args), << >>)

(* One instruction: what it yields, and what it changes.  One that is gone left its place.    *)
AllocaTags == {"StackAlloc", "LocalAlloc"}
Gone == Bare("Gone", << >>)
Instruction(m, s, n, args) ==
    CASE n.tag = "Load" -> Continue(s, ReadCell(s.st, args[1]), s.st)
      [] n.tag = "Store" -> Continue(s, Stuck, WriteCell(s.st, args[1], args[2]))
      [] n.tag = "Gone" -> Continue(s, Stuck, s.st)
      [] n.tag \in AllocaTags -> Continue(s, rv(n.type.type, PlaceIn(Len(s.st.mem) + 1, << >>)), NewCell(s.st))
      [] n.tag = "DebugPrintf" -> Continue(s, Stuck, [s.st EXCEPT !.trace = Append(@, << n.name, args >>)])
      [] n.tag = "Call" -> Invoke_(m, s, args)

(* What a call returns: nothing, a value, or several as a composite.                         *)
Yielded(vals, t) == CASE Len(vals) = 0 -> Stuck [] Len(vals) = 1 -> vals[1]
                      [] OTHER -> rv(t, [i \in DOMAIN vals |-> vals[i].v])

elements(s) == {s[i] : i \in DOMAIN s}
target(n, i) == n.ops[i].nums[1]
Rest(s, i) == SubSeq(s, i, Len(s))

(* The tail of a construct runs with what its body was left with, if it was left for it.     *)
Catches == [If |-> "MergeSelection", Loop |-> "MergeBreak", Control |-> "Join"]
TailOf == [If |-> 4, Loop |-> 2, Control |-> 2]
Popped(s) == [s EXCEPT !.frames = Tail(@)]
Returned(m, s, f) ==
    [Continue([Popped(s) EXCEPT !.b = f.b, !.k = f.k, !.env = f.env],
              Yielded(s.vals, m.blocks[f.b].chain[f.k].type.type), s.st) EXCEPT !.sig = "", !.vals = << >>]
Unwind(m, s, f) ==
    CASE f.kind = "Call" -> IF s.sig = "Return" THEN Returned(m, s, f) ELSE [s EXCEPT !.ended = TRUE]
      [] f.kind = "Loop" /\ s.sig = "MergeContinue" -> Enter(s, target(f.n, 1), s.vals, f.env)
      [] Catches[f.kind] = s.sig /\ f.id \in {0, s.id} -> Enter(Popped(s), target(f.n, TailOf[f.kind]), s.vals, f.env)
      [] OTHER -> Popped(s)

(* Each time a control is entered, a join point of its own comes with it.                    *)
Construct(m, s, n, args) ==
    CASE n.tag = "If" /\ args[1].v -> Enter(Inside(s, Outer("If", s, n, 0)), target(n, 2), << >>, s.env)
      [] n.tag = "If" /\ n.ops[3].tag = "Null" -> Enter(s, target(n, 4), << >>, s.env)
      [] n.tag = "If" -> Enter(Inside(s, Outer("If", s, n, 0)), target(n, 3), << >>, s.env)
      [] n.tag = "Loop" -> Enter(Inside(s, Outer("Loop", s, n, 0)), target(n, 1), args, s.env)
      [] n.tag = "Control" ->
            Enter([Inside(s, Outer("Control", s, n, s.st.joins + 1)) EXCEPT !.st.joins = @ + 1],
                  target(n, 1), << rv(NoType, s.st.joins + 1) >>, s.env)

Signals == {"Return", "MergeSelection", "MergeContinue", "MergeBreak"}
Jumping(m, s, n) == Enter(s, target(n, 1), evs(m, s.env, Tail(n.ops)), s.env)
Terminator(m, s, n) ==
    CASE n.tag \in Signals -> Send(s, n.tag, 0, evs(m, s.env, n.ops))
      [] n.tag = "Join" -> Send(s, "Join", ev(m, s.env, n.ops[1]).v, evs(m, s.env, Tail(n.ops)))
      [] n.tag = "Jump" -> Jumping(m, s, n)
      [] n.tag = "Branch" -> Jumping(m, s, IF ev(m, s.env, n.ops[1]).v THEN n.ops[2] ELSE n.ops[3])
      [] n.tag = "TailCall" ->
            Enter(s, m.decls[ev(m, s.env, n.ops[1]).v].block, evs(m, s.env, Tail(n.ops)), << >>)
      [] n.tag = "If" -> Construct(m, s, n, << ev(m, s.env, n.ops[1]) >>)
      [] n.tag = "Loop" -> Construct(m, s, n, evs(m, s.env, Rest(n.ops, 3)))
      [] n.tag = "Control" -> Construct(m, s, n, << >>)
      [] OTHER -> [s EXCEPT !.ended = TRUE]

Step(m, s) ==
    CASE s.ended -> s
      [] s.sig # "" /\ s.frames = << >> -> [s EXCEPT !.ended = TRUE]
      [] s.sig # "" -> Unwind(m, s, s.frames[1])
      [] s.k > Len(m.blocks[s.b].chain) -> Terminator(m, s, m.blocks[s.b].body)
      [] OTHER -> Instruction(m, s, m.blocks[s.b].chain[s.k], evs(m, s.env, m.blocks[s.b].chain[s.k].ops))

(* 2^n steps, or as many as it takes.                                                        *)
RECURSIVE Steps(_, _, _)
Steps(m, s, n) ==
    CASE s.ended -> s
      [] n = 0 -> Step(m, s)
      [] OTHER -> Steps(m, Steps(m, s, n - 1), n - 1)
Fuel == 10
RunFn(m, d, args, st) == Steps(m, Running(d, m, args, st), Fuel)
=============================================================================
