---------------------------- MODULE MCControlFlow ----------------------------
(***************************************************************************)
(* Functions for ControlFlow.  Flat ones are every graph of at most        *)
(* MaxBlocks blocks, numbered breadth first from the entry, whose blocks   *)
(* reach an exit, and the functions of test/reconvergence_heuristics; the  *)
(* heuristics get those whose loops have one head, entered by one edge,    *)
(* and exits of their own.  Scoped ones give each of their blocks one of   *)
(* three nested scopes.  Structured ones are every tree of at most         *)
(* MaxConstructs ifs and loops.                                            *)
(*                                                                         *)
(* What is computed between the jumps is Values' subject, which shares     *)
(* nothing with them: a behaviour transforms and runs a function or builds *)
(* values.                                                                 *)
(***************************************************************************)
EXTENDS ControlFlow, Values

CONSTANTS MaxBlocks, MaxScopedBlocks, MaxConstructs,
          Anywhere  \* merges also in the tail of an inner construct of their kind

Function(terminators) ==
  [n \in DOMAIN terminators |->
     Block(<< <<n>> >>, terminators[n][1], Tail(terminators[n]))]

\* Extends terminators, of which blocks 1..seen are named so far.
RECURSIVE Grow(_, _)
Grow(terminators, seen) ==
  LET next(s) == 2..smaller(s + 1, MaxBlocks)
      with(t, last) == Grow(Append(terminators, t), larger(seen, last))
  IN IF Len(terminators) = seen THEN {terminators}
     ELSE with(<<"Return">>, 1)
          \cup UNION {with(<<"Jump", t>>, t) : t \in next(seen)}
          \cup UNION {UNION {with(<<"Branch", t, u>>, larger(t, u)) : u \in next(larger(seen, t))} :
                        t \in next(seen)}

SmallFunctions ==
  {p \in {Function(t) : t \in Grow(<<>>, 1)} : Len(p) > 1 /\ build_fn_cfg_flipped(p).defined}

\* acyclic1.slim hfixed, acyclic_evil.slim f, loops2.slim reconverge_inside_loop,
\* multi_exit_loop.slim loop_with_two_exits, nested_loops.slim f
TestFunctions ==
  {Function(<< <<"Branch", 2, 3>>, <<"Branch", 4, 5>>, <<"Jump", 6>>, <<"Jump", 7>>, <<"Jump", 7>>,
               <<"Jump", 7>>, <<"Return">> >>),
   Function(<< <<"Jump", 2>>, <<"Branch", 3, 4>>, <<"Branch", 5, 6>>, <<"Branch", 5, 6>>,
               <<"Jump", 7>>, <<"Jump", 7>>, <<"Return">> >>),
   Function(<< <<"Jump", 2>>, <<"Jump", 3>>, <<"Branch", 4, 5>>, <<"Branch", 3, 6>>,
               <<"Branch", 3, 6>>, <<"Jump", 7>>, <<"Return">> >>),
   Function(<< <<"Jump", 2>>, <<"Jump", 3>>, <<"Branch", 4, 5>>, <<"Branch", 3, 6>>,
               <<"Return">>, <<"Return">> >>),
   Function(<< <<"Jump", 2>>, <<"Branch", 3, 9>>, <<"Switch", 4, 8, 6>>, <<"Switch", 3, 5, 7>>,
               <<"Branch", 6, 2>>, <<"Return">>, <<"Jump", 5>>, <<"Return">>, <<"Return">> >>)}

\* What the heuristics' exits need, see the README: no edge leaves two loops at
\* once, and one edge enters each loop.
ExitsApart(p, loops) ==
  \A e \in Edges(p) : Cardinality(ToSet(loops[e[1]]) \ ToSet(loops[e[2]])) <= 1
EnteredOnce(p, loops) ==
  \A n \in DOMAIN p : {n} \in ToSet(loops[n]) =>
    Cardinality({e \in Edges(p) : e[2] = n /\ {n} \notin ToSet(loops[e[1]])}) = 1

FlatFunctions ==
  {p \in SmallFunctions \cup TestFunctions :
     LET loops == Loops(p) IN OneHead(loops) /\ ExitsApart(p, loops) /\ EnteredOnce(p, loops)}

\* Without a block that jumps to itself inside another loop: see the README.
NakedFunctions ==
  {p \in SmallFunctions : \A n \in DOMAIN p : n \in ToSet(p[n].to) => Component(Edges(p), n) = {n}}

\* A scope is entered at one block, and its blocks do not go on to the block
\* that gets the control of an edge without going through its end.
SingleEntry(p, sc) ==
  \A s \in Range(sc) \ {sc[1]} :
    Cardinality({e[2] : e \in {e \in Edges(p) : IsPrefix(s, sc[e[2]]) /\ ~IsPrefix(s, sc[e[1]])}}) = 1
NoReentry(p, sc) ==
  \A e \in process_edges(build_fn_cfg(p), sc) :
    e.dom # NoBlock => e.src \notin Reached(Edges(p), {e.dst} \ {e.dom}, {e.dom})

ScopedFunctions ==
  LET names == {<<1>>, <<1, 2>>, <<1, 2, 3>>}
      few == {p \in SmallFunctions : Len(p) <= MaxScopedBlocks /\ OneHead(Loops(p))}
  IN UNION {{[program |-> p, scopes |-> sc] :
               sc \in {sc \in [DOMAIN p -> names] :
                         sc[1] = <<1>> /\ SingleEntry(p, sc) /\ NoReentry(p, sc)}} : p \in few}

-----------------------------------------------------------------------------
(* Trees of statements; selection and loop say which merges are allowed.   *)

Merges(selection, loop) ==
  {"Return"} \cup (IF selection THEN {"MergeSelection"} ELSE {})
             \cup (IF loop THEN {"MergeBreak", "MergeContinue"} ELSE {})
Statement(kind, t, f, rest) == [kind |-> kind, t |-> t, f |-> f, rest |-> rest]
Leaf(kind) == Statement(kind, <<>>, <<>>, <<>>)
NoElse == Leaf("NoElse")

RECURSIVE Trees(_, _, _)
Trees(size, selection, loop) ==
  LET sizes == {s \in (0..size-1) \X (0..size-1) : s[1] + s[2] < size}
      else(i) == Trees(i, TRUE, loop) \cup (IF i = 0 THEN {NoElse} ELSE {})
      ifs(i, j) == {Statement("If", x[1], x[2], x[3]) :
                      x \in Trees(i, TRUE, loop) \X else(j)
                              \X Trees(size - 1 - i - j, selection /\ Anywhere, loop)}
      loops(i) == {Statement("Loop", x[1], NoElse, x[2]) :
                     x \in Trees(i, FALSE, TRUE) \X Trees(size - 1 - i, selection, loop /\ Anywhere)}
  IN {Leaf(k) : k \in Merges(selection, loop)}
       \cup UNION {ifs(s[1], s[2]) : s \in sizes} \cup UNION {loops(i) : i \in 0..size-1}

\* The blocks of a statement after those done.
RECURSIVE Flatten(_, _)
Flatten(s, done) ==
  LET n == Len(done) + 1
      t == Flatten(s.t, Append(done, <<>>))
      f == IF s.f = NoElse THEN t ELSE Flatten(s.f, t)
      else == IF s.f = NoElse THEN NoBlock ELSE Len(t) + 1
      to == IF s.kind = "If" THEN <<n + 1, else, Len(f) + 1>> ELSE <<n + 1, Len(f) + 1>>
  IN IF s.kind \in {"If", "Loop"}
       THEN [Flatten(s.rest, f) EXCEPT ![n] = <<s.kind>> \o to]
       ELSE Append(done, <<s.kind>>)

StructuredFunctions == {Function(Flatten(t, <<>>)) : t \in Trees(MaxConstructs, FALSE, FALSE)}

NoFunctions == {}

-----------------------------------------------------------------------------
VARIABLE subject

NoValue == palette = 0 /\ made = <<>>
NoFunction ==
  /\ original = <<>> /\ scopes = <<>> /\ code = <<>> /\ passes = <<"none">>
  /\ bailed = FALSE /\ runs = <<>>

MCInit == \/ subject = "functions" /\ Init /\ NoValue
          \/ subject = "values" /\ ValuesInit /\ NoFunction

MCNext == \/ subject = "functions" /\ Next /\ UNCHANGED <<subject, valuevars>>
          \/ subject = "values" /\ ValuesNext /\ UNCHANGED <<subject, vars>>

MCSpec == MCInit /\ [][MCNext]_<<subject, vars, valuevars>>
=============================================================================
