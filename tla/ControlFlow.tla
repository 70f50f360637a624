------------------------------ MODULE ControlFlow ------------------------------
(***************************************************************************)
(* A function on its way through the control-flow passes, and its          *)
(* execution before and after them.  A front end hands over blocks and     *)
(* jumps (flat), the same with a lexical scope for every block (scoped),   *)
(* or structured constructs (structured).  After any pass the two          *)
(* programs may be run side by side, with the same outcome of every        *)
(* condition of the original.                                              *)
(***************************************************************************)
EXTENDS FlowPasses

CONSTANTS Naked,       \* functions of blocks and jumps, structured as they are
          Flat,        \* the same, prepared by the reconvergence heuristics
          Scoped,      \* records of a function and the scope of each block
          Structured,  \* functions of structured constructs
          BucketsReused,  \* whether the rewriter's map reuses buckets: a set of answers
          MaxSilent    \* bound on the steps from one original block to the next

VARIABLES original,  \* the function as the front end gave it
          scopes,    \* the lexical scope of every block
          code,      \* the function as the passes left it
          passes,    \* what the function is and the passes that ran
          bailed,    \* restructurize gave up
          runs       \* the executions of original and code; none before they start
vars == <<original, scopes, code, passes, bailed, runs>>

-----------------------------------------------------------------------------
(* Execution.  A run is at effect i of block at, inside the constructs     *)
(* frames (closest first), with the variables the passes added in env.     *)
(* now is the original block whose instructions just ran.                  *)

Returned == 0    Stuck == -1    Silent == -2

Entry == [at |-> 1, i |-> 0, frames |-> <<>>, env |-> <<>>, now |-> Stuck]
Value(c, v) == IF v \in DOMAIN c.env THEN c.env[v] ELSE 0
larger(a, b) == IF a > b THEN a ELSE b
GoTo(c, n) == [c EXCEPT !.at = n, !.i = 0]

\* A control that is entered again inside itself binds its join point anew:
\* what was entered since the last time is left behind.
PushFrame(c, kind, blk) ==
  LET older == {i \in DOMAIN c.frames : kind = "Control" /\ c.frames[i].jp = blk.jp}
      last == FoldSet(larger, 0, older)
      frame == [kind |-> kind, jp |-> blk.jp, head |-> blk.to[1], after |-> tail(blk)]
  IN [c EXCEPT !.frames = <<frame>> \o SubSeq(@, last + 1, Len(@))]

\* The closest frame that satisfies Test, 0 if there is none.
Closest(c, Test(_)) ==
  LET f == {i \in DOMAIN c.frames : Test(c.frames[i])}
  IN IF f = {} THEN 0 ELSE CHOOSE i \in f : \A j \in f : i <= j
Leave(c, i) == IF i = 0 THEN [c EXCEPT !.now = Stuck]
               ELSE GoTo([c EXCEPT !.frames = SubSeq(@, i + 1, Len(@))], c.frames[i].after)
Continue(c, i) == IF i = 0 THEN [c EXCEPT !.now = Stuck]
                  ELSE GoTo([c EXCEPT !.frames = SubSeq(@, i, Len(@))], c.frames[i].head)
IsLoop(f) == f.kind = "Loop"

\* Which target a terminator takes when the original's condition has outcome choice.
Taken(c, blk, choice) ==
  CASE blk.test = <<>> -> choice
    [] Len(blk.test) = 2 -> IF Value(c, blk.test[1]) = blk.test[2] THEN 1 ELSE 2
    [] OTHER -> IF Value(c, blk.test[1]) \in DOMAIN blk.to THEN Value(c, blk.test[1]) ELSE 1

Terminate(c, blk, choice) ==
  LET taken == Taken(c, blk, choice)
  IN CASE blk.op = "Return" -> [c EXCEPT !.now = Returned]
       [] blk.op = "Jump" -> GoTo(c, blk.to[1])
       [] blk.op \in {"Branch", "Switch"} -> GoTo(c, blk.to[taken])
       [] blk.op \in {"If", "Match"} ->
            IF blk.to[taken] = NoBlock THEN GoTo(c, tail(blk))
                                       ELSE GoTo(PushFrame(c, "Selection", blk), blk.to[taken])
       [] blk.op \in {"Loop", "Control"} -> GoTo(PushFrame(c, blk.op, blk), blk.to[1])
       [] blk.op = "MergeSelection" -> Leave(c, Closest(c, LAMBDA f : f.kind = "Selection"))
       [] blk.op = "MergeBreak" -> Leave(c, Closest(c, IsLoop))
       [] blk.op = "MergeContinue" -> Continue(c, Closest(c, IsLoop))
       [] blk.op = "Join" -> Leave(c, Closest(c, LAMBDA f : f.kind = "Control" /\ f.jp = blk.jp))
       [] OTHER -> [c EXCEPT !.now = Stuck]

\* On to the next original block, or to the end.
RECURSIVE Resume(_, _, _, _)
Resume(p, c, choice, fuel) ==
  LET blk == p[c.at]
      e == blk.eff[c.i + 1]
      next == [c EXCEPT !.i = @ + 1]
      ended == Terminate([c EXCEPT !.now = Silent], blk, choice)
  IN CASE fuel = 0 -> [c EXCEPT !.now = Silent]
       [] c.i < Len(blk.eff) /\ Len(e) = 1 -> [next EXCEPT !.now = e[1]]
       [] c.i < Len(blk.eff) /\ Len(e) = 2 ->
            Resume(p, [next EXCEPT !.env = (e[1] :> e[2]) @@ @], choice, fuel - 1)
       [] c.i = Len(blk.eff) /\ ended.now # Silent -> ended
       [] OTHER -> Resume(p, ended, choice, fuel - 1)

-----------------------------------------------------------------------------
(* The passes, and the two executions.                                     *)

Init == /\ \/ original \in Naked /\ scopes = <<>> /\ passes = <<"naked">>
           \/ original \in Flat /\ scopes = <<>> /\ passes = <<"flat">>
           \/ original \in Structured /\ scopes = <<>> /\ passes = <<"structured">>
           \/ \E s \in Scoped : original = s.program /\ scopes = s.scopes /\ passes = <<"scoped">>
        /\ code = original
        /\ bailed = FALSE
        /\ runs = <<>>

\* A pass runs on what the front end or another pass left.
RunPass(after, pass) == /\ Last(passes) \in after /\ runs = <<>>
                        /\ passes' = Append(passes, pass)
                        /\ UNCHANGED <<original, scopes, runs>>

SplitEdges == /\ RunPass({"flat"}, "remove_critical_edges")
              /\ code' = remove_critical_edges(code)
              /\ UNCHANGED bailed

Reconverge == /\ RunPass({"remove_critical_edges"}, "reconvergence_heuristics")
              /\ \E reused \in BucketsReused : \E r \in {reconvergence_heuristics(code, reused)} :
                   r.defined /\ code' = r.out
              /\ UNCHANGED bailed

ScopeToControl == /\ RunPass({"scoped"}, "scope2control")
                  /\ \E backwards \in BOOLEAN : code' = scope2control(code, scopes, backwards)
                  /\ UNCHANGED bailed

LowerStructured == /\ RunPass({"structured"}, "lower_cf_instrs")
                   /\ \E r \in {lower_cf_instrs(code)} : r.defined /\ code' = r.out
                   /\ UNCHANGED bailed

Restructurize ==
  /\ RunPass({"naked", "reconvergence_heuristics", "scope2control", "lower_cf_instrs"}, "restructurize")
  /\ \E r \in {restructurize(code)} : code' = r.out /\ bailed' = r.bailed

\* Both programs run up to their first original block.
Start == /\ runs = <<>> /\ code # original
         /\ runs' = << Resume(original, Entry, 1, MaxSilent), Resume(code, Entry, 1, MaxSilent) >>
         /\ UNCHANGED <<original, scopes, code, passes, bailed>>

\* The outcomes of the condition of original block n.
Outcomes(n) == CASE original[n].op = "If" -> 1..2
                 [] original[n].op \in {"Branch", "Switch"} -> DOMAIN original[n].to
                 [] OTHER -> {1}

Run == /\ runs # <<>> /\ runs[1].now = runs[2].now /\ runs[1].now \in DOMAIN original
       /\ \E choice \in Outcomes(runs[1].now) :
            runs' = << Resume(original, runs[1], choice, MaxSilent),
                       Resume(code, runs[2], choice, MaxSilent) >>
       /\ UNCHANGED <<original, scopes, code, passes, bailed>>

Next == SplitEdges \/ Reconverge \/ ScopeToControl \/ LowerStructured \/ Restructurize \/ Start \/ Run
Spec == Init /\ [][Next]_vars

-----------------------------------------------------------------------------
(***************************************************************************)
(* What the control-flow analyses mean, by reachability alone: dominators, *)
(* loops, and the block where the two sides of a branch meet.  A graph is  *)
(* a set of edges <<from, to>>; p is a function of blocks and jumps.       *)
(***************************************************************************)

Edges(p) == UNION {{<<n, t>> : t \in ToSet(p[n].to)} : n \in DOMAIN p}

\* What is reached from the set from without entering the set without.
RECURSIVE Reached(_, _, _)
Reached(E, from, without) ==
  LET more == (from \cup {e[2] : e \in {e \in E : e[1] \in from}}) \ without
  IN IF more = from THEN from ELSE Reached(E, more, without)

\* Every path from a node of Starts to n goes through d.
Between(E, Starts, d, n) == n \notin Reached(E, Starts \ {d}, {d})

\* The last node every path from Starts to n goes through before n, if any.
IsImmediate(E, Starts, N, n, d) ==
  LET strict == {x \in N \ {n} : Between(E, Starts, x, n)}
  IN IF strict = {} THEN d \notin N
     ELSE d \in strict /\ \A x \in strict \ {d} : Between(E, Starts, x, d)

-----------------------------------------------------------------------------
(* Nested loops.  A loop is a set of blocks that reach each other; its     *)
(* heads are the blocks it is entered at; the loops inside it are those    *)
(* that remain without the edges to its heads.                             *)

Component(E, n) == {m \in Reached(E, {n}, {}) : n \in Reached(E, {m}, {})}

\* The head sets of the loops around n, innermost first, in front of outer.
RECURSIVE LoopHeads(_, _, _, _)
LoopHeads(p, E, n, outer) ==
  LET loop == Component(E, n)
      heads == {h \in loop : h = 1 \/ \E e \in Edges(p) : e[2] = h /\ e[1] \notin loop}
      inside == {e \in E : {e[1], e[2]} \subseteq loop /\ e[2] \notin heads}
  IN IF loop = {n} /\ <<n, n>> \notin E THEN outer
     ELSE LoopHeads(p, inside, n, <<heads>> \o outer)

Loops(p) == [n \in DOMAIN p |-> LoopHeads(p, Edges(p), n, << {} >>)]

\* The blocks of n's innermost loop, all blocks if it is in none.
LoopBody(loops, n) == {m \in DOMAIN loops : IsSuffix(loops[n], loops[m])}

OneHead(loops) == \A n \in DOMAIN loops : \A i \in DOMAIN loops[n] : Cardinality(loops[n][i]) <= 1

-----------------------------------------------------------------------------
\* The two sides of branch n meet at m: n is the immediate dominator of m, and
\* within one iteration of n's loop every path from n leads to m.
Meet(p, loops, n, m) ==
  LET body == LoopBody(loops, n)
      E == {e \in Edges(p) : {e[1], e[2]} \subseteq body /\ e[2] \notin loops[n][1]}
      ends == {x \in body : ~\E e \in E : e[1] = x}
  IN /\ m \in body \ {n}
     /\ IsImmediate(Edges(p), {1}, DOMAIN p, m, n)
     /\ \A x \in ends : Between(E, {n}, m, x)

\* Outside loops every branch counts; inside, one whose targets are directly in
\* its own loop.
IsLocalBranch(p, loops, n) ==
  /\ p[n].op = "Branch"
  /\ loops[n] # << {} >> => \A t \in ToSet(p[n].to) : loops[t] = loops[n]
-----------------------------------------------------------------------------
Has(pass) == pass \in ToSet(passes)
IsFlat == Last(passes) \in {"naked", "flat", "remove_critical_edges"}
Prepared == runs # <<>> /\ Has("reconvergence_heuristics") /\ runs[2].now \in DOMAIN original

\* The passes keep the behaviour of a function: whatever its conditions evaluate
\* to, it runs the same instructions in the same order after lower_cf_instrs,
\* scope2control, reconvergence_heuristics and restructurize as before, and it
\* returns exactly when it did.
SameExecution == runs # <<>> => runs[1].now = runs[2].now

\* compute_domtree finds the immediate dominator of every block.
DominatorsExact ==
  IsFlat => LET g == build_fn_cfg(code)
            IN \A n \in DOMAIN code \ {1} : IsImmediate(Edges(code), {1}, DOMAIN code, n, g.idom[n])

\* On the flipped graph, with the dummy exit of flip_cfg, the same search finds
\* the immediate post-dominator of every block.
PostDominatorsExact ==
  IsFlat => LET g == build_fn_cfg_flipped(code)
                E == {<<e[2], e[1]>> : e \in Edges(code)}
                ends == {n \in DOMAIN code : code[n].to = <<>>}
            IN \A n \in DOMAIN code : IsImmediate(E, ends, DOMAIN code, n, g.idom[n])

\* The loop tree places every block in exactly the loops it is part of, with the
\* heads they are entered at, although walk_scc finds them from one depth-first
\* search per head and reuses the low links of earlier ones.
LoopsExact ==
  IsFlat => LET lt == new_loop_tree(build_fn_cfg(code))
            IN \A n \in DOMAIN code : [i \in DOMAIN lt[n] |-> ToSet(lt[n][i])] = Loops(code)[n]

\* The analyses of cfg.c and looptree.c compute what their names say.
AnalysesExact == DominatorsExact /\ PostDominatorsExact /\ LoopsExact

\* What reconvergence_heuristics leaves, restructurize accepts: with the control
\* it puts around every loop's continues, no back edge leaves a control, so
\* handle_bb_callsite never bails out.
HeuristicsSuffice == Has("reconvergence_heuristics") => ~bailed

\* Where the code may be when it first reaches one of blocks after run c.
RECURSIVE Arrivals(_, _, _)
Arrivals(from, seen, blocks) ==
  LET next == UNION {{Resume(code, c, o, MaxSilent) : o \in Outcomes(c.now)} : c \in from}
      onward == {c \in next : c.now \in DOMAIN original \ blocks} \ seen
      here == {<<c.now, c.at, c.frames>> : c \in {c \in next : c.now \in blocks}}
  IN IF onward = {} THEN here ELSE here \cup Arrivals(onward, seen \cup onward, blocks)

Together(places) == \A x, y \in places : x[1] = y[1] => x = y

\* The two sides of a branch that meet again in the same iteration come together
\* in one place of the code, inside the same constructs: the lanes of a subgroup
\* that took different sides run the block where they meet once, not in turn.
BranchesReconverge ==
  Prepared => LET n == runs[2].now
                  loops == Loops(original)
                  meet == {m \in DOMAIN original : Meet(original, loops, n, m)}
                  gone == DOMAIN original \ LoopBody(loops, n)
              IN IsLocalBranch(original, loops, n) /\ meet # {} =>
                   Together({a \in Arrivals({runs[2]}, {}, meet \cup gone) : a[1] \in meet})

\* The constructs around c, from its closest loop outwards.
InLoop(c) == SubSeq(c.frames, Closest(c, IsLoop), Len(c.frames))

\* What follows a loop runs outside of the structured loop: lanes that leave in
\* different iterations, or by different exits, wait for each other at the end of
\* the loop before the code after it runs.
ExitsReconverge ==
  Prepared /\ Has("restructurize") /\ ~bailed =>
    LET n == runs[2].now
        loops == Loops(original)
        gone == DOMAIN original \ LoopBody(loops, n)
    IN loops[n][1] = {n} =>
         \A a \in Arrivals({runs[2]}, {}, gone) : ~IsSuffix(InLoop(runs[2]), a[3])

\* Lanes that reconvergence_heuristics.c lets part meet again, after a branch and
\* after a loop.
LanesReconverge == BranchesReconverge /\ ExitsReconverge
=============================================================================
