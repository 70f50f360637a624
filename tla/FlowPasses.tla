------------------------------ MODULE FlowPasses ------------------------------
(***************************************************************************)
(* The passes that change the control flow of a function, each from a      *)
(* sequence of blocks to another one: lower_cf_instrs (structured          *)
(* constructs to join points), remove_critical_edges, scope2control        *)
(* (lexical scopes to join points), reconvergence_heuristics (loops and    *)
(* post-dominators to join points) and restructurize (blocks to structured *)
(* constructs).  Values, types and block parameters                        *)
(* are left out: every block parameter has been lifted or is carried by    *)
(* the join.  New blocks are appended, so a block of the source keeps its  *)
(* index where the pass keeps it.                                          *)
(***************************************************************************)
EXTENDS FlowGraph

Jump(to) == Block(<<>>, "Jump", <<to>>)
Join(jp) == WithJoinPoint(Block(<<>>, "Join", <<>>), jp)
Control(eff, jp, inside, after) == WithJoinPoint(Block(eff, "Control", <<inside, after>>), jp)

-----------------------------------------------------------------------------
(* lower_cf_instrs                                                         *)

\* The closest block above n in the dominator tree that ends in op.
RECURSIVE dominating_construct(_, _, _, _)
dominating_construct(p, idom, n, op) ==
  IF idom[n] = NoBlock \/ p[idom[n]].op = op THEN idom[n]
  ELSE dominating_construct(p, idom, idom[n], op)

\* The join point of a selection or of a loop's breaks, and of its continues.
merge_point(n) == 2 * n
continue_point(n) == 2 * n + 1

lower_if(out, n) ==
  LET b == out[n]
      k == Len(out)
      no_else == b.to[2] = NoBlock
  IN [out EXCEPT ![n] = Control(b.eff, merge_point(n), k + 1, k + 2)]
       \o << Block(<<>>, "Branch", <<b.to[1], IF no_else THEN k + 3 ELSE b.to[2]>>),
             Jump(tail(b)) >>
       \o IF no_else THEN << Join(merge_point(n)) >> ELSE <<>>

lower_loop(out, n) ==
  LET b == out[n]
      k == Len(out)
      loop_header == k + 1
  IN [out EXCEPT ![n] = Control(b.eff, merge_point(n), k + 4, k + 5)]
       \o << Control(<<>>, continue_point(n), k + 2, k + 3), Jump(b.to[1]), Jump(loop_header),
             Jump(loop_header), Jump(tail(b)) >>

\* A merge joins the construct found by dominance; defined is FALSE where the
\* pass stops with a scoping error.
lower_cf_instrs(p) ==
  LET idom == build_fn_cfg(p).idom
      construct(n) ==
        dominating_construct(p, idom, n, IF p[n].op = "MergeSelection" THEN "If" ELSE "Loop")
      point(n) == IF p[n].op = "MergeContinue" THEN continue_point(construct(n))
                                               ELSE merge_point(construct(n))
      merges == {n \in DOMAIN p : p[n].op \in {"MergeSelection", "MergeContinue", "MergeBreak"}}
      lower(out, n) ==
        CASE p[n].op = "If" -> lower_if(out, n)
          [] p[n].op = "Loop" -> lower_loop(out, n)
          [] n \in merges -> [out EXCEPT ![n] = WithJoinPoint(Block(p[n].eff, "Join", <<>>), point(n))]
          [] OTHER -> out
      defined == \A n \in merges : construct(n) # NoBlock
  IN [defined |-> defined,
      out |-> IF defined THEN FoldLeft(lower, p, [n \in DOMAIN p |-> n]) ELSE p]

-----------------------------------------------------------------------------
(* remove_critical_edges: every jump goes through a block of its own.      *)

remove_critical_edges(p) ==
  LET split(out, n) ==
        IF p[n].op \notin {"Jump", "Branch", "Switch"} THEN out
        ELSE LET dsts == SetToSeq(ToSet(p[n].to))
                 via(t) == Len(out) + CHOOSE i \in DOMAIN dsts : dsts[i] = t
             IN [out EXCEPT ![n].to = [i \in DOMAIN @ |-> via(@[i])]]
                  \o [i \in DOMAIN dsts |-> Jump(dsts[i])]
  IN FoldLeft(split, p, [n \in DOMAIN p |-> n])

-----------------------------------------------------------------------------
(* scope2control                                                           *)

\* Where the control for an edge to dst goes: the closest dominator of its
\* source that has dst's scope.  The search ends above dst's scope.
RECURSIVE control_location(_, _, _, _)
control_location(idom, scopes, dom, dst) ==
  CASE dom = NoBlock \/ IsStrictPrefix(scopes[dom], scopes[dst]) -> NoBlock
    [] scopes[dom] = scopes[dst] -> dom
    [] OTHER -> control_location(idom, scopes, idom[dom], dst)

\* The edges that leave a lexical scope for an enclosing one, with the block
\* that gets a control for them.
process_edges(cfg, scopes) ==
  {[src |-> e.src, dst |-> e.dst,
    dom |-> control_location(cfg.idom, scopes, cfg.idom[e.src], e.dst)] :
      e \in {e \in ToSet(cfg.edges) : IsStrictPrefix(scopes[e.dst], scopes[e.src])}}

\* Every abstraction becomes a jump to its body, wrapped in one control per
\* destination; several controls of one block nest in the order of a hash
\* table, of which backwards picks one of two.
wrap_scopes(p, wrapped, controls, backwards) ==
  LET wrapper(dom, dst) == Len(p) + CHOOSE i \in DOMAIN controls : controls[i] = <<dom, dst>>
      target(n, t) == LET e == {x \in wrapped : x.src = n /\ x.dst = t}
                      IN IF e = {} THEN t ELSE wrapper((CHOOSE x \in e : TRUE).dom, t)
      mine(n) == SelectSeq(controls, LAMBDA c : c[1] = n)
      \* the last block so far goes inside a control that leads to c's destination
      wrap(o, c) == o \o << Jump(Len(o)), Jump(c[2]),
                            Control(<<>>, wrapper(c[1], c[2]), Len(o) + 1, Len(o) + 2) >>
      enter(out, n) == [out EXCEPT ![n] = Jump(Len(out))]
      wrap_in_controls(out, n) ==
        enter(FoldLeft(wrap, Append(out, [p[n] EXCEPT !.to = [i \in DOMAIN @ |-> target(n, @[i])]]),
                       IF backwards THEN Reverse(mine(n)) ELSE mine(n)), n)
  IN FoldLeft(wrap_in_controls, p \o [i \in DOMAIN controls |-> Join(Len(p) + i)],
              [n \in DOMAIN p |-> n])

left_scopes(p, wrapped, backwards) ==
  wrap_scopes(p, wrapped, SetToSeq({<<e.dom, e.dst>> : e \in wrapped}), backwards)
scope2control(p, scopes, backwards) ==
  left_scopes(p, {e \in process_edges(build_fn_cfg(p), scopes) : e.dom # NoBlock}, backwards)

-----------------------------------------------------------------------------
(* reconvergence_heuristics.  fn holds the function, its analyses, and     *)
(* reused: whether an entry of the rewriter's map that is removed and      *)
(* entered again gets its old bucket.  st holds the blocks made so far,    *)
(* the rewriter's map, and defined, FALSE once an analysis the code needs  *)
(* stops the compiler.                                                     *)

\* The pass's own in_loop: gives up on loops with several heads.
in_single_head_loop(lt, head, block) ==
  \E i \in DOMAIN lt[block] : /\ lt[block][i] = <<head>>
                              /\ \A j \in 1..i : Len(lt[block][j]) = 1

gather_exiting_nodes_None(fn, head, block) == <<>>
RECURSIVE gather_exiting_nodes(_, _, _)
gather_exiting_nodes(fn, head, block) ==
  IF ~in_single_head_loop(fn.lt, head, block) THEN <<block>>
  ELSE FoldLeft(LAMBDA s, n : s \o gather_exiting_nodes(fn, head, n), <<>>,
                dominates(fn.fwd, block))

is_loop_entry(fn, n) == fn.lt[n][1] = <<n>>

leaves_loop(fn, n) == \E e \in ToSet(succ_edges(fn.fwd, n)) : fn.lt[e.dst] # fn.lt[n]

\* The CFG the post-dominator of branch n is looked up in.
branch_cfg(fn, n) == IF fn.lt[n][1] = <<>> THEN fn.rev ELSE loop_cfg(fn.p, fn.lt, fn.lt[n][1][1])

branch_is_analysed(fn, n) ==
  fn.lt[n][1] = <<>> \/ leaves_loop(fn, n)
    \/ LET g == branch_cfg(fn, n) IN g.defined /\ n \in DOMAIN g.idom

post_dominator_NotInLoops(fn, n) ==
  LET d == fn.rev.idom[n]
  IN IF fn.lt[n][1] = <<>> /\ d \in DOMAIN fn.p /\ fn.fwd.idom[d] = n THEN d ELSE NoBlock
\* Where the two sides of branch n meet, if it is a block n dominates.
post_dominator(fn, n) ==
  IF fn.lt[n][1] # <<>> /\ leaves_loop(fn, n) THEN NoBlock
  ELSE LET d == branch_cfg(fn, n).idom[n]
       IN IF d \in DOMAIN fn.p /\ fn.fwd.idom[d] = n THEN d ELSE NoBlock

append_target(to, r) == [st |-> r.st, to |-> Append(to, r.to)]
set_body(k, r) == [st |-> [r.st EXCEPT !.out[k] = r.body], to |-> k]
set_targets(b, r) == [st |-> r.st, body |-> [b EXCEPT !.to = r.to]]

RECURSIVE rewrite_block(_, _, _), rewrite_blocks(_, _, _), rewrite_body(_, _, _)

\* Rewrites the blocks of a sequence in turn: the state, and their new indices.
rewrite_blocks(fn, st, blocks) ==
  FoldLeft(LAMBDA a, n : append_target(a.to, rewrite_block(fn, a.st, n)),
           [st |-> st, to |-> <<>>], blocks)

recreate_block(fn, st, n) ==
  LET k == Len(st.out) + 1
  IN set_body(k, rewrite_body(fn, [st EXCEPT !.out = Append(@, fn.p[n]), !.map = (n :> k) @@ @], n))

\* The switch over the exits, once they are rewritten; body is the loop's.
dispatch_exits(k, exits, body, after) ==
  LET j == Len(after.st.out)
      inner_case == k + 6   dispatch == k + 7
      recover == [i \in DOMAIN exits |-> Jump(after.to[i])]
      switch == IF Len(exits) > 1
        THEN Testing(Block(<<>>, "Switch", [i \in DOMAIN exits |-> j + i] \o <<j + 1>>), <<k + 1>>)
        ELSE Jump(j + 1)
  IN [st |-> [after.st EXCEPT !.out = [@ EXCEPT ![inner_case] = body, ![dispatch] = switch] \o recover],
      to |-> k + 1]

\* An exit is taken out of the map and entered again as its wrapper, for the
\* loop; afterwards the map gets what a pointer to the old entry points to.  If
\* the new entry took the bucket of the old one, that is the wrapper.
restore_map(fn, map, k, exits) ==
  [n \in DOMAIN map |-> IF fn.reused /\ n \in ToSet(exits)
                        THEN k + 7 + CHOOSE i \in DOMAIN exits : exits[i] = n ELSE map[n]]

\* The exits are rewritten outside of the loop.
rewrite_exits(fn, st, exits, loop) ==
  LET k == Len(st.out)
  IN dispatch_exits(k, exits, loop.body,
       rewrite_blocks(fn, [loop.st EXCEPT !.map = restore_map(fn, st.map, k, exits)], exits))

\* A loop is put in a control for its exits, its body in a control for its
\* continues.  Several exits leave a number behind, and a switch follows.
wrap_loop(fn, st, n, exits) ==
  LET k == Len(st.out)
      container == k + 1   control_case == k + 2   loop_outer == k + 3   again == k + 4
      continue_wrapper == k + 5   inner_case == k + 6   dispatch == k + 7
      leave(i) == IF Len(exits) > 1 THEN << <<container, i>> >> ELSE <<>>
      wrappers == [i \in DOMAIN exits |-> [Join(container) EXCEPT !.eff = leave(i)]]
      frame == << Control(<<>>, container, control_case, dispatch), Jump(loop_outer),
                  Control(<<>>, continue_wrapper, inner_case, again), Jump(loop_outer),
                  Join(continue_wrapper), fn.p[n], fn.p[n] >>
      inner == [i \in ToSet(exits) |-> dispatch + CHOOSE j \in DOMAIN exits : exits[j] = i]
  IN rewrite_exits(fn, st, exits,
       rewrite_body(fn, [st EXCEPT !.out = @ \o frame \o wrappers,
                                   !.map = (n :> continue_wrapper) @@ inner @@ @], n))

\* process_abstraction.  A wrapped loop is not entered in the map: each jump
\* into it from outside gets a copy.
rewrite_block(fn, st, n) ==
  IF n \in DOMAIN st.map THEN [st |-> st, to |-> st.map[n]]
  ELSE LET exits == IF is_loop_entry(fn, n) THEN gather_exiting_nodes(fn, n, n) ELSE <<>>
       IN IF exits = <<>> THEN recreate_block(fn, st, n) ELSE wrap_loop(fn, st, n, exits)

\* The control of branch n, whose sides and the block after it are rewritten.
branch_control(fn, k, n, to, joined) ==
  LET control_case == k + 1   after == k + 3
  IN [st |-> [joined.st EXCEPT !.out[control_case] = [fn.p[n] EXCEPT !.eff = <<>>, !.to = to],
                               !.out[after] = Jump(joined.to)],
      body |-> Control(fn.p[n].eff, control_case, control_case, after)]

\* The block where they meet is rewritten after the sides, for the tail.  Its
\* entry, if it had one, is restored as those of a loop's exits are.
rewrite_meet(fn, st, n, meet, sides) ==
  LET left == [x \in DOMAIN sides.st.map \ {meet} |-> sides.st.map[x]]
      pre_join == Len(st.out) + 2
      cached == IF meet \in DOMAIN st.map
                THEN meet :> (IF fn.reused THEN pre_join ELSE st.map[meet]) ELSE <<>>
  IN branch_control(fn, Len(st.out), n, sides.to,
                    rewrite_block(fn, [sides.st EXCEPT !.map = cached @@ left], meet))

\* A branch that is post-dominated by a block it dominates gets a control
\* around it, and jumps to that block inside are joins.
wrap_branch(fn, st, n, meet) ==
  LET control_case == Len(st.out) + 1   pre_join == Len(st.out) + 2
      inside == [st EXCEPT !.out = @ \o <<fn.p[n], Join(control_case), fn.p[n]>>,
                           !.map = (meet :> pre_join) @@ @]
  IN rewrite_meet(fn, st, n, meet, rewrite_blocks(fn, inside, fn.p[n].to))

rewrite_body(fn, st, n) ==
  LET b == fn.p[n]
      known == b.op # "Branch" \/ branch_is_analysed(fn, n)
      meet == IF b.op = "Branch" /\ known THEN post_dominator(fn, n) ELSE NoBlock
  IN IF meet # NoBlock THEN wrap_branch(fn, st, n, meet)
     ELSE set_targets(b, rewrite_blocks(fn, [st EXCEPT !.defined = @ /\ known], b.to))

analyse(p, fwd, reused) ==
  [p |-> p, fwd |-> fwd, rev |-> build_fn_cfg_flipped(p), lt |-> new_loop_tree(fwd),
   reused |-> reused]

reconvergence(fn) ==
  IF fn.rev.defined
    THEN recreate_block(fn, [out |-> <<>>, map |-> <<>>, defined |-> TRUE], 1).st
    ELSE [out |-> fn.p, map |-> <<>>, defined |-> FALSE]
reconvergence_heuristics(p, reused) == reconvergence(analyse(p, build_fn_cfg(p), reused))
-----------------------------------------------------------------------------
(***************************************************************************)
(* restructurize: from blocks, jumps and join points back to structured    *)
(* constructs.  The blocks are walked depth first and copied wherever they *)
(* are jumped to; a jump to a block of the current path is a continue and  *)
(* makes that block the body of a loop; a join stores the depth it goes    *)
(* back to in cf_depth, leaves construct after construct, and the tail of  *)
(* each control runs only if the depth is its own.                         *)
(*                                                                         *)
(* ctx is the part of the C context that changes on the way down: the path *)
(* (dfs_stack) and the controls (control_stack), closest first.  st holds  *)
(* the blocks made so far, the path entries that turned out to be loop     *)
(* headers, those marked in_loop, and bail, set by longjmp.                *)
(***************************************************************************)

cf_depth == 0

set_level(depth) == << <<cf_depth, depth>> >>

\* Appends a block and returns its index.
Put(st, blk) == [st |-> [st EXCEPT !.out = Append(@, blk)], at |-> Len(st.out) + 1]
MergeSelection == Block(<<>>, "MergeSelection", <<>>)
Bail(st) == [st |-> [st EXCEPT !.bail = TRUE], body |-> MergeSelection]

RECURSIVE structure(_, _, _, _, _)

\* A jump to target where control then goes on at exit.
handle_bb_callsite(p, st, ctx, target, exit) ==
  LET seen == {i \in DOMAIN ctx.dfs_stack : ctx.dfs_stack[i].old = target}
      prior == CHOOSE i \in seen : \A j \in seen : i <= j
      path == {ctx.dfs_stack[i] : i \in 2..prior}
      k == Len(st.out)
      ladder == k + 1   structured_target == k + 2   after_loop == k + 3
      entry == [id |-> k, old |-> target, control |-> ctx.control_stack]
      deeper == [ctx EXCEPT !.dfs_stack = <<entry>> \o @]
      start == [st EXCEPT !.out = @ \o <<Jump(exit), p[target], Jump(exit)>>]
      r == structure(p, start, deeper, p[target], ladder)
      done == [r.st EXCEPT !.out[structured_target] = r.body]
  IN IF seen # {}
       THEN IF \E e \in path : e.id \in st.in_loop \/ e.control # ctx.control_stack
         THEN Bail(st)
         ELSE [st |-> [st EXCEPT !.in_loop = @ \cup {e.id : e \in path},
                                 !.loop_header = @ \cup {ctx.dfs_stack[prior].id}],
               body |-> Block(<<>>, "MergeContinue", <<>>)]
     ELSE IF k \in done.loop_header
       THEN [st |-> [done EXCEPT !.out[ladder] = Block(<<>>, "MergeBreak", <<>>)],
             body |-> Block(<<>>, "Loop", <<structured_target, after_loop>>)]
       ELSE [st |-> done, body |-> Jump(structured_target)]

\* One case of a selection, which merges once its target is done.
structure_case(p, st, ctx, target) ==
  LET case == Put(st, p[target])
      merge == Put(case.st, MergeSelection)
      r == handle_bb_callsite(p, merge.st, ctx, target, merge.at)
  IN [st |-> [r.st EXCEPT !.out[case.at] = r.body], at |-> case.at]

\* The default case of a switch is structured first.
structure_selection(p, st, ctx, b, exit) ==
  LET n == Len(b.to)
      order == IF b.op = "Switch" THEN <<n>> \o [i \in 1..n-1 |-> i] ELSE [i \in 1..n |-> i]
      one(a, i) == LET r == structure_case(p, a.st, ctx, b.to[i])
                   IN [st |-> r.st, at |-> (i :> r.at) @@ a.at]
      cases == FoldLeft(one, [st |-> st, at |-> <<>>], order)
      after == Put(cases.st, Jump(exit))
  IN [st |-> after.st,
      body |-> [b EXCEPT !.op = IF b.op = "Branch" THEN "If" ELSE "Match",
                         !.to = [i \in 1..n |-> cases.at[i]] \o <<after.at>>]]

\* The tail first, then the inside, which leaves through the tail.
structure_control(p, st, ctx, b, exit) ==
  LET depth == Len(ctx.control_stack)
      k == Len(st.out)
      tail_case == k + 1   true_case == k + 2   merge == k + 3   after == k + 4
      guard == Testing(Block(<<>>, "If", <<true_case, NoBlock, after>>), <<cf_depth, depth>>)
      start == [st EXCEPT !.out = @ \o <<guard, p[tail(b)], MergeSelection, Jump(exit)>>]
      t == structure(p, start, ctx, p[tail(b)], merge)
      control_entry == [old_token |-> b.jp, id |-> k]
      i == structure(p, [t.st EXCEPT !.out[true_case] = t.body],
                     [ctx EXCEPT !.control_stack = <<control_entry>> \o @], p[b.to[1]], tail_case)
  IN [st |-> i.st, body |-> [i.body EXCEPT !.eff = b.eff \o set_level(depth + 1) \o @]]

structure_join_OwnDepth(st, ctx, b, exit) ==
  LET found == {i \in DOMAIN ctx.control_stack : ctx.control_stack[i].old_token = b.jp}
      control == CHOOSE i \in found : \A j \in found : i <= j
      depth == Len(ctx.control_stack) - control + 1
  IN IF found = {} THEN Bail(st)
     ELSE [st |-> st, body |-> Block(b.eff \o set_level(depth), "Jump", <<exit>>)]
structure_join(st, ctx, b, exit) ==
  LET found == {i \in DOMAIN ctx.control_stack : ctx.control_stack[i].old_token = b.jp}
      control == CHOOSE i \in found : \A j \in found : i <= j
      depth == Len(ctx.control_stack) - control + 1
  IN IF found = {} THEN Bail(st)
     ELSE [st |-> st, body |-> Block(b.eff \o set_level(depth - 1), "Jump", <<exit>>)]

\* The new body for terminator b; control that falls off its end goes to exit.
structure(p, st, ctx, b, exit) ==
  CASE st.bail -> Bail(st)
    [] b.op = "Jump" -> LET r == handle_bb_callsite(p, st, ctx, b.to[1], exit)
                        IN [r EXCEPT !.body.eff = b.eff \o @]
    [] b.op \in {"Branch", "Switch"} -> structure_selection(p, st, ctx, b, exit)
    [] b.op = "Control" -> structure_control(p, st, ctx, b, exit)
    [] b.op = "Join" -> structure_join(st, ctx, b, exit)
    [] b.op \in {"Return", "Unreachable"} -> [st |-> st, body |-> b]
    [] b.op = "TailCall" -> Bail(st)

\* A function that cannot be structured is left as it is.
restructurize(p) ==
  LET start == [out |-> <<p[1], Block(<<>>, "Unreachable", <<>>)>>, in_loop |-> {},
                loop_header |-> {}, bail |-> FALSE]
      r == structure(p, start, [dfs_stack |-> <<>>, control_stack |-> <<>>], p[1], 2)
  IN [bailed |-> r.st.bail,
      out |-> IF r.st.bail THEN p
              ELSE [r.st.out EXCEPT ![1] = [r.body EXCEPT !.eff = set_level(0) \o @]]]
=============================================================================
