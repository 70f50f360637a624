------------------------------ MODULE FlowGraph ------------------------------
(***************************************************************************)
(* The control-flow analyses of the compiler (analysis/cfg.c, looptree.c)  *)
(* on one function.                                                        *)
(*                                                                         *)
(* A function is a sequence of blocks, the first one its entry.  A block   *)
(* has the effects of its instructions in order (eff), its terminator      *)
(* (op), the blocks the terminator names (to; the last one is the tail of  *)
(* a structured construct), the join point it binds or joins (jp) and what *)
(* it tests (test).  An effect <<b>> stands for the instructions of block  *)
(* b of the original program, <<v, k>> for a store of k to variable v.     *)
(***************************************************************************)
EXTENDS Integers, SequencesExt

CONSTANT NoBlock  \* a null pointer to a block

Block(eff, op, to) == [eff |-> eff, op |-> op, to |-> to, jp |-> 0, test |-> <<>>]
WithJoinPoint(blk, jp) == [blk EXCEPT !.jp = jp]
Testing(blk, test) == [blk EXCEPT !.test = test]

Constructs == {"If", "Loop", "Control"}
tail(blk) == Last(blk.to)

-----------------------------------------------------------------------------
(* CFGBuildConfig: which edges of structured constructs are wanted, and    *)
(* the blocks a CFG limited to one loop may enter (config.lt).             *)

default_forward_cfg_build(p) ==
  [structured_exits |-> TRUE, structured_tails |-> TRUE, within |-> DOMAIN p, flipped |-> FALSE]
flipped_cfg_build(p) ==
  [structured_exits |-> FALSE, structured_tails |-> FALSE, within |-> DOMAIN p, flipped |-> TRUE]

\* The constructs a block is built in: the tail of the closest selection, the
\* body and the tail of the closest loop (CfgBuildContext).
NoContext == [selection |-> NoBlock, head |-> NoBlock, loop |-> NoBlock]

\* The edges process_cf_node adds for block n, in its order.
process_cf_node(p, config, join_points, n, ctx) ==
  LET b == p[n]
      Edge(dst, type, in) == [src |-> n, dst |-> dst, type |-> type, ctx |-> in]
      ToTail == IF config.structured_tails THEN <<Edge(tail(b), "Tail", ctx)>> ELSE <<>>
      Exit(dst, type) == IF config.structured_exits THEN <<Edge(dst, type, ctx)>> ELSE <<>>
      InIf == [ctx EXCEPT !.selection = tail(b)]
      InLoop == [ctx EXCEPT !.head = b.to[1], !.loop = tail(b)]
  IN CASE b.op \in {"Jump", "Branch", "Switch"} ->
            [i \in DOMAIN b.to |-> Edge(b.to[i], "Jump", ctx)]
       [] b.op = "If" ->
            ToTail \o <<Edge(b.to[1], "Enter", InIf),
                      IF b.to[2] = NoBlock THEN Edge(tail(b), "Leave", ctx)
                                           ELSE Edge(b.to[2], "Enter", InIf)>>
       [] b.op = "Loop" -> Append(ToTail, Edge(b.to[1], "Enter", InLoop))
       [] b.op = "Control" -> <<Edge(b.to[1], "Enter", ctx)>> \o ToTail
       [] b.op = "Join" /\ b.jp \in DOMAIN join_points ->
            Exit(join_points[b.jp], "Leave")
       [] b.op = "MergeSelection" -> Exit(ctx.selection, "Leave")
       [] b.op = "MergeContinue" -> Exit(ctx.head, "Continue")
       [] b.op = "MergeBreak" -> Exit(ctx.loop, "Leave")
       [] OTHER -> <<>>

\* get_or_enqueue and add_edge: depth first, an edge is recorded once the block
\* it leads to is complete.
RECURSIVE get_or_enqueue(_, _, _, _, _, _)
get_or_enqueue(p, config, entry, st, n, ctx) ==
  IF n \in st.nodes THEN st ELSE
  LET joins == IF p[n].op = "Control" THEN (p[n].jp :> tail(p[n])) @@ st.join_points
                                      ELSE st.join_points
      add_edge(s, e) ==
        IF e.dst \notin config.within \/ (config.within # DOMAIN p /\ e.dst = entry) THEN s
        ELSE LET t == get_or_enqueue(p, config, entry, s, e.dst, e.ctx)
             IN [t EXCEPT !.edges = Append(@, [src |-> n, dst |-> e.dst, type |-> e.type])]
      done == FoldLeft(add_edge,
                       [st EXCEPT !.nodes = @ \cup {n}, !.join_points = joins],
                       process_cf_node(p, config, joins, n, ctx))
  IN [done EXCEPT !.contents = Append(@, n)]

\* Inverts every edge; a function with several exits gets one more node, 0,
\* that leads to all of them.  A function with no exit has no entry.
flip_cfg(g) ==
  LET turned == [i \in DOMAIN g.edges |->
                   [src |-> g.edges[i].dst, dst |-> g.edges[i].src, type |-> g.edges[i].type]]
      exits == SelectSeq(g.contents, LAMBDA n : ~\E e \in ToSet(g.edges) : e.src = n)
  IN CASE exits = <<>> -> [g EXCEPT !.edges = turned, !.entry = NoBlock]
       [] Len(exits) = 1 -> [g EXCEPT !.edges = turned, !.entry = exits[1]]
       [] OTHER -> [g EXCEPT !.entry = 0, !.contents = Append(@, 0),
                     !.edges = turned \o
                       [i \in DOMAIN exits |-> [src |-> 0, dst |-> exits[i], type |-> "Jump"]]]

-----------------------------------------------------------------------------
(* Reverse post-order and dominators.                                      *)

succ_edges(g, n) == SelectSeq(g.edges, LAMBDA e : e.src = n)
pred_edges(g, n) == SelectSeq(g.edges, LAMBDA e : e.dst = n)
IsTailEdge(e) == e.type = "Tail"

\* Tail edges are visited last.
RECURSIVE post_order_visit(_, _, _)
post_order_visit(g, st, n) ==
  LET succ == succ_edges(g, n)
      phases == SelectSeq(succ, LAMBDA e : ~IsTailEdge(e)) \o SelectSeq(succ, IsTailEdge)
      done == FoldLeft(LAMBDA s, e : IF e.dst \in s.seen THEN s ELSE post_order_visit(g, s, e.dst),
                       [st EXCEPT !.seen = @ \cup {n}], phases)
  IN [done EXCEPT !.rpo = <<n>> \o @]

RECURSIVE least_common_ancestor(_, _, _, _)
least_common_ancestor(index, idom, i, j) ==
  IF i = j THEN i
  ELSE IF index[i] < index[j] THEN least_common_ancestor(index, idom, i, idom[j])
                              ELSE least_common_ancestor(index, idom, idom[i], j)

\* The first guess: a predecessor that comes earlier.
first_idom(g, index, n) ==
  LET earlier == SelectSeq(pred_edges(g, n), LAMBDA e : index[e.src] < index[n])
  IN IF n = g.entry \/ earlier = <<>> THEN NoBlock ELSE earlier[1].src

\* The tails of constructs keep that first guess, the others are refined until
\* nothing changes.
refine_idoms_Never(g, index, idom) == idom
RECURSIVE refine_idoms(_, _, _)
refine_idoms(g, index, idom) ==
  LET refined(d, n) ==
        IF n = g.entry \/ \E e \in ToSet(pred_edges(g, n)) : IsTailEdge(e) THEN d
        ELSE [d EXCEPT ![n] =
                FoldLeft(LAMBDA a, e : IF a = NoBlock THEN e.src
                                       ELSE least_common_ancestor(index, d, a, e.src),
                         NoBlock, pred_edges(g, n))]
      next == FoldLeft(refined, idom, g.contents)
  IN IF next = idom THEN idom ELSE refine_idoms(g, index, next)

compute_rpo(g) == IF g.entry = NoBlock THEN <<>>
                  ELSE post_order_visit(g, [seen |-> {}, rpo |-> <<>>], g.entry).rpo

compute_domtree(g, rpo) ==
  LET index == [n \in ToSet(rpo) |-> CHOOSE i \in DOMAIN rpo : rpo[i] = n]
  IN refine_idoms(g, index, [n \in ToSet(rpo) |-> first_idom(g, index, n)])

\* defined is FALSE where the code stops with an assertion or an error: no exit
\* to start a flipped graph from, or a block no exit is reached from.
with_order(g, rpo) ==
  [entry |-> g.entry, contents |-> g.contents, edges |-> g.edges, rpo |-> rpo,
   defined |-> Len(rpo) = Len(g.contents),
   idom |-> IF Len(rpo) = Len(g.contents) THEN compute_domtree(g, rpo) ELSE <<>>]
ordered(g) == with_order(g, compute_rpo(g))

\* shd_new_cfg
explore(p, entry, config) ==
  get_or_enqueue(p, config, entry, [entry |-> entry, nodes |-> {}, contents |-> <<>>,
                                    edges |-> <<>>, join_points |-> <<>>], entry, NoContext)
new_cfg(p, entry, config) ==
  ordered(IF config.flipped THEN flip_cfg(explore(p, entry, config)) ELSE explore(p, entry, config))

build_fn_cfg(p) == new_cfg(p, 1, default_forward_cfg_build(p))
build_fn_cfg_flipped(p) == new_cfg(p, 1, flipped_cfg_build(p))

\* The blocks n is the immediate dominator of, in reverse post-order.
dominates(g, n) == SelectSeq(g.rpo, LAMBDA m : g.idom[m] = n)

-----------------------------------------------------------------------------
(* Loop tree.  A block is mapped to the loops it is in, innermost first,   *)
(* each given by the sequence of its heads; the root has no head.          *)

smaller(a, b) == IF a < b THEN a ELSE b

\* A block that does not jump to itself, or does so as a head already dealt with.
is_leaf_NoSelfLoops(g, scc, is_head) == Len(scc) = 1
is_leaf(g, scc, is_head) ==
  Len(scc) = 1 /\ (scc[1] \in is_head \/ \A e \in ToSet(succ_edges(g, scc[1])) : e.dst # scc[1])

RECURSIVE walk_scc(_, _, _)
walk_scc(g, st, cur) ==
  LET visit == [st EXCEPT !.in_set = @ \cup {cur}, !.dfs[cur] = st.counter,
                          !.low_link[cur] = st.counter, !.counter = @ + 1,
                          !.stack = Append(@, cur)]
      follow(s, e) ==
        IF e.dst \in s.is_head THEN s
        ELSE IF e.dst \notin s.in_set
          THEN LET w == walk_scc(g, s, e.dst)
               IN [w EXCEPT !.low_link[cur] = smaller(@, w.low_link[e.dst])]
        ELSE IF e.dst \in ToSet(s.stack)
          THEN [s EXCEPT !.low_link[cur] = smaller(@, s.low_link[e.dst])]
        ELSE s
      w == FoldLeft(follow, visit, succ_edges(g, cur))
      at == CHOOSE i \in DOMAIN w.stack : w.stack[i] = cur
      scc == SubSeq(w.stack, at, Len(w.stack))
      heads == SelectSeq(scc, LAMBDA n : \/ n = g.entry
                                         \/ \E e \in ToSet(pred_edges(g, n)) : e.src \notin ToSet(scc))
  IN IF w.low_link[cur] # w.dfs[cur] THEN w
     ELSE [w EXCEPT !.stack = SubSeq(@, 1, at - 1),
                    !.children = Append(@, [leaf |-> is_leaf(g, scc, w.is_head), cf_nodes |-> heads])]

RECURSIVE recurse(_, _, _, _)
recurse(g, st, heads, loops) ==
  LET from_head(s, h) ==
        LET w == walk_scc(g, [s EXCEPT !.in_set = {}, !.counter = 0], h)
        IN [w EXCEPT !.is_head = @ \cup UNION {ToSet(c.cf_nodes) : c \in ToSet(w.children)}]
      walked == FoldLeft(from_head, [st EXCEPT !.children = <<>>], heads)
      into(s, c) == IF c.leaf THEN [s EXCEPT !.map = (c.cf_nodes[1] :> loops) @@ @]
                              ELSE recurse(g, s, c.cf_nodes, <<c.cf_nodes>> \o loops)
  IN FoldLeft(into, walked, walked.children)

new_loop_tree(g) ==
  LET zero == [n \in ToSet(g.contents) |-> 0]
  IN recurse(g, [in_set |-> {}, dfs |-> zero, low_link |-> zero, counter |-> 0, stack |-> <<>>,
                 is_head |-> {}, children |-> <<>>, map |-> <<>>],
             <<g.entry>>, << <<>> >>).map

\* cfg.c's in_loop: block is in the loop headed by head alone, or head is the
\* function itself.
in_loop(lt, head, block) ==
  \E i \in DOMAIN lt[block] : lt[block][i] = <<head>> \/ (lt[block][i] = <<>> /\ head = 1)

\* The flipped CFG of one loop.
loop_cfg(p, lt, head) ==
  new_cfg(p, head, [structured_exits |-> FALSE, structured_tails |-> TRUE, flipped |-> TRUE,
                    within |-> {n \in DOMAIN lt : in_loop(lt, head, n)}])
=============================================================================
