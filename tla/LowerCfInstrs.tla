---------------------------- MODULE LowerCfInstrs -----------------------------
(* Structured constructs become controls and joins (passes/lower_cf_instrs.c), with the      *)
(* values they carry.  The control flow alone, with what can go wrong when a merge looks for  *)
(* its construct, is in FlowPasses; here the same pass works on functions that can be run.    *)
(* A block keeps its number, the blocks the pass makes are appended.                          *)
EXTENDS FunctionIr

Flow == INSTANCE FlowPasses WITH NoBlock <- 0

(* What the control-flow analyses look at.                                                   *)
FlowTargets(n) ==
    CASE n.tag = "Jump" -> << target(n, 1) >>
      [] n.tag = "Branch" -> << target(n.ops[2], 1), target(n.ops[3], 1) >>
      [] n.tag = "If" -> << target(n, 2), IF n.ops[3].tag = "Null" THEN 0 ELSE target(n, 3), target(n, 4) >>
      [] n.tag \in {"Loop", "Control"} -> << target(n, 1), target(n, 2) >>
      [] OTHER -> << >>
JoinPointOf(n) ==
    CASE n.tag = "Control" -> target(n, 1) [] n.tag = "Join" -> n.ops[1].nums[1] [] OTHER -> 0
FlowOf(m) ==
    [b \in DOMAIN m.blocks |->
        [eff |-> << >>, op |-> m.blocks[b].body.tag, to |-> FlowTargets(m.blocks[b].body),
         jp |-> JoinPointOf(m.blocks[b].body), test |-> << >>]]

Defined(m) == {d \in DOMAIN m.decls : m.decls[d].tag = "Function" /\ m.blocks[m.decls[d].block].body.tag # "Null"}
Cfg(p, entry) == Flow!new_cfg(p, entry, Flow!default_forward_cfg_build(p))

-----------------------------------------------------------------------------
Formals(types) == [i \in DOMAIN types |-> [type |-> qualified_type(types[i], FALSE), name |-> ""]]
Given_by(b, formals) == [i \in DOMAIN formals |-> [ParamNode(b, i) EXCEPT !.type = formals[i].type]]
Ending(formals, body) == [Abstraction(formals, "") EXCEPT !.body = body]
JumpTo(b, args) == Bare("Jump", << BlockNode(b) >> \o args)
ControlOf(types, inside, after) == Node("Control", "", << >>, << BlockNode(inside), BlockNode(after) >>, types)
PassesOn(b, formals, to) == Ending(formals, JumpTo(to, Given_by(b, formals)))
Binds_point(types) == Formals(<< JoinPointType(types) >>)
PointOf(b) == ParamNode(b, 1)

With_blocks(m, b, body, more) == [m EXCEPT !.blocks = [@ EXCEPT ![b].body = body] \o more]

(* The branch is taken inside of a control, which the cases leave by joining.                *)
lower_if(m, b, n, k) ==
    LET no_else == n.ops[3].tag = "Null"
        jumps == << JumpTo(target(n, 2), << >>), JumpTo(IF no_else THEN k + 3 ELSE target(n, 3), << >>) >>
    IN  With_blocks(m, b, ControlOf(n.types, k + 1, k + 2),
            << Ending(Binds_point(n.types), Bare("Branch", << n.ops[1] >> \o jumps)),
               PassesOn(k + 2, Formals(n.types), target(n, 4)) >>
            \o IF no_else THEN << Ending(<< >>, Bare("Join", << PointOf(k + 1) >>)) >> ELSE << >>)

(* A control for the breaks, in it a block that loops, in that a control for the continues.   *)
lower_loop(m, b, n, k) ==
    LET formals == m.blocks[target(n, 1)].params
        types == [i \in DOMAIN formals |-> formals[i].type.type]
    IN  With_blocks(m, b, ControlOf(n.types, k + 4, k + 5),
            << Ending(formals, ControlOf(types, k + 2, k + 3)),
               Ending(Binds_point(types), JumpTo(target(n, 1), Given_by(k + 1, formals))),
               PassesOn(k + 3, Formals(types), k + 1),
               Ending(Binds_point(n.types), JumpTo(k + 1, Rest(n.ops, 3))),
               PassesOn(k + 5, Formals(n.types), target(n, 2)) >>)

lower_construct(m, b) ==
    CASE m.blocks[b].body.tag = "If" -> lower_if(m, b, m.blocks[b].body, Len(m.blocks))
      [] m.blocks[b].body.tag = "Loop" -> lower_loop(m, b, m.blocks[b].body, Len(m.blocks))
      [] OTHER -> m
RECURSIVE lower_constructs(_, _)
lower_constructs(m, bs) ==
    IF bs = << >> THEN m ELSE lower_constructs(lower_construct(m, Head(bs)), Tail(bs))

-----------------------------------------------------------------------------
(* A merge joins the closest construct of its kind that dominates it.                        *)
MergeTags == {"MergeSelection", "MergeContinue", "MergeBreak"}
construct_of(p, cfg, b) ==
    Flow!dominating_construct(p, cfg.idom, b, IF p[b].op = "MergeSelection" THEN "If" ELSE "Loop")

inside_of(m, b) == target(m.blocks[b].body, 1)
loop_header(m, b) == target(m.blocks[inside_of(m, b)].body, 1)
merge_point(m, tag, construct) ==
    PointOf(IF tag = "MergeContinue" THEN inside_of(m, loop_header(m, construct)) ELSE inside_of(m, construct))
visited(cfg) == {cfg.contents[i] : i \in DOMAIN cfg.contents}
lower_merges(m, p, cfg) ==
    [m EXCEPT !.blocks = [b \in DOMAIN @ |->
        IF b \notin visited(cfg) \/ @[b].body.tag \notin MergeTags THEN @[b]
        ELSE [@[b] EXCEPT !.body = Bare("Join", << merge_point(m, @.tag, construct_of(p, cfg, b)) >> \o @.ops)]]]

(* A function that says it is structured stays so.                                           *)
disable_lowering(m, d) == \E i \in DOMAIN m.decls[d].annotations : m.decls[d].annotations[i].name = "Structured"
lower_function(m, p, cfg) == lower_merges(lower_constructs(m, cfg.contents), p, cfg)
RECURSIVE lower_functions(_, _, _)
lower_functions(m, p, ds) ==
    IF ds = {} THEN m
    ELSE LET d == CHOOSE d \in ds : TRUE
         IN  lower_functions(lower_function(m, p, Cfg(p, m.decls[d].block)), p, ds \ {d})

Lowered(m) == {d \in Defined(m) : ~disable_lowering(m, d)}
lower_cf_instrs(m) == lower_functions(m, FlowOf(m), Lowered(m))

(* Every merge finds the construct that it leaves: one in the tail of an inner construct does *)
(* not (the run nested_merges).                                                              *)
MeetsItsConstruct(m, p, cfg, b) ==
    LET c == construct_of(p, cfg, b)
    IN  /\ c # 0
        /\ \E i \in DOMAIN cfg.edges :
              /\ cfg.edges[i].src = b
              /\ cfg.edges[i].dst = IF p[b].op = "MergeContinue" THEN p[c].to[1] ELSE p[c].to[Len(p[c].to)]
MergesMeet(m) ==
    \A d \in Lowered(m) : \E p \in {FlowOf(m)} : \E cfg \in {Cfg(p, m.decls[d].block)} :
        \A b \in visited(cfg) : p[b].op \in MergeTags => MeetsItsConstruct(m, p, cfg, b)
=============================================================================
