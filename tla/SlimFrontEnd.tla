---------------------------- MODULE SlimFrontEnd -----------------------------
(* The Slim front end as slim_driver.c runs it: a text is parsed, its names are bound, the    *)
(* result normalized and given types, its constructs lowered; and then the rounds of           *)
(* optimisations that may follow any pass (shd_cleanup).  What does not get through stops the  *)
(* compiler.                                                                                 *)
EXTENDS SlimPrograms, Cleanup

VARIABLES family,           \* which program of which family
          choice,
          layout,           \* how its text is laid out, until it is parsed
          stage,            \* how far it has come
          compiled,         \* what is made of it
          weaken,           \* weaken_non_leaking_allocas, of the arena
          cleanup_todo              \* has this round changed anything?
slimvars == << family, choice, layout, stage, compiled, weaken, cleanup_todo >>

SlimInit ==
    /\ family \in Families
    /\ choice \in ChoicesOf(family)
    /\ layout \in Layouts
    /\ stage = "text"
    /\ compiled = EmptyModule
    /\ weaken = FALSE
    /\ cleanup_todo = FALSE

Reaches(next_stage, ok, m) ==
    /\ stage' = IF ok THEN next_stage ELSE "rejected"
    /\ compiled' = IF ok THEN m ELSE EmptyModule
    /\ UNCHANGED << family, choice >>

Parse ==
    /\ stage = "text"
    /\ layout' = ""
    /\ \E p \in {slim_parse_string(TextOf(Source(family, choice), layout))} : Reaches("parsed", p.ok, p.m)
    /\ UNCHANGED << weaken, cleanup_todo >>

BindNames ==
    /\ stage = "parsed"
    /\ \E r \in {slim_pass_bind(compiled)} : Reaches("bound", r.ok, r.dst)
    /\ UNCHANGED << layout, weaken, cleanup_todo >>

Normalize ==
    /\ stage = "bound"
    /\ Reaches("normalized", TRUE, slim_pass_normalize(compiled))
    /\ UNCHANGED << layout, weaken, cleanup_todo >>

Infer ==
    /\ stage = "normalized"
    /\ \E r \in {slim_pass_infer(compiled)} : Reaches("typed", r.ok, r.dst)
    /\ UNCHANGED << layout, weaken, cleanup_todo >>

(* Merges that do not meet their construct are the subject of the run nested_merges.           *)
LowerCfInstrs ==
    /\ stage = "typed"
    /\ MergesMeet(compiled)
    /\ weaken' \in Weakenings(family)
    /\ Reaches("lowered", TRUE, lower_cf_instrs(compiled))
    /\ UNCHANGED << layout, cleanup_todo >>

Optimizes(next_stage, r, changed) ==
    /\ stage' = next_stage
    /\ compiled' = r.m
    /\ cleanup_todo' = changed
    /\ UNCHANGED << family, choice, layout, weaken >>

(* A round of shd_cleanup: another one follows as long as one of the three had something to do. *)
DemoteAlloca ==
    /\ stage = "lowered"
    /\ \E r \in {opt_demote_alloca(compiled, weaken)} : Optimizes(IF r.ok THEN "demoted" ELSE "stopped", r, r.todo)

Mem2Reg ==
    /\ stage = "demoted"
    /\ \E r \in {opt_mem2reg(compiled)} : Optimizes("promoted", r, cleanup_todo \/ r.todo)

Simplify ==
    /\ stage = "promoted"
    /\ \E r \in {opt_simplify(compiled)} : Optimizes(IF cleanup_todo \/ r.todo THEN "lowered" ELSE "clean", r, FALSE)

SlimNext == Parse \/ BindNames \/ Normalize \/ Infer \/ LowerCfInstrs \/ DemoteAlloca \/ Mem2Reg \/ Simplify
SlimSpec == SlimInit /\ [][SlimNext]_slimvars

-----------------------------------------------------------------------------
ArgumentLists == << << 6, 2, 1 >>, << 0, 1, 3 >>, << 251, 3, 2 >> >>
MainOf(decls) == CHOOSE d \in DOMAIN decls : decls[d].name = "main"
Arguments(formals, input) == [i \in DOMAIN formals |-> rv(formals[i].type.type, input[i])]
GlobalCell(m, d) ==
    IF m.decls[d].tag = "GlobalVariable" THEN << ev(m, << >>, m.decls[d].value).v >> ELSE << >>
Ran(m, args) ==
    Observed(RunFn(m, MainOf(m.decls), args, Start([d \in DOMAIN m.decls |-> GlobalCell(m, d)])), Len(m.decls))

(* Whatever its layout, a program is accepted, and a text with a mistake is not (parser.c,     *)
(* bind.c, infer.c, check.c).                                                                 *)
SlimAccepts ==
    /\ stage = "rejected" => ~Source(family, choice).right
    /\ stage = "typed" => Source(family, choice).right

(* What the front end makes of a program returns, prints and leaves in the variables of the   *)
(* module the values, of the types, that the program says: precedence, scopes, places and     *)
(* values, continuations and the types of numbers survive parser.c, bind.c and infer.c; and    *)
(* no optimisation (opt_demote_alloca.c, opt_mem2reg.c, cleanup.c), after however many rounds, *)
(* changes any of it.                                                                        *)
SlimExact ==
    stage \in {"typed", "lowered", "demoted", "promoted", "clean"} =>
        \E decls \in {Source(family, choice).decls} :
            \A i \in DOMAIN ArgumentLists :
                LET args == Arguments(decls[MainOf(decls)].params, ArgumentLists[i]) IN Ran(compiled, args) = Meant(decls, args)
=============================================================================
