------------------------ MODULE MCSubgroupScheduler ------------------------
(***************************************************************************)
(* Instances of SubgroupScheduler: an entry function, one or two           *)
(* functions it calls (recursively too), a control in each of them.        *)
(***************************************************************************)
EXTENDS SubgroupScheduler

OneCallee  == {2}
TwoCallees == {2, 3}
NoLimit    == {Unlimited}
MCLimits   == {Unlimited, 2}
MCTails    == {4, 5}
MCTailOf   == [f \in MCTails |-> IF f = 4 THEN Entry ELSE 2]
=============================================================================
