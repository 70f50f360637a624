---------------------------- MODULE MCVkRuntime ----------------------------
(* Three commands: two launches under way, or one with a copy, and a copy   *)
(* that was given up.                                                      *)
EXTENDS VkRuntime, TLC

CommandsAlike == Permutations(Cmd)
=============================================================================
