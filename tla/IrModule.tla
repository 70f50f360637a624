------------------------------ MODULE IrModule ------------------------------
(* What the passes over calls have in common: the module they are given.   *)

CONSTANT Fn   \* its functions
=============================================================================
