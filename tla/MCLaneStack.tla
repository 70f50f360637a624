---------------------------- MODULE MCLaneStack -----------------------------
(* Instances of LaneStack.  What is pushed has one, two, six or seven words; the record of  *)
(* the slots has padding in it.                                                             *)
EXTENDS LaneStack

Pair == RecordType(<<U32, U64>>)
MCTypes == << U8, U32, U64, TreeNode, JoinPoint, ArrType(U8, StackBytes), Globals, Pair,
              RecordType(<<Pair, Pair>>) >>
MCDataTypes == {U64}
NoParameters == { <<>> }
MCYieldTypes == { <<>>, <<U64>> }
MCFrameTypes == { <<Pair, Pair>> }
=============================================================================
