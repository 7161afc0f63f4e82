---------------------------- MODULE MCHistoryTasks ----------------------------
(***************************************************************************)
(* Buckets of two task ids.  BoundIDs are the ends of the ranges that the  *)
(* queue processor completes: on a bucket's boundary, or inside a bucket   *)
(* that is still being filled.                                             *)
(***************************************************************************)
EXTENDS HistoryTasks, TLC

CONSTANTS TaskIDs, BoundIDs

Immediate(i) == [fire |-> 0, id |-> i]

ImmediateTasks  == {Immediate(i) : i \in TaskIDs}
ImmediateBounds == {Immediate(i) : i \in BoundIDs}

TasksOf  == ImmediateTasks
BoundsOf == ImmediateBounds

WriterSymmetry == Permutations(Writer)
=============================================================================
