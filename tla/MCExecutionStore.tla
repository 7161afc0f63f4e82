--------------------------- MODULE MCExecutionStore ---------------------------
(***************************************************************************)
(* A small instance of ExecutionStore.  Of the requests that differ only   *)
(* in a field no condition reads, one is kept: Condition is varied only    *)
(* where DBRecordVersion is 0, and a new run starts at version 1 and at    *)
(* the first event id.                                                     *)
(***************************************************************************)
EXTENDS ExecutionStore

CONSTANT FirstVersion, FirstEvent

Mutation(s) == s.dbv # 0 => s.cond = FirstEvent
Fresh(s)    == s = Nil \/ (s.dbv = FirstVersion /\ s.nev = FirstEvent /\ s.cond = FirstEvent)

Kept(q) ==
    CASE q.op = "Create" ->
            Fresh(q.new) /\ (q.mode # "UpdateCurrent" => q.prevRun = q.new.run)
      [] q.op = "Update"          -> Mutation(q.base) /\ Fresh(q.new)
      [] q.op = "ConflictResolve" -> Mutation(q.base) /\ Fresh(q.new) /\ (q.cur # Nil => Mutation(q.cur))
      [] q.op = "Set"             -> Mutation(q.base)

\* The image of a set is a set that TLC enumerates once and keeps.
KeptRequests == {q : q \in {x \in Request : Kept(x)}}

MCRequests == KeptRequests
=============================================================================
