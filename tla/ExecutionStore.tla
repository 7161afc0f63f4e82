---------------------------- MODULE ExecutionStore ----------------------------
(***************************************************************************)
(* What the execution store promises: every operation on the records of    *)
(* one workflow id takes effect at one instant, and only if all of its     *)
(* conditions hold at that instant.  ExecutionTxn, which runs the          *)
(* operations command by command, is shown to implement this module.       *)
(***************************************************************************)
EXTENDS ExecutionRequests

CONSTANT Requests   \* the requests the callers issue

ASSUME RequestsAssumption == Requests \subseteq Request

VARIABLES
    lease,      \* range_id of the shard record, Nil when there is none
    current,    \* the current-execution record of the workflow
    exec,       \* the execution records, by run id
    tasks,      \* the history tasks written so far
    events      \* the history event batches written so far

vars == <<lease, current, exec, tasks, events>>

Init ==
    /\ lease = Nil
    /\ current = Nil
    /\ exec = [r \in Run |-> Nil]
    /\ tasks = {}
    /\ events = {}

-----------------------------------------------------------------------------
\* GetOrCreateShard when there is no record yet.
GetOrCreateShard(r) ==
    /\ lease = Nil
    /\ lease' = r
    /\ UNCHANGED <<current, exec, tasks, events>>

\* UPDATE ... IF range_id = prev.
UpdateShard(prev, r) ==
    /\ lease = prev
    /\ lease' = r
    /\ UNCHANGED <<current, exec, tasks, events>>

-----------------------------------------------------------------------------
\* writeTasks and appendEvents for the snapshots and mutations in S.
WriteTasks(S)   == tasks' = tasks \cup {TaskOf(s) : s \in S}
AppendEvents(S) == events' = events \cup {EventsOf(s) : s \in S}

NonNil(S) == S \ {Nil}

CreateWorkflowExecution(q, rangeID) ==
    /\ lease = rangeID
    /\ \/ /\ q.mode = "BypassCurrent"
          /\ UNCHANGED current
       \/ /\ q.mode = "UpdateCurrent"
          /\ current # Nil
          /\ current.run = q.prevRun
          /\ current.lwv = q.prevLwv
          /\ current.state = "Completed"
          /\ current' = PointerTo(q.new)
       \/ /\ q.mode = "BrandNew"
          /\ current = Nil
          /\ current' = PointerTo(q.new)
    /\ exec[q.new.run] = Nil
    /\ exec' = [exec EXCEPT ![q.new.run] = ExecutionOf(q.new)]
    /\ WriteTasks({q.new})
    /\ AppendEvents({q.new})
    /\ UNCHANGED lease

NewRunIsFresh(q) == q.new # Nil => exec[q.new.run] = Nil

UpdateWorkflowExecution(q, rangeID) ==
    /\ lease = rangeID
    /\ \/ /\ q.mode = "IgnoreCurrent"
          /\ UNCHANGED current
       \/ /\ q.mode = "BypassCurrent"
          /\ current # Nil => current.run # q.base.run
          /\ UNCHANGED current
       \/ /\ q.mode = "UpdateCurrent"
          /\ current # Nil
          /\ current.run = q.base.run
          /\ current' = NewCurrent(q)
    /\ ConditionHolds(q.base, exec[q.base.run])
    /\ NewRunIsFresh(q)
    /\ exec' = [r \in Run |->
                  IF q.new # Nil /\ r = q.new.run THEN ExecutionOf(q.new)
                  ELSE IF r = q.base.run THEN ExecutionOf(q.base)
                  ELSE exec[r]]
    /\ WriteTasks(NonNil({q.base, q.new}))
    /\ AppendEvents(NonNil({q.base, q.new}))
    /\ UNCHANGED lease

ConflictResolveWorkflowExecution(q, rangeID) ==
    /\ lease = rangeID
    /\ \/ /\ q.mode = "BypassCurrent"
          /\ current # Nil => current.run # q.base.run
          /\ UNCHANGED current
       \/ /\ q.mode = "UpdateCurrent"
          /\ current # Nil
          /\ current.run = (IF q.cur # Nil THEN q.cur.run ELSE q.base.run)
          /\ current' = NewCurrent(q)
    /\ ConditionHolds(q.base, exec[q.base.run])
    /\ q.cur # Nil => ConditionHolds(q.cur, exec[q.cur.run])
    /\ NewRunIsFresh(q)
    /\ exec' = [r \in Run |->
                  IF q.new # Nil /\ r = q.new.run THEN ExecutionOf(q.new)
                  ELSE IF q.cur # Nil /\ r = q.cur.run THEN ExecutionOf(q.cur)
                  ELSE IF r = q.base.run THEN ExecutionOf(q.base)
                  ELSE exec[r]]
    /\ WriteTasks(NonNil({q.base, q.cur, q.new}))
    /\ AppendEvents(NonNil({q.base, q.cur, q.new}))
    /\ UNCHANGED lease

\* SetWorkflowExecution carries no events and leaves the pointer alone.
SetWorkflowExecution(q, rangeID) ==
    /\ lease = rangeID
    /\ ConditionHolds(q.base, exec[q.base.run])
    /\ exec' = [exec EXCEPT ![q.base.run] = ExecutionOf(q.base)]
    /\ WriteTasks({q.base})
    /\ UNCHANGED <<lease, current, events>>

\* Deleting what is not there, or not ours, succeeds and changes nothing.
DeleteCurrentWorkflowExecution(r) ==
    /\ current # Nil
    /\ current.run = r
    /\ current' = Nil
    /\ UNCHANGED <<lease, exec, tasks, events>>

DeleteWorkflowExecution(r) ==
    /\ exec[r] # Nil
    /\ exec' = [exec EXCEPT ![r] = Nil]
    /\ UNCHANGED <<lease, current, tasks, events>>

-----------------------------------------------------------------------------
Execute(q, rangeID) ==
    \/ q.op = "Create"          /\ CreateWorkflowExecution(q, rangeID)
    \/ q.op = "Update"          /\ UpdateWorkflowExecution(q, rangeID)
    \/ q.op = "ConflictResolve" /\ ConflictResolveWorkflowExecution(q, rangeID)
    \/ q.op = "Set"             /\ SetWorkflowExecution(q, rangeID)

(***************************************************************************)
(* What the store leaves to its callers: requests are BuiltFromLoaded,     *)
(* only closed runs are deleted, the pointer before the record, and a      *)
(* lease is renewed upwards or kept.                                       *)
(***************************************************************************)
CallerBuilt(q) ==
    q.op \in {"Set", "Update"} /\ exec[q.base.run] # Nil => BuiltFromLoaded(q, exec[q.base.run])

IsClosed(r) == exec[r] # Nil => exec[r].state # "Running"

IsCurrent(r) == current # Nil /\ current.run = r

Next ==
    \/ \E r \in RangeID : GetOrCreateShard(r)
    \/ \E prev, r \in RangeID : r >= prev /\ UpdateShard(prev, r)
    \/ \E q \in Requests, r \in RangeID : CallerBuilt(q) /\ Execute(q, r)
    \/ \E r \in Run : IsClosed(r) /\ DeleteCurrentWorkflowExecution(r)
    \/ \E r \in Run : IsClosed(r) /\ ~IsCurrent(r) /\ DeleteWorkflowExecution(r)

Spec == Init /\ [][Next]_vars

-----------------------------------------------------------------------------
TypeOK ==
    /\ lease \in RangeID \cup {Nil}
    /\ current \in Pointer \cup {Nil}
    /\ exec \in [Run -> Execution \cup {Nil}]
    /\ tasks \subseteq Run \X DBVersion
    /\ events \subseteq Run \X EventID

\* The current-execution record always names a run that has an execution
\* record, and repeats that run's workflow state.  The two records are written
\* by different commands of each operation, and only some modes touch both.
PointerMatchesRun ==
    current # Nil =>
        /\ exec[current.run] # Nil
        /\ exec[current.run].state = current.state

\* A workflow id has at most one running run, and it is the one the
\* current-execution record names (the bypass modes only ever leave zombies
\* and closed runs behind the pointer's back).
RunningRunIsCurrent ==
    \A r \in Run :
        exec[r] # Nil /\ exec[r].state = "Running" => current # Nil /\ current.run = r

\* The events that brought a run to its next event id are stored, and so is
\* the task written with its record version: mutable state never gets ahead of
\* history or of the queues.
StateIsBackedByWrites ==
    \A r \in Run : exec[r] # Nil =>
        /\ <<r, exec[r].nev>> \in events
        /\ <<r, exec[r].dbv>> \in tasks

\* A version-conditioned write moves a record's version up by exactly one, and
\* a run's record never appears and is rewritten by one operation: nothing
\* skips or repeats a version of the optimistic lock.
VersionsStepByOne ==
    [][\A r \in Run :
          exec[r] # Nil /\ exec'[r] # Nil /\ exec'[r] # exec[r] /\ exec'[r].dbv # 0
              => exec'[r].dbv = exec[r].dbv + 1]_vars
=============================================================================
