------------------------- MODULE ExecutionStoreProofs -------------------------
(***************************************************************************)
(* The invariants of ExecutionStore, for every set of runs, versions,      *)
(* range ids and requests.  None of the three safety invariants is         *)
(* inductive alone: that the pointer names the running run needs the       *)
(* pointer to repeat that run's state, and the other way round.            *)
(***************************************************************************)
EXTENDS ExecutionStore, TLAPS

IInv == TypeOK /\ PointerMatchesRun /\ RunningRunIsCurrent /\ StateIsBackedByWrites

\* What a create request may carry, by mode.
LEMMA CreateShape ==
    ASSUME NEW q \in Requests, q.op = "Create"
    PROVE  /\ q.new \in Snapshot
           /\ q.mode \in {"BrandNew", "UpdateCurrent"} => q.new.state = "Running"
           /\ q.mode = "BypassCurrent" => q.new.state = "Zombie"
BY RequestsAssumption DEF Request, CreateRequest, UpdateRequest, SetRequest, ConflictResolveRequest, SnapshotIn

\* What an update request may carry, by mode.
LEMMA UpdateShape ==
    ASSUME NEW q \in Requests, q.op = "Update"
    PROVE  /\ q.base \in Snapshot
           /\ q.new \in Snapshot \cup {Nil}
           /\ q.mode = "UpdateCurrent" /\ q.new # Nil =>
                 q.base.state = "Completed" /\ q.new.state = "Running"
           /\ q.mode = "BypassCurrent" =>
                 q.base.state \in Closed /\ (q.new # Nil => q.new.state = "Zombie")
           /\ q.mode = "IgnoreCurrent" => q.new = Nil
BY RequestsAssumption DEF Request, CreateRequest, UpdateRequest, SetRequest, ConflictResolveRequest, SnapshotIn

\* What a conflict-resolution request may carry, by mode.
LEMMA ConflictResolveShape ==
    ASSUME NEW q \in Requests, q.op = "ConflictResolve"
    PROVE  /\ q.base \in Snapshot
           /\ q.cur \in Snapshot \cup {Nil}
           /\ q.new \in Snapshot \cup {Nil}
           /\ q.cur # Nil => q.cur.run # q.base.run /\ q.cur.state \in Closed
           /\ q.mode = "UpdateCurrent" /\ q.new # Nil =>
                 q.base.state = "Completed" /\ q.new.state = "Running"
           /\ q.mode = "BypassCurrent" =>
                 /\ q.cur = Nil
                 /\ q.base.state \in Closed
                 /\ q.new # Nil => q.new.state = "Zombie"
BY RequestsAssumption
DEF Request, CreateRequest, UpdateRequest, SetRequest, ConflictResolveRequest, SnapshotIn, DistinctRuns

\* What a set request carries.
LEMMA SetShape ==
    ASSUME NEW q \in Requests, q.op = "Set"
    PROVE  q.base \in Snapshot
BY RequestsAssumption DEF Request, CreateRequest, UpdateRequest, SetRequest, ConflictResolveRequest, SnapshotIn

-----------------------------------------------------------------------------
\* Writing a snapshot over a run yields records of the right types.
LEMMA WrittenTypes ==
    ASSUME NEW s \in Snapshot
    PROVE  /\ ExecutionOf(s) \in Execution
           /\ PointerTo(s) \in Pointer
           /\ s.run \in Run
           /\ TaskOf(s) \in Run \X DBVersion
           /\ EventsOf(s) \in Run \X EventID
           /\ ExecutionOf(s) # Nil
           /\ PointerTo(s) # Nil
           /\ s # Nil
BY ConstantsAssumption DEF Snapshot, ExecutionOf, PointerTo, Execution, Pointer, TaskOf, EventsOf

\* CreateWorkflowExecution keeps the invariant.
LEMMA CreateStep ==
    ASSUME IInv, NEW q \in Requests, q.op = "Create", NEW rangeID \in RangeID,
           CreateWorkflowExecution(q, rangeID)
    PROVE  IInv'
<1>. DEFINE s == q.new
<1>1. s \in Snapshot /\ (q.mode \in {"BrandNew", "UpdateCurrent"} => s.state = "Running")
        /\ (q.mode = "BypassCurrent" => s.state = "Zombie")
  BY CreateShape
<1>2. /\ ExecutionOf(s) \in Execution /\ PointerTo(s) \in Pointer /\ s.run \in Run
      /\ ExecutionOf(s) # Nil /\ PointerTo(s) # Nil
      /\ TaskOf(s) \in Run \X DBVersion /\ EventsOf(s) \in Run \X EventID
  BY <1>1, WrittenTypes
<1>3. exec' = [exec EXCEPT ![s.run] = ExecutionOf(s)] /\ exec[s.run] = Nil
  BY DEF CreateWorkflowExecution
<1>4. current' = current \/ (current' = PointerTo(s) /\ s.state = "Running"
                              /\ (current = Nil \/ (current # Nil /\ current.state = "Completed")))
  BY <1>1 DEF CreateWorkflowExecution
<1>5. TypeOK'
  BY <1>2, <1>3, <1>4 DEF IInv, TypeOK, CreateWorkflowExecution, WriteTasks, AppendEvents
<1>6. PointerMatchesRun'
  BY <1>2, <1>3, <1>4 DEF IInv, TypeOK, PointerMatchesRun, PointerTo, ExecutionOf, Pointer
<1>7. RunningRunIsCurrent'
  BY <1>1, <1>2, <1>3, <1>4
  DEF IInv, TypeOK, PointerMatchesRun, RunningRunIsCurrent, PointerTo, ExecutionOf, CreateWorkflowExecution
<1>8. StateIsBackedByWrites'
  BY <1>2, <1>3
  DEF IInv, TypeOK, StateIsBackedByWrites, ExecutionOf, TaskOf, EventsOf, CreateWorkflowExecution, WriteTasks, AppendEvents
<1>. QED BY <1>5, <1>6, <1>7, <1>8 DEF IInv

\* UpdateWorkflowExecution keeps the invariant.
LEMMA UpdateStep ==
    ASSUME IInv, NEW q \in Requests, q.op = "Update", NEW rangeID \in RangeID,
           CallerBuilt(q), UpdateWorkflowExecution(q, rangeID)
    PROVE  IInv'
<1>. DEFINE b == q.base
            n == q.new
<1>1. /\ b \in Snapshot /\ n \in Snapshot \cup {Nil}
      /\ q.mode = "UpdateCurrent" /\ n # Nil => b.state = "Completed" /\ n.state = "Running"
      /\ q.mode = "BypassCurrent" => b.state \in Closed /\ (n # Nil => n.state = "Zombie")
      /\ q.mode = "IgnoreCurrent" => n = Nil
  BY UpdateShape
<1>2. /\ ExecutionOf(b) \in Execution /\ PointerTo(b) \in Pointer /\ b.run \in Run
      /\ ExecutionOf(b) # Nil /\ PointerTo(b) # Nil /\ b # Nil
      /\ TaskOf(b) \in Run \X DBVersion /\ EventsOf(b) \in Run \X EventID
  BY <1>1, WrittenTypes
<1>3. n # Nil => /\ ExecutionOf(n) \in Execution /\ PointerTo(n) \in Pointer /\ n.run \in Run
                 /\ ExecutionOf(n) # Nil /\ PointerTo(n) # Nil
                 /\ TaskOf(n) \in Run \X DBVersion /\ EventsOf(n) \in Run \X EventID
  BY <1>1, WrittenTypes
<1>4. /\ exec' = [r \in Run |-> IF n # Nil /\ r = n.run THEN ExecutionOf(n)
                                 ELSE IF r = b.run THEN ExecutionOf(b) ELSE exec[r]]
      /\ exec[b.run] # Nil
      /\ n # Nil => exec[n.run] = Nil /\ n.run # b.run
  BY DEF UpdateWorkflowExecution, ConditionHolds, NewRunIsFresh
<1>5. \/ current' = current /\ q.mode = "IgnoreCurrent" /\ b.state = exec[b.run].state
      \/ current' = current /\ q.mode = "BypassCurrent" /\ (current # Nil => current.run # b.run)
      \/ /\ q.mode = "UpdateCurrent" /\ current # Nil /\ current.run = b.run
         /\ current' = PointerTo(IF n # Nil THEN n ELSE b)
  BY <1>4 DEF UpdateWorkflowExecution, CallerBuilt, BuiltFromLoaded, NewCurrent
<1>6. /\ tasks' = tasks \cup {TaskOf(s) : s \in NonNil({b, n})}
      /\ events' = events \cup {EventsOf(s) : s \in NonNil({b, n})}
      /\ lease' = lease
  BY DEF UpdateWorkflowExecution, WriteTasks, AppendEvents
<1>7. TypeOK'
  BY <1>2, <1>3, <1>4, <1>5, <1>6 DEF IInv, TypeOK, NonNil
<1>8. PointerMatchesRun'
  BY <1>1, <1>2, <1>3, <1>4, <1>5 DEF IInv, TypeOK, PointerMatchesRun, PointerTo, ExecutionOf, Pointer
<1>9. RunningRunIsCurrent'
  BY <1>1, <1>2, <1>3, <1>4, <1>5
  DEF IInv, TypeOK, PointerMatchesRun, RunningRunIsCurrent, PointerTo, ExecutionOf, Closed
<1>10. StateIsBackedByWrites'
  BY <1>2, <1>3, <1>4, <1>6 DEF IInv, TypeOK, StateIsBackedByWrites, ExecutionOf, TaskOf, EventsOf, NonNil
<1>. QED BY <1>7, <1>8, <1>9, <1>10 DEF IInv

\* ConflictResolveWorkflowExecution keeps the invariant.
LEMMA ConflictResolveStep ==
    ASSUME IInv, NEW q \in Requests, q.op = "ConflictResolve", NEW rangeID \in RangeID,
           ConflictResolveWorkflowExecution(q, rangeID)
    PROVE  IInv'
<1>. DEFINE b == q.base
            c == q.cur
            n == q.new
<1>1. /\ b \in Snapshot /\ c \in Snapshot \cup {Nil} /\ n \in Snapshot \cup {Nil}
      /\ c # Nil => c.run # b.run /\ c.state \in Closed
      /\ q.mode = "UpdateCurrent" /\ n # Nil => b.state = "Completed" /\ n.state = "Running"
      /\ q.mode = "BypassCurrent" =>
            c = Nil /\ b.state \in Closed /\ (n # Nil => n.state = "Zombie")
  BY ConflictResolveShape
<1>2. \A s \in {b, c, n} : s # Nil =>
                 /\ ExecutionOf(s) \in Execution /\ PointerTo(s) \in Pointer /\ s.run \in Run
                 /\ ExecutionOf(s) # Nil /\ PointerTo(s) # Nil
                 /\ TaskOf(s) \in Run \X DBVersion /\ EventsOf(s) \in Run \X EventID
  BY <1>1, WrittenTypes
<1>3. b # Nil
  BY <1>1, WrittenTypes
<1>4. /\ exec' = [r \in Run |-> IF n # Nil /\ r = n.run THEN ExecutionOf(n)
                                 ELSE IF c # Nil /\ r = c.run THEN ExecutionOf(c)
                                 ELSE IF r = b.run THEN ExecutionOf(b) ELSE exec[r]]
      /\ exec[b.run] # Nil
      /\ c # Nil => exec[c.run] # Nil
      /\ n # Nil => exec[n.run] = Nil
  BY DEF ConflictResolveWorkflowExecution, ConditionHolds, NewRunIsFresh
<1>5. \/ current' = current /\ q.mode = "BypassCurrent" /\ (current # Nil => current.run # b.run)
      \/ /\ q.mode = "UpdateCurrent" /\ current # Nil
         /\ current.run = (IF c # Nil THEN c.run ELSE b.run)
         /\ current' = PointerTo(IF n # Nil THEN n ELSE b)
  BY DEF ConflictResolveWorkflowExecution, NewCurrent
<1>6. /\ tasks' = tasks \cup {TaskOf(s) : s \in NonNil({b, c, n})}
      /\ events' = events \cup {EventsOf(s) : s \in NonNil({b, c, n})}
      /\ lease' = lease
  BY DEF ConflictResolveWorkflowExecution, WriteTasks, AppendEvents
<1>7. TypeOK'
  BY <1>2, <1>3, <1>4, <1>5, <1>6 DEF IInv, TypeOK, NonNil
<1>8. PointerMatchesRun'
  BY <1>1, <1>2, <1>3, <1>4, <1>5 DEF IInv, TypeOK, PointerMatchesRun, PointerTo, ExecutionOf, Pointer
<1>9. RunningRunIsCurrent'
  BY <1>1, <1>2, <1>3, <1>4, <1>5
  DEF IInv, TypeOK, PointerMatchesRun, RunningRunIsCurrent, PointerTo, ExecutionOf, Closed
<1>10. StateIsBackedByWrites'
  BY <1>2, <1>3, <1>4, <1>6 DEF IInv, TypeOK, StateIsBackedByWrites, ExecutionOf, TaskOf, EventsOf, NonNil
<1>. QED BY <1>7, <1>8, <1>9, <1>10 DEF IInv

\* SetWorkflowExecution keeps the invariant.
LEMMA SetStep ==
    ASSUME IInv, NEW q \in Requests, q.op = "Set", NEW rangeID \in RangeID,
           CallerBuilt(q), SetWorkflowExecution(q, rangeID)
    PROVE  IInv'
<1>. DEFINE b == q.base
<1>1. /\ ExecutionOf(b) \in Execution /\ b.run \in Run /\ ExecutionOf(b) # Nil
      /\ TaskOf(b) \in Run \X DBVersion
  BY SetShape, WrittenTypes
<1>2. /\ exec' = [exec EXCEPT ![b.run] = ExecutionOf(b)]
      /\ exec[b.run] # Nil /\ b.state = exec[b.run].state /\ b.nev = exec[b.run].nev
      /\ tasks' = tasks \cup {TaskOf(b)}
      /\ UNCHANGED <<lease, current, events>>
  BY DEF SetWorkflowExecution, ConditionHolds, CallerBuilt, BuiltFromLoaded, WriteTasks
<1>3. TypeOK'
  BY <1>1, <1>2 DEF IInv, TypeOK
<1>4. PointerMatchesRun' /\ RunningRunIsCurrent'
  BY <1>1, <1>2 DEF IInv, TypeOK, PointerMatchesRun, RunningRunIsCurrent, ExecutionOf, Pointer
<1>5. StateIsBackedByWrites'
  BY <1>1, <1>2, Zenon DEF IInv, TypeOK, StateIsBackedByWrites, ExecutionOf, TaskOf
<1>. QED BY <1>3, <1>4, <1>5 DEF IInv

-----------------------------------------------------------------------------
\* The invariant holds initially, every operation of execution_store.go and
\* shard_store.go keeps it, and so it always holds.
THEOREM StoreInvariant == Spec => []IInv
<1>1. Init => IInv
  BY DEF Init, IInv, TypeOK, PointerMatchesRun, RunningRunIsCurrent, StateIsBackedByWrites
<1>2. IInv /\ [Next]_vars => IInv'
  <2>. SUFFICES ASSUME IInv, [Next]_vars PROVE IInv'
    OBVIOUS
  <2>1. ASSUME NEW r \in RangeID, GetOrCreateShard(r) \/ \E prev \in RangeID : UpdateShard(prev, r)
        PROVE  IInv'
    BY <2>1 DEF IInv, TypeOK, PointerMatchesRun, RunningRunIsCurrent, StateIsBackedByWrites,
                GetOrCreateShard, UpdateShard
  <2>2. ASSUME NEW q \in Requests, NEW r \in RangeID, CallerBuilt(q), Execute(q, r)
        PROVE  IInv'
    BY <2>2, CreateStep, UpdateStep, ConflictResolveStep, SetStep DEF Execute
  <2>3. ASSUME NEW r \in Run, IsClosed(r), DeleteCurrentWorkflowExecution(r)
        PROVE  IInv'
    BY <2>3 DEF IInv, TypeOK, PointerMatchesRun, RunningRunIsCurrent, StateIsBackedByWrites,
                DeleteCurrentWorkflowExecution, IsClosed
  <2>4. ASSUME NEW r \in Run, IsClosed(r), ~IsCurrent(r), DeleteWorkflowExecution(r)
        PROVE  IInv'
    BY <2>4 DEF IInv, TypeOK, PointerMatchesRun, RunningRunIsCurrent, StateIsBackedByWrites,
                DeleteWorkflowExecution, Pointer, IsCurrent
  <2>5. CASE UNCHANGED vars
    BY <2>5 DEF IInv, TypeOK, PointerMatchesRun, RunningRunIsCurrent, StateIsBackedByWrites, vars
  <2>. QED BY <2>1, <2>2, <2>3, <2>4, <2>5 DEF Next
<1>. QED BY <1>1, <1>2, PTL DEF Spec

\* The current-execution record and the execution record it names never
\* disagree, whatever mix of modes the callers use.
THEOREM PointerTheorem == Spec => []PointerMatchesRun
BY StoreInvariant, PTL DEF IInv

\* A workflow id never has two running runs.
THEOREM SingleRunningRun == Spec => []RunningRunIsCurrent
BY StoreInvariant, PTL DEF IInv

\* Mutable state never gets ahead of history or of the task queues.
THEOREM BackedByWrites == Spec => []StateIsBackedByWrites
BY StoreInvariant, PTL DEF IInv

\* No operation skips or repeats a version of the optimistic lock.
THEOREM VersionsTheorem == Spec => VersionsStepByOne
<1>. DEFINE StepsByOne ==
              \A r \in Run :
                exec[r] # Nil /\ exec'[r] # Nil /\ exec'[r] # exec[r] /\ exec'[r].dbv # 0
                    => exec'[r].dbv = exec[r].dbv + 1
<1>1. IInv /\ [Next]_vars => [StepsByOne]_vars
  <2>. SUFFICES ASSUME IInv, Next PROVE StepsByOne
    BY DEF StepsByOne, vars
  <2>0. exec \in [Run -> Execution \cup {Nil}]
    BY DEF IInv, TypeOK
  <2>1. ASSUME NEW q \in Requests, q.op = "Create", NEW i \in RangeID, CreateWorkflowExecution(q, i)
        PROVE  StepsByOne
    BY <2>0, <2>1 DEF CreateWorkflowExecution
  <2>2. ASSUME NEW q \in Requests, q.op = "Update", NEW i \in RangeID, UpdateWorkflowExecution(q, i)
        PROVE  StepsByOne
    BY <2>0, <2>2 DEF UpdateWorkflowExecution, ConditionHolds, NewRunIsFresh, ExecutionOf
  <2>3. ASSUME NEW q \in Requests, q.op = "ConflictResolve", NEW i \in RangeID,
               ConflictResolveWorkflowExecution(q, i)
        PROVE  StepsByOne
    BY <2>0, <2>3 DEF ConflictResolveWorkflowExecution, ConditionHolds, NewRunIsFresh, ExecutionOf
  <2>4. ASSUME NEW q \in Requests, q.op = "Set", NEW i \in RangeID, SetWorkflowExecution(q, i)
        PROVE  StepsByOne
    BY <2>0, <2>4 DEF SetWorkflowExecution, ConditionHolds, ExecutionOf
  <2>5. ASSUME NEW r \in Run, DeleteCurrentWorkflowExecution(r) \/ DeleteWorkflowExecution(r)
        PROVE  StepsByOne
    BY <2>0, <2>5 DEF DeleteCurrentWorkflowExecution, DeleteWorkflowExecution
  <2>6. ASSUME NEW r \in RangeID, GetOrCreateShard(r) \/ \E prev \in RangeID : UpdateShard(prev, r)
        PROVE  StepsByOne
    BY <2>6 DEF GetOrCreateShard, UpdateShard
  <2>. QED BY <2>1, <2>2, <2>3, <2>4, <2>5, <2>6 DEF Next, Execute
<1>. QED BY <1>1, StoreInvariant, PTL DEF Spec, VersionsStepByOne
=============================================================================
