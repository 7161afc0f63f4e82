--------------------------- MODULE ExecutionRequests ---------------------------
(***************************************************************************)
(* What a caller may ask of the execution store, and the records the       *)
(* store keeps for one workflow id of one shard.                           *)
(*                                                                         *)
(* A snapshot and a mutation are the same thing here: the run they         *)
(* describe, its workflow state, the optimistic-lock fields they are       *)
(* conditioned on (dbv = DBRecordVersion, cond = Condition), the next      *)
(* event id they set and the last write version.  Writing one of them      *)
(* also writes one history task, named after the record version, and one   *)
(* batch of history events, named after the next event id.                 *)
(***************************************************************************)
EXTENDS Absent, Naturals

CONSTANTS
    Run,            \* run ids of the workflow
    LastWriteVer,   \* last write versions (fail-over versions)
    DBVersion,      \* values of DBRecordVersion a request carries
    EventID,        \* values of NextEventID and of Condition
    RangeID         \* shard range ids

WorkflowState == {"Running", "Completed", "Zombie"}

\* The execution record, as far as conditions and properties tell it apart.
Execution == [state : WorkflowState, dbv : DBVersion, nev : EventID]

\* The current-execution record.
Pointer == [run : Run, state : WorkflowState, lwv : LastWriteVer]

Snapshot == [run : Run, state : WorkflowState, dbv : DBVersion,
             cond : EventID, nev : EventID, lwv : LastWriteVer]

ExecutionOf(s) == [state |-> s.state, dbv |-> s.dbv, nev |-> s.nev]

\* Mutant: the pointer always says that the run is running.
PointerToRunning(s) == [run |-> s.run, state |-> "Running", lwv |-> s.lwv]

\* currentBins: the pointer names the run and repeats its execution state.
PointerTo(s) == [run |-> s.run, state |-> s.state, lwv |-> s.lwv]

\* Mutant: the pointer stays with the run that was continued.
BasePointer(q) == PointerTo(q.base)

\* Where an update or a conflict resolution moves the pointer: to the new run
\* if there is one.
NewCurrent(q) == PointerTo(IF q.new # Nil THEN q.new ELSE q.base)

TaskOf(s) == <<s.run, s.dbv>>

\* Mutant: events are stored under the event id the request was built from.
EventsOfCondition(s) == <<s.run, s.cond>>

EventsOf(s) == <<s.run, s.nev>>

\* assertExecutionCondition: the record exists and its version is the one
\* the request was built from; version 0 means "compare next_event_id".
ConditionHolds(s, e) ==
    /\ e # Nil
    /\ IF s.dbv = 0 THEN e.nev = s.cond ELSE e.dbv + 1 = s.dbv

-----------------------------------------------------------------------------
(***************************************************************************)
(* The requests.  The states a mode admits are the ones Temporal's         *)
(* execution manager lets through to the store: a current run is created   *)
(* running, a bypassing write concerns a zombie or a closed run, and       *)
(* continue-as-new closes the run it continues.                            *)
(***************************************************************************)
Closed == {"Completed", "Zombie"}

SnapshotIn(states) == {s \in Snapshot : s.state \in states}

CreateRequest ==
    [op : {"Create"}, mode : {"BrandNew", "UpdateCurrent"}, new : SnapshotIn({"Running"}),
     prevRun : Run, prevLwv : LastWriteVer]
    \cup
    [op : {"Create"}, mode : {"BypassCurrent"}, new : SnapshotIn({"Zombie"}),
     prevRun : Run, prevLwv : LastWriteVer]

UpdateRequest ==
    [op : {"Update"}, mode : {"UpdateCurrent"}, base : SnapshotIn({"Running", "Completed"}), new : {Nil}]
    \cup
    [op : {"Update"}, mode : {"UpdateCurrent"}, base : SnapshotIn({"Completed"}), new : SnapshotIn({"Running"})]
    \cup
    [op : {"Update"}, mode : {"BypassCurrent"}, base : SnapshotIn(Closed), new : SnapshotIn({"Zombie"}) \cup {Nil}]
    \cup
    [op : {"Update"}, mode : {"IgnoreCurrent"}, base : Snapshot, new : {Nil}]

\* base is the reset workflow, cur the workflow that was current.
ConflictResolveRequest ==
    [op : {"ConflictResolve"}, mode : {"UpdateCurrent"}, base : SnapshotIn({"Running", "Completed"}),
     cur : SnapshotIn(Closed) \cup {Nil}, new : {Nil}]
    \cup
    [op : {"ConflictResolve"}, mode : {"UpdateCurrent"}, base : SnapshotIn({"Completed"}),
     cur : SnapshotIn(Closed) \cup {Nil}, new : SnapshotIn({"Running"})]
    \cup
    [op : {"ConflictResolve"}, mode : {"BypassCurrent"}, base : SnapshotIn(Closed),
     cur : {Nil}, new : SnapshotIn({"Zombie"}) \cup {Nil}]

\* The workflows of one request are different runs.
DistinctRuns(q) == q.cur # Nil => q.cur.run # q.base.run

SetRequest == [op : {"Set"}, base : Snapshot]

Request ==
    CreateRequest \cup UpdateRequest \cup SetRequest
        \cup {q \in ConflictResolveRequest : DistinctRuns(q)}

\* An assumption on callers, not a check of the store: a write that leaves the
\* pointer alone whatever the run's state writes back the state it loaded with
\* the version it is conditioned on, and SetWorkflowExecution the next event id.
BuiltFromLoaded(q, e) ==
    /\ q.op = "Set" => q.base.state = e.state /\ q.base.nev = e.nev
    /\ q.op = "Update" /\ q.mode = "IgnoreCurrent" => q.base.state = e.state

ASSUME ConstantsAssumption ==
    /\ DBVersion \subseteq Nat
    /\ EventID \subseteq Nat
    /\ RangeID \subseteq Nat
    /\ Nil \notin Run \cup RangeID
    /\ Nil \notin Execution \cup Pointer \cup Snapshot \cup Request
=============================================================================
