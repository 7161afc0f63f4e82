----------------------------- MODULE ExecutionTxn -----------------------------
(***************************************************************************)
(* The execution store as it runs: history hosts hold the shard lease, the *)
(* request threads of those hosts send the commands of each operation one  *)
(* at a time inside a multi-record transaction, and lease renewals,        *)
(* deletes and the commands of other threads happen in between.            *)
(***************************************************************************)
EXTENDS ExecutionRequests, Sequences

CONSTANTS
    Requests,   \* the requests the callers issue
    Host,       \* history hosts competing for the shard
    Proc        \* request threads

ASSUME TxnRequestsAssumption == Requests \subseteq Request

\* Absence is not a set of tasks, nor one of event batches.
ASSUME AbsenceAssumption ==
    \A S \in (SUBSET (Run \X DBVersion)) \cup (SUBSET (Run \X EventID)) : S # Nil

\* keys.go: a record is named by its set and its id within the shard.
Rec(set, id) == [set |-> set, id |-> id]

Shard     == Rec("shard", Nil)
Current   == Rec("current", Nil)
Exec(r)   == Rec("exec", r)
TaskMap   == Rec("htask", Nil)
Branch(r) == Rec("histbranch", r)

Key == {Shard, Current, TaskMap}
         \cup {Exec(r) : r \in Run} \cup {Branch(r) : r \in Run}

VARIABLES
    rec, txn,   \* the namespace (AerospikeMRT)
    held,       \* held[h]: the range id host h believes it owns, or Nil
    req,        \* req[p]: the request thread p executes, or Nil
    range,      \* range[p]: the range id that request carries
    pc          \* pc[p]: the next command of the request

vars == <<rec, txn, held, req, range, pc>>

MRT == INSTANCE AerospikeMRT WITH NoRec <- Nil

-----------------------------------------------------------------------------
(***************************************************************************)
(* The commands of an operation, in the order in which it sends them.      *)
(* A check reads a record and goes on if its value is one of arg; put      *)
(* replaces a record; add inserts arg into a map-valued record.            *)
(***************************************************************************)
Check(key, values) == [cmd |-> "check", key |-> key, arg |-> values]
Write(key, value)  == [cmd |-> "put",   key |-> key, arg |-> value]
Add(key, entries)  == [cmd |-> "add",   key |-> key, arg |-> entries]

\* Mutant: the comparison of the range ids is inverted.
assertShardOwnershipInverted(rangeID) == Check(Shard, RangeID \ {rangeID})

assertShardOwnership(rangeID) == Check(Shard, {rangeID})

PointsTo(r) == {c \in Pointer : c.run = r}

\* Mutant: any pointer will do.
assertNothing(r) == Check(Current, Pointer \cup {Nil})

assertNotCurrent(r) == Check(Current, (Pointer \ PointsTo(r)) \cup {Nil})

assertExecutionCondition(s) ==
    Check(Exec(s.run), {e \in Execution : ConditionHolds(s, e)})

assertNotExists(s) == Check(Exec(s.run), {Nil})

putCurrent(c) == Write(Current, c)

\* writeSnapshot and applyMutation differ in what they do to the collections of
\* the record; what the conditions read, both of them set.
putExecution(s) == Write(Exec(s.run), ExecutionOf(s))

\* TaskMap and Branch(r) each stand for the several records (bucket and index,
\* nodes and branch) that the same transaction writes one after the other;
\* HistoryTasks has those of the tasks one by one.
writeTasks(s)   == Add(TaskMap, {TaskOf(s)})
appendEvents(s) == Add(Branch(s.run), {EventsOf(s)})

\* A new run: its record must not exist yet.
createRun(s) ==
    IF s = Nil THEN <<>>
    ELSE <<assertNotExists(s), putExecution(s), writeTasks(s)>>

\* Mutant: an existing run is rewritten whatever its version.
rewriteUnconditionally(s) ==
    IF s = Nil THEN <<>> ELSE <<putExecution(s), writeTasks(s)>>

\* An existing run, conditioned on its version.
rewriteRun(s) ==
    IF s = Nil THEN <<>>
    ELSE <<assertExecutionCondition(s), putExecution(s), writeTasks(s)>>

eventsIf(s) == IF s = Nil THEN <<>> ELSE <<appendEvents(s)>>

CreateWorkflowExecution(q) ==
    (CASE q.mode = "BypassCurrent" -> <<>>
       [] q.mode = "UpdateCurrent" ->
            <<Check(Current, {c \in PointsTo(q.prevRun) :
                                 c.lwv = q.prevLwv /\ c.state = "Completed"}),
              putCurrent(PointerTo(q.new))>>
       [] q.mode = "BrandNew" -> <<Check(Current, {Nil}), putCurrent(PointerTo(q.new))>>)
    \o createRun(q.new)
    \o eventsIf(q.new)

UpdateWorkflowExecution(q) ==
    (CASE q.mode = "IgnoreCurrent" -> <<>>
       [] q.mode = "BypassCurrent" -> <<assertNotCurrent(q.base.run)>>
       [] q.mode = "UpdateCurrent" ->
            <<Check(Current, PointsTo(q.base.run)),
              putCurrent(NewCurrent(q))>>)
    \o rewriteRun(q.base)
    \o createRun(q.new)
    \o eventsIf(q.base) \o eventsIf(q.new)

ConflictResolveWorkflowExecution(q) ==
    (CASE q.mode = "BypassCurrent" -> <<assertNotCurrent(q.base.run)>>
       [] q.mode = "UpdateCurrent" ->
            <<Check(Current, PointsTo(IF q.cur # Nil THEN q.cur.run ELSE q.base.run)),
              putCurrent(NewCurrent(q))>>)
    \o rewriteRun(q.base)
    \o rewriteRun(q.cur)
    \o createRun(q.new)
    \o eventsIf(q.base) \o eventsIf(q.new) \o eventsIf(q.cur)

SetWorkflowExecution(q) == rewriteRun(q.base)

Operation(q) ==
    CASE q.op = "Create"          -> CreateWorkflowExecution(q)
      [] q.op = "Update"          -> UpdateWorkflowExecution(q)
      [] q.op = "ConflictResolve" -> ConflictResolveWorkflowExecution(q)
      [] q.op = "Set"             -> SetWorkflowExecution(q)

\* Each of them reads the lease first, inside its transaction.
Commands(q, rangeID) == <<assertShardOwnership(rangeID)>> \o Operation(q)

-----------------------------------------------------------------------------
Init ==
    /\ MRT!MRTInit
    /\ held = [h \in Host |-> Nil]
    /\ req = [p \in Proc |-> Nil]
    /\ range = [p \in Proc |-> Nil]
    /\ pc = [p \in Proc |-> 0]

\* GetOrCreateShard when the record is missing: the first range id, which
\* nobody holds.  (ShardLease has the steps, time-outs and late commands.)
CreateShard ==
    /\ rec[Shard] = Nil
    /\ \E r \in RangeID : (\A i \in RangeID : r <= i) /\ MRT!Put(Shard, r)
    /\ UNCHANGED <<held, req, range, pc>>

\* UpdateShard, conditioned on the range id the host has read and raising it.
AcquireShard(h) ==
    /\ rec[Shard] # Nil
    /\ rec[Shard] + 1 \in RangeID
    /\ MRT!Put(Shard, rec[Shard] + 1)
    /\ held' = [held EXCEPT ![h] = rec[Shard] + 1]
    /\ UNCHANGED <<req, range, pc>>

\* UpdateShard with an unchanged range id: same value, new record version.
RenewShard(h) ==
    /\ held[h] # Nil
    /\ rec[Shard] = held[h]
    /\ MRT!Put(Shard, held[h])
    /\ UNCHANGED <<held, req, range, pc>>

\* A thread of host h starts a request; begin() opens the transaction.
Begin(p, h) ==
    /\ req[p] = Nil
    /\ held[h] # Nil
    /\ req' \in {[req EXCEPT ![p] = q] : q \in Requests}
    /\ range' = [range EXCEPT ![p] = held[h]]
    /\ pc' = [pc EXCEPT ![p] = 1]
    /\ UNCHANGED <<rec, txn, held>>

Finish(p) ==
    /\ req' = [req EXCEPT ![p] = Nil]
    /\ range' = [range EXCEPT ![p] = Nil]
    /\ pc' = [pc EXCEPT ![p] = 0]
    /\ UNCHANGED held

Advance(p) ==
    /\ pc' = [pc EXCEPT ![p] = @ + 1]
    /\ UNCHANGED <<held, req, range>>

Program(p) == Commands(req[p], range[p])

\* Mutant: the checks read outside the transaction.
CheckOutsideTxn(p) ==
    /\ req[p] # Nil
    /\ pc[p] <= Len(Program(p))
    /\ LET c == Program(p)[pc[p]] IN c.cmd = "check" /\ MRT!View(p, c.key) \in c.arg
    /\ UNCHANGED <<rec, txn>>
    /\ Advance(p)

CheckPasses(p) ==
    /\ req[p] # Nil
    /\ pc[p] <= Len(Program(p))
    /\ LET c == Program(p)[pc[p]] IN
        /\ c.cmd = "check"
        /\ MRT!View(p, c.key) \in c.arg
        /\ MRT!TxnRead(p, c.key)
    /\ Advance(p)

\* What the caller is told when a check fails.
CheckError(p) ==
    LET k == Program(p)[pc[p]].key IN
    IF k = Shard THEN "ShardOwnershipLost"
    ELSE IF k = Current THEN "CurrentWorkflowConditionFailed"
    ELSE IF MRT!View(p, k) = Nil THEN "ConditionFailed"
    ELSE "WorkflowConditionFailed"

\* finish() aborts the transaction, whatever it has written.
CheckFails(p) ==
    /\ req[p] # Nil
    /\ pc[p] <= Len(Program(p))
    /\ LET c == Program(p)[pc[p]] IN
        /\ c.cmd = "check"
        /\ MRT!View(p, c.key) \notin c.arg
    /\ MRT!TxnAbort(p)
    /\ Finish(p)

WriteRecord(p) ==
    /\ req[p] # Nil
    /\ pc[p] <= Len(Program(p))
    /\ LET c == Program(p)[pc[p]]
           old == MRT!View(p, c.key) IN
        \/ c.cmd = "put" /\ MRT!TxnWrite(p, c.key, c.arg)
        \/ c.cmd = "add" /\ MRT!TxnWrite(p, c.key, (IF old = Nil THEN {} ELSE old) \cup c.arg)
    /\ Advance(p)

\* A command is answered MRT_BLOCKED, MRT_VERSION_MISMATCH or an error of the
\* cluster, or the context expires; also what is left of a crashed host's
\* transaction once the server has expired it.
CommandFails(p) ==
    /\ req[p] # Nil
    /\ MRT!TxnAbort(p)
    /\ Finish(p)

\* The model keeps no answers and any request may be issued again, so a commit
\* whose answer is lost, and the retry of its request, are behaviours too.
Commit(p) ==
    /\ req[p] # Nil
    /\ pc[p] > Len(Program(p))
    /\ MRT!TxnCommit(p)
    /\ Finish(p)

\* What it is told when the commit fails.
classifyCommitError(p) ==
    IF MRT!TxnVerified(p) THEN "Unavailable" ELSE "ConditionFailed"

CommitConflict(p) ==
    /\ req[p] # Nil
    /\ pc[p] > Len(Program(p))
    /\ ~MRT!TxnVerified(p)
    /\ MRT!TxnAbort(p)
    /\ Finish(p)

\* One conditional durable delete, outside any transaction and not fenced.
\* Deleting what is not there, or not ours, succeeds and changes nothing.
DeleteCurrentWorkflowExecution(r) ==
    /\ rec[Current] \in PointsTo(r)
    /\ MRT!Put(Current, Nil)
    /\ UNCHANGED <<held, req, range, pc>>

DeleteWorkflowExecution(r) ==
    /\ rec[Exec(r)] # Nil
    /\ MRT!Put(Exec(r), Nil)
    /\ UNCHANGED <<held, req, range, pc>>

\* The assumptions on callers, as in ExecutionStore.
CallerBuilt(p) ==
    LET k == Program(p)[pc[p]].key IN
    k.set = "exec" => BuiltFromLoaded(req[p], MRT!View(p, k))

IsClosed(r) == rec[Exec(r)] # Nil => rec[Exec(r)].state # "Running"

Next ==
    \/ CreateShard
    \/ \E h \in Host : AcquireShard(h) \/ RenewShard(h)
    \/ \E p \in Proc, h \in Host : Begin(p, h)
    \/ \E p \in Proc :
          \/ CheckPasses(p) /\ CallerBuilt(p)
          \/ CheckFails(p) \/ WriteRecord(p) \/ CommandFails(p)
          \/ Commit(p) \/ CommitConflict(p)
    \/ \E r \in Run : IsClosed(r) /\ DeleteCurrentWorkflowExecution(r)
    \/ \E r \in Run : IsClosed(r) /\ rec[Current] \notin PointsTo(r) /\ DeleteWorkflowExecution(r)

Spec == Init /\ [][Next]_vars

-----------------------------------------------------------------------------
RecordType(k) ==
    CASE k.set = "shard"      -> RangeID
      [] k.set = "current"    -> Pointer
      [] k.set = "exec"       -> Execution
      [] k.set = "htask"      -> SUBSET (Run \X DBVersion)
      [] k.set = "histbranch" -> SUBSET (Run \X EventID)

TypeOK ==
    /\ DOMAIN rec = Key
    /\ \A k \in Key : rec[k] \in RecordType(k) \cup {Nil}
    /\ DOMAIN txn = Proc
    /\ \A p \in Proc :
          /\ DOMAIN txn[p] = {"reads", "stale", "prov"}
          /\ txn[p].stale \subseteq txn[p].reads
          /\ txn[p].reads \subseteq Key
          /\ MRT!Writes(p) \subseteq Key
          /\ \A k \in MRT!Writes(p) : txn[p].prov[k] \in RecordType(k)
    /\ held \in [Host -> RangeID \cup {Nil}]
    /\ req \in [Proc -> Requests \cup {Nil}]
    /\ range \in [Proc -> RangeID \cup {Nil}]
    /\ pc \in [Proc -> Nat]
    /\ \A p \in Proc : req[p] # Nil => range[p] # Nil /\ pc[p] > 0

Entries(key) == IF rec[key] = Nil THEN {} ELSE rec[key]

\* The records of the namespace, as the abstract store sees them.
Store == INSTANCE ExecutionStore WITH
    lease   <- rec[Shard],
    current <- rec[Current],
    exec    <- [r \in Run |-> rec[Exec(r)]],
    tasks   <- Entries(TaskMap),
    events  <- UNION {Entries(Branch(r)) : r \in Run}

\* Every interleaving of transactions, lease renewals, deletes, failures and
\* repeated requests is one in which each operation takes effect at one
\* instant, with all of its conditions true at that instant.
ImplementsStore == Store!Spec

\* Once a host has taken the shard over, no request that carries an older range
\* id changes a record any more, however early its transaction read the lease.
\* (A record that a transaction has locked is changed by that transaction only.)
NoWriteAfterTakeover ==
    [][\A p \in Proc : \A k \in MRT!Writes(p) :
          rec'[k] # rec[k] => \A h \in Host : held[h] # Nil => held[h] <= range[p]]_vars

\* A thread is told that it lost the shard only if the lease really moved on:
\* rewriting the shard record with an unchanged range id does not look like it.
OwnershipLossIsReal ==
    [][\A p \in Proc :
          CheckFails(p) /\ CheckError(p) = "ShardOwnershipLost" => rec[Shard] > range[p]]_vars

\* A transaction that fails at its commit because the lease has moved on is
\* reported as the loss of the shard.
LeaseLossIsReported ==
    [][\A p \in Proc :
          CommitConflict(p) /\ rec[Shard] # range[p] =>
              classifyCommitError(p) = "ShardOwnershipLost"]_vars

\* No record has two provisional versions, and nobody ever locks the shard
\* record: lease renewals never wait for a workflow's transaction.
LocksAreExclusive ==
    /\ \A p, q \in Proc : p # q => MRT!Writes(p) \cap MRT!Writes(q) = {}
    /\ \A p \in Proc : Shard \notin MRT!Writes(p)

\* A transaction past its first command has read the lease, and unless it is
\* bound to fail its verification the lease still is the one of its request;
\* no host holds a range id beyond the lease.
FenceHolds ==
    /\ \A p \in Proc : req[p] # Nil /\ pc[p] > 1 =>
          /\ Shard \in txn[p].reads
          /\ Shard \notin txn[p].stale => rec[Shard] = range[p]
    /\ \A h \in Host : held[h] # Nil => rec[Shard] # Nil /\ held[h] <= rec[Shard]
=============================================================================
