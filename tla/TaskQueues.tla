----------------------------- MODULE TaskQueues -----------------------------
(***************************************************************************)
(* The matching task store of task_queue_store.go, for one task queue.     *)
(* Hosts take the queue's lease by raising its range id, add tasks in a    *)
(* transaction fenced by it, page through the tasks and complete prefixes  *)
(* of them.  Tasks are in bucket records that an index record lists.  The  *)
(* classic store orders them by task id; the fair store by pass and task   *)
(* id, in buckets chosen by the task id alone.                             *)
(***************************************************************************)
EXTENDS BucketPages, FiniteSets

CONSTANTS
    Owner,              \* hosts that run the matching service
    TaskBucketSize,     \* 2^taskBucketShift task ids
    RangeSize,          \* task ids that come with a range id
    MaxLease,           \* bound: no range id above it is taken
    Pass,               \* passes of the fair store
    ScanFrom, ScanTo,   \* levels and task ids that readers ask for; 0 is no upper id
    TaskLevel,          \* levels that completions ask for
    TaskPage,           \* PageSize of GetTasks
    CompleteLimit       \* limits of CompleteTasksLessThan; 0 is none

ASSUME TaskQueueAssumption ==
    /\ TaskBucketSize \in Nat \ {0}
    /\ RangeSize \in Nat \ {0}
    /\ MaxLease \in Nat
    /\ Pass \subseteq Nat
    /\ ScanFrom \cup TaskLevel \subseteq [pass : Nat, id : Nat]
    /\ ScanTo \subseteq Nat
    /\ TaskPage \in Nat \ {0}
    /\ CompleteLimit \subseteq Nat

VARIABLES
    fair,       \* the flavour of the store
    tqRange,    \* the range id of the task queue record, or Nil
    tqSeen,     \* tqSeen[h]: the range id h read on the way to the lease; 0 is "not found"
    lease,      \* lease[h]: the range id h holds, as far as it knows, or Nil
    tqTxn,      \* tqTxn[h]: the tasks of h's open CreateTasks, or Nil
    task,       \* task[b]: the tasks in bucket record b
    taskIndex,  \* the buckets that the index record lists
    now,        \* 1 once the expiry time of the tasks that expire has come
    taskScan,   \* the last sequence of GetTasks pages
    taskSweep,  \* the last CompleteTasksLessThan
    issued,     \* the task ids that hosts have used
    lessee,     \* history: the host that took the lease last, or Nil
    recreated,  \* history: the queue record was deleted, so range ids start over
    created,    \* history: tasks whose transaction committed
    completed   \* history: the levels of all completions

tqrec  == <<tqRange, tqSeen, lease, lessee, recreated>>
tqvars == <<fair, tqrec, tqTxn, task, taskIndex, now, taskScan, taskSweep,
            issued, created, completed>>

taskBucket(id) == id \div TaskBucketSize
TaskBuckets    == 0..taskBucket(MaxLease * RangeSize)

\* The order of the encoded map keys: a task id, or pass||taskID big-endian.
\* encode is injective, and bytesCompare and the server order by it.
LevelLess(a, b) ==
    IF fair THEN a.pass < b.pass \/ (a.pass = b.pass /\ a.id < b.id)
    ELSE a.id < b.id

Stored      == UNION {task[b] : b \in TaskBuckets}
Expired(t, time) == t.exp > 0 /\ t.exp <= time

NoTaskScan  == [min |-> [pass |-> 0, id |-> 0], max |-> 0, at |-> "done", time |-> 0,
                token |-> Nil, left |-> {}, page |-> <<>>, out |-> <<>>, owed |-> {}]
NoTaskSweep == [level |-> [pass |-> 0, id |-> 0], limit |-> 0, deleted |-> 0,
                left |-> {}, at |-> "done", owed |-> {}]

TaskQueueInit ==
    /\ fair \in BOOLEAN
    /\ tqRange = Nil
    /\ tqSeen = [h \in Owner |-> Nil]
    /\ lease = [h \in Owner |-> Nil]
    /\ tqTxn = [h \in Owner |-> Nil]
    /\ task = [b \in TaskBuckets |-> {}]
    /\ taskIndex = {}
    /\ now = 0
    /\ taskScan = NoTaskScan
    /\ taskSweep = NoTaskSweep
    /\ issued = {}
    /\ lessee = Nil
    /\ recreated = FALSE
    /\ created = {}
    /\ completed = {}

-----------------------------------------------------------------------------
(***************************************************************************)
(* The task queue record.  A host that wants the queue reads the record    *)
(* and then creates it or raises its range id.  A write that succeeds may  *)
(* still be reported as an error: the host is then not told.               *)
(***************************************************************************)
\* A write of the record fails the verification of every open transaction that
\* has read it.
OutdateReaders ==
    tqTxn' = [h \in Owner |-> IF tqTxn[h] = Nil THEN Nil ELSE [tqTxn[h] EXCEPT !.stale = TRUE]]

GetTaskQueue(h) ==
    /\ tqSeen[h] = Nil
    /\ tqSeen' = [tqSeen EXCEPT ![h] = IF tqRange = Nil THEN 0 ELSE tqRange]
    /\ UNCHANGED <<fair, tqRange, lease, lessee, recreated, tqTxn, task, taskIndex, now,
                   taskScan, taskSweep, issued, created, completed>>

TakeLease(h, range, told) ==
    /\ tqRange' = range
    /\ lease' = [lease EXCEPT ![h] = IF told THEN range ELSE @]
    /\ tqSeen' = [tqSeen EXCEPT ![h] = Nil]
    /\ lessee' = IF told THEN h ELSE Nil
    /\ OutdateReaders

CreateTaskQueue(h, told) ==
    /\ tqSeen[h] = 0
    /\ tqRange = Nil
    /\ TakeLease(h, 1, told)
    /\ UNCHANGED <<fair, recreated, task, taskIndex, now, taskScan, taskSweep,
                   issued, created, completed>>

UpdateTaskQueue(h, told) ==
    /\ tqSeen[h] \notin {Nil, 0}
    /\ tqRange = tqSeen[h]
    /\ TakeLease(h, tqRange + 1, told)
    /\ UNCHANGED <<fair, recreated, task, taskIndex, now, taskScan, taskSweep,
                   issued, created, completed>>

\* The owner saves the queue's state under its range id.
SaveTaskQueue(h) ==
    /\ lease[h] # Nil
    /\ tqRange = lease[h]
    /\ OutdateReaders
    /\ UNCHANGED <<fair, tqrec, task, taskIndex, now, taskScan, taskSweep,
                   issued, created, completed>>

\* Conditional on the range id.
DeleteTaskQueue(h) ==
    /\ lease[h] # Nil
    /\ tqRange = lease[h]
    /\ tqRange' = Nil
    /\ lease' = [lease EXCEPT ![h] = Nil]
    /\ recreated' = TRUE
    /\ OutdateReaders
    /\ UNCHANGED <<fair, tqSeen, lessee, task, taskIndex, now, taskScan, taskSweep,
                   issued, created, completed>>

\* ConditionFailed, or another error: the host starts over.
LeaseFails(h) ==
    /\ tqSeen[h] # Nil
    /\ tqSeen' = [tqSeen EXCEPT ![h] = Nil]
    /\ UNCHANGED <<fair, tqRange, lease, lessee, recreated, tqTxn, task, taskIndex, now,
                   taskScan, taskSweep, issued, created, completed>>

-----------------------------------------------------------------------------
(***************************************************************************)
(* CreateTasks: the fence is read, the buckets and the index are written,  *)
(* and the commit verifies the fence.                                      *)
(***************************************************************************)
\* Caller: a host takes the ids of its range id's block in order.
Block(range)   == ((range - 1) * RangeSize + 1)..(range * RangeSize)
FreshIds(h, n) ==
    LET free == Block(lease[h]) \ issued
    IN  {i \in free : Cardinality({j \in free : j <= i}) <= n}

\* A batch of tasks; the classic store has no passes.
Batch(I, pass, exp) ==
    {[pass |-> IF fair THEN pass ELSE 0, id |-> i, exp |-> exp] : i \in I}

\* Mutant: the range id is not compared.
CreateTasksUnfenced(h, n, pass, exp, info) ==
    /\ lease[h] # Nil
    /\ tqTxn[h] = Nil
    /\ FreshIds(h, n) # {}
    /\ tqRange # Nil
    /\ tqTxn' = [tqTxn EXCEPT ![h] = [tasks |-> Batch(FreshIds(h, n), pass, exp),
                                        info |-> info, stale |-> FALSE]]
    /\ issued' = issued \cup FreshIds(h, n)
    /\ UNCHANGED <<fair, tqrec, task, taskIndex, now, taskScan, taskSweep, created, completed>>

CreateTasks(h, n, pass, exp, info) ==
    /\ lease[h] # Nil
    /\ tqTxn[h] = Nil
    /\ FreshIds(h, n) # {}
    /\ tqRange = lease[h]
    /\ tqTxn' = [tqTxn EXCEPT ![h] = [tasks |-> Batch(FreshIds(h, n), pass, exp),
                                        info |-> info, stale |-> FALSE]]
    /\ issued' = issued \cup FreshIds(h, n)
    /\ UNCHANGED <<fair, tqrec, task, taskIndex, now, taskScan, taskSweep, created, completed>>

\* ConditionFailed: the lease is lost, and the host gives the queue up.
CreateTasksRefused(h) ==
    /\ lease[h] # Nil
    /\ tqTxn[h] = Nil
    /\ tqRange # lease[h]
    /\ lease' = [lease EXCEPT ![h] = Nil]
    /\ UNCHANGED <<fair, tqRange, tqSeen, lessee, recreated, tqTxn, task, taskIndex, now,
                   taskScan, taskSweep, issued, created, completed>>

WriteTasks(h) ==
    LET S == tqTxn[h].tasks
    IN  /\ task' = [b \in TaskBuckets |-> task[b] \cup {t \in S : taskBucket(t.id) = b}]
        /\ created' = created \cup S

\* Mutant: the index record is not written for the bucket of the first task.
CreateTasksHalfListed(h) ==
    /\ tqTxn[h] # Nil
    /\ ~tqTxn[h].stale
    /\ WriteTasks(h)
    /\ taskIndex' = taskIndex \cup
         {taskBucket(t.id) : t \in {s \in tqTxn[h].tasks : \E u \in tqTxn[h].tasks : u.id < s.id}}
    /\ tqTxn' = [tqTxn EXCEPT ![h] = Nil]
    /\ UNCHANGED <<fair, tqrec, now, taskScan, taskSweep, issued, completed>>

\* With TaskQueueInfo the queue record is written again, under the same range id.
CreateTasksCommits(h) ==
    /\ tqTxn[h] # Nil
    /\ ~tqTxn[h].stale
    /\ WriteTasks(h)
    /\ taskIndex' = taskIndex \cup {taskBucket(t.id) : t \in tqTxn[h].tasks}
    /\ tqTxn' = [g \in Owner |->
                   CASE g = h -> Nil
                     [] g # h /\ tqTxn[g] # Nil /\ tqTxn[h].info -> [tqTxn[g] EXCEPT !.stale = TRUE]
                     [] OTHER -> tqTxn[g]]
    /\ UNCHANGED <<fair, tqrec, now, taskScan, taskSweep, issued, completed>>

CreateTasksFails(h) ==
    /\ tqTxn[h] # Nil
    /\ tqTxn' = [tqTxn EXCEPT ![h] = Nil]
    /\ UNCHANGED <<fair, tqrec, task, taskIndex, now, taskScan, taskSweep,
                   issued, created, completed>>

-----------------------------------------------------------------------------
(***************************************************************************)
(* GetTasks.  A reader asks for the tasks from min on, page after page; in *)
(* the classic store below max.                                            *)
(***************************************************************************)
Unbounded(max) == fair \/ max <= 0
LowestTaskBucket(B) == CHOOSE b \in B : \A c \in B : b <= c

InScan(t, min, max) == ~LevelLess(t, min) /\ (Unbounded(max) \/ t.id < max)

StartScan(min, max) ==
    /\ taskScan.at = "done"
    /\ taskScan' = [NoTaskScan EXCEPT !.min = min, !.max = max, !.at = "index",
                     !.owed = {t \in Stored : InScan(t, min, max) /\ ~Expired(t, now)}]
    /\ UNCHANGED <<fair, tqrec, tqTxn, task, taskIndex, now, taskSweep, issued, created, completed>>

firstBucket(min, token) ==
    IF token # Nil /\ taskBucket(token.id) > taskBucket(min.id)
    THEN taskBucket(token.id) ELSE taskBucket(min.id)

\* An exclusive bound at the start of a bucket needs nothing of that bucket.
lastBucket(max) ==
    IF max % TaskBucketSize = 0 THEN taskBucket(max) - 1 ELSE taskBucket(max)

populatedTaskBuckets(first, last, unbounded) ==
    {b \in taskIndex : b >= first /\ (unbounded \/ b <= last)}

\* A page starts with the index record and the time.
GetTasks ==
    /\ taskScan.at = "index"
    /\ taskScan' = [taskScan EXCEPT
         !.at = "bucket", !.page = <<>>, !.time = now,
         !.left = populatedTaskBuckets(firstBucket(taskScan.min, taskScan.token),
                                       lastBucket(taskScan.max), Unbounded(taskScan.max))]
    /\ UNCHANGED <<fair, tqrec, tqTxn, task, taskIndex, now, taskSweep, issued, created, completed>>

\* Mutant: the token is compared in whatever bucket the entry is.
TasksFoundPastToken(b) ==
    InOrder({t \in task[b] :
               /\ InScan(t, taskScan.min, taskScan.max)
               /\ taskScan.token # Nil => LevelLess(taskScan.token, t)}, LevelLess)

\* The entries of one bucket record that are past the token.
TasksFound(b) ==
    InOrder({t \in task[b] :
               /\ InScan(t, taskScan.min, taskScan.max)
               /\ taskScan.token # Nil /\ taskBucket(taskScan.token.id) = b =>
                    LevelLess(taskScan.token, t)}, LevelLess)

Unexpired(found) == LET Live(t) == ~Expired(t, taskScan.time) IN SelectSeq(found, Live)

\* Expired entries are skipped.  A full page ends at the next entry, expired or not.
GetTasksBucket ==
    /\ taskScan.at = "bucket"
    /\ taskScan.left # {}
    /\ LET b     == LowestTaskBucket(taskScan.left)
           found == TasksFound(b)
           page  == Fill(taskScan.page, Unexpired(found), TaskPage)
       IN  taskScan' = IF /\ Len(page) = TaskPage
                          /\ found # <<>>
                          /\ Last(found) # Last(page)
                       THEN [taskScan EXCEPT !.at = "index", !.page = <<>>, !.left = {},
                                             !.out = @ \o page, !.token = Last(page)]
                       ELSE [taskScan EXCEPT !.page = page, !.left = @ \ {b}]
    /\ UNCHANGED <<fair, tqrec, tqTxn, task, taskIndex, now, taskSweep, issued, created, completed>>

GetTasksReturns ==
    /\ taskScan.at = "bucket"
    /\ taskScan.left = {}
    /\ taskScan' = [taskScan EXCEPT !.at = "done", !.out = @ \o taskScan.page, !.page = <<>>]
    /\ UNCHANGED <<fair, tqrec, tqTxn, task, taskIndex, now, taskSweep, issued, created, completed>>

\* The tasks that expire do so at one time.
Tick ==
    /\ now = 0
    /\ now' = 1
    /\ taskScan' = [taskScan EXCEPT !.owed = {t \in @ : ~Expired(t, 1)}]
    /\ UNCHANGED <<fair, tqrec, tqTxn, task, taskIndex, taskSweep, issued, created, completed>>

-----------------------------------------------------------------------------
CompleteTasksLessThan(level, limit) ==
    /\ taskSweep.at = "done"
    /\ taskSweep' = [level |-> level, limit |-> limit, deleted |-> 0, at |-> "bucket",
                     left |-> populatedTaskBuckets(0, taskBucket(level.id), FALSE),
                     owed |-> {t \in Stored : LevelLess(t, level)}]
    /\ completed' = completed \cup {level}
    /\ UNCHANGED <<fair, tqrec, tqTxn, task, taskIndex, now, taskScan, issued, created>>

\* Mutant: the whole bucket record goes.
CompletedWhole(b, level) == task[b]

CompletedIn(b, level) == {t \in task[b] : LevelLess(t, level)}

UnderLimit == taskSweep.limit = 0 \/ taskSweep.deleted < taskSweep.limit

CompleteTasksBucket ==
    /\ taskSweep.at = "bucket"
    /\ taskSweep.left # {}
    /\ UnderLimit
    /\ LET b    == LowestTaskBucket(taskSweep.left)
           gone == CompletedIn(b, taskSweep.level)
       IN  /\ task' = [task EXCEPT ![b] = @ \ gone]
           /\ taskScan' = [taskScan EXCEPT !.owed = @ \ gone]
           /\ taskSweep' = [taskSweep EXCEPT !.left = @ \ {b}, !.owed = @ \ gone,
                                             !.deleted = @ + Cardinality(gone)]
    /\ UNCHANGED <<fair, tqrec, tqTxn, taskIndex, now, issued, created, completed>>

CompleteTasksReturns ==
    /\ taskSweep.at = "bucket"
    /\ taskSweep.left = {} \/ ~UnderLimit
    /\ taskSweep' = [taskSweep EXCEPT !.at = "done"]
    /\ UNCHANGED <<fair, tqrec, tqTxn, task, taskIndex, now, taskScan, issued, created, completed>>

\* What a host does about its lease.
LeaseStep(h) ==
    \/ GetTaskQueue(h)
    \/ \E told \in BOOLEAN : CreateTaskQueue(h, told)
    \/ \E told \in BOOLEAN : tqRange # MaxLease /\ UpdateTaskQueue(h, told)
    \/ SaveTaskQueue(h)
    \/ DeleteTaskQueue(h)
    \/ LeaseFails(h)
    \/ CreateTasksRefused(h)

BatchStep(h) ==
    \/ \E n \in 1..RangeSize, pass \in Pass, exp \in {0, 1}, info \in BOOLEAN :
         CreateTasks(h, n, pass, exp, info)
    \/ CreateTasksCommits(h)
    \/ CreateTasksFails(h)

ReadStep ==
    \/ \E min \in ScanFrom, max \in ScanTo : StartScan(min, max)
    \/ GetTasks
    \/ GetTasksBucket
    \/ GetTasksReturns
    \/ Tick
    \/ \E level \in TaskLevel, limit \in CompleteLimit : CompleteTasksLessThan(level, limit)
    \/ CompleteTasksBucket
    \/ CompleteTasksReturns

TaskQueueNext == (\E h \in Owner : LeaseStep(h) \/ BatchStep(h)) \/ ReadStep

TaskQueueSpec == TaskQueueInit /\ [][TaskQueueNext]_tqvars

-----------------------------------------------------------------------------
\* CreateTasks fences on the range id: once a host has taken the lease, no other
\* host's tasks become visible -- unless the queue record was deleted, which
\* starts the range ids over.
NoTasksFromFormerOwner ==
    [][\A h \in Owner :
         CreateTasksCommits(h) /\ ~recreated /\ lessee # Nil => h = lessee]_tqvars

\* CreateTasks and CompleteTasksLessThan: a committed task is stored, in a
\* bucket that the index lists, until a completion at a level above it.  In the
\* classic store a completion without a limit leaves none of the tasks that were
\* below its level; one with a limit goes past it by less than a bucket.
CompletionIsExact ==
    /\ \A t \in created :
         \/ t \in task[taskBucket(t.id)] /\ taskBucket(t.id) \in taskIndex
         \/ \E level \in completed : LevelLess(t, level)
    /\ taskSweep.at = "done" /\ taskSweep.limit = 0 /\ ~fair => taskSweep.owed = {}
    /\ ~fair /\ taskSweep.limit > 0 => taskSweep.deleted < taskSweep.limit + TaskBucketSize

\* GetTasks: following the tokens to the end returns every task that was stored
\* before, has neither expired nor been completed meanwhile, and no task twice.
\* The classic store returns them in order; the fair store in order within a
\* bucket, and leaves out the buckets below the one of the least task id.
TaskScanIsComplete ==
    LET OneBucket(a, b) == taskBucket(a.id) < taskBucket(b.id)
                           \/ (taskBucket(a.id) = taskBucket(b.id) /\ LevelLess(a, b))
    IN  /\ Ascending(taskScan.out, OneBucket)
        /\ taskScan.at = "done" =>
             \A t \in taskScan.owed :
               Contains(taskScan.out, t) \/ (fair /\ taskBucket(t.id) < taskBucket(taskScan.min.id))

\* "The classic store orders by task id alone; the fair store orders by (pass,
\* task id)" (task_queue_store.go): the pages of GetTasks follow that order and
\* leave out no task from the requested level on.
PagesFollowTheOrder ==
    /\ Ascending(taskScan.out, LevelLess)
    /\ taskScan.at = "done" => \A t \in taskScan.owed : Contains(taskScan.out, t)
=============================================================================
