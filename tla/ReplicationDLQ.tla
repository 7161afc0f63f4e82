--------------------------- MODULE ReplicationDLQ ---------------------------
(***************************************************************************)
(* The replication dead-letter queue of tasks.go: bucket records and an    *)
(* index record, as for history tasks, but written by two commands that    *)
(* no transaction joins.  Writers add tasks, retry, or give up half way,   *)
(* while an operator pages through the queue, asks whether it is empty,    *)
(* and deletes single tasks or a range.                                    *)
(***************************************************************************)
EXTENDS BucketPages, FiniteSets

CONSTANTS
    DLQWriter,
    DLQBucketSize,  \* task ids in a bucket
    DLQTask,        \* task ids
    DLQBound,       \* the ends of the ranges that callers ask for
    DLQBatch        \* BatchSize of GetReplicationTasksFromDLQ

ASSUME DLQAssumption ==
    /\ DLQBucketSize \in Nat \ {0}
    /\ DLQTask \cup DLQBound \subseteq Nat
    /\ DLQBatch \in Nat \ {0}

VARIABLES
    dlq,        \* dlq[b]: the task ids in bucket record b
    dlqIndex,   \* the buckets that the index record lists
    dlqPut,     \* dlqPut[w]: the task whose bucket w has written, or Nil
    dlqSweep,   \* the running RangeDeleteReplicationTaskFromDLQ, or Nil
    dlqScan,    \* the last sequence of GetReplicationTasksFromDLQ pages
    dlqCheck,   \* the last IsReplicationDLQEmpty
    dlqAcked    \* history: tasks put and acknowledged, and not deleted since

dlqvars == <<dlq, dlqIndex, dlqPut, dlqSweep, dlqScan, dlqCheck, dlqAcked>>

DLQCodec == INSTANCE TaskKeys WITH
    Scheduled <- FALSE, BucketWidth <- DLQBucketSize, Base <- 2, Width <- 0

ImmediateKey(id)   == [fire |-> 0, id |-> id]
dlqBucket(id)      == DLQCodec!bucket(ImmediateKey(id))
dlqRange(min, max) == DLQCodec!bucketRange(ImmediateKey(min), ImmediateKey(max))
DLQBuckets         == {dlqBucket(id) : id \in DLQTask}

IdLess(a, b) == a < b

NoScan  == [min |-> 0, max |-> 0, at |-> "done", token |-> Nil, left |-> {},
            page |-> <<>>, out |-> <<>>, owed |-> {}]
NoCheck == [min |-> 0, answer |-> "filled", left |-> {}, owed |-> {}]

DLQInit ==
    /\ dlq = [b \in DLQBuckets |-> {}]
    /\ dlqIndex = {}
    /\ dlqPut = [w \in DLQWriter |-> Nil]
    /\ dlqSweep = Nil
    /\ dlqScan = NoScan
    /\ dlqCheck = NoCheck
    /\ dlqAcked = {}

\* History: what deleting a set of tasks takes away from the promises made to
\* writers and readers.
Forget(S) ==
    /\ dlqAcked' = dlqAcked \ S
    /\ dlqPut' = [w \in DLQWriter |->
                    IF dlqPut[w] # Nil /\ dlqPut[w].id \in S
                    THEN [dlqPut[w] EXCEPT !.kept = FALSE] ELSE dlqPut[w]]
    /\ dlqScan' = [dlqScan EXCEPT !.owed = @ \ S]
    /\ dlqCheck' = [dlqCheck EXCEPT !.owed = @ \ S]

-----------------------------------------------------------------------------
\* The first command of a put.
PutReplicationTaskToDLQ(w, id) ==
    /\ dlqPut[w] = Nil
    /\ dlq' = [dlq EXCEPT ![dlqBucket(id)] = @ \cup {id}]
    /\ dlqPut' = [dlqPut EXCEPT ![w] = [id |-> id, kept |-> TRUE]]
    /\ UNCHANGED <<dlqIndex, dlqSweep, dlqScan, dlqCheck, dlqAcked>>

Acknowledge(w) ==
    /\ dlqAcked' = IF dlqPut[w].kept THEN dlqAcked \cup {dlqPut[w].id} ELSE dlqAcked
    /\ dlqPut' = [dlqPut EXCEPT ![w] = Nil]

\* The second command; the put is acknowledged.
PutDLQIndex(w) ==
    /\ dlqPut[w] # Nil
    /\ dlqIndex' = dlqIndex \cup {dlqBucket(dlqPut[w].id)}
    /\ Acknowledge(w)
    /\ UNCHANGED <<dlq, dlqSweep, dlqScan, dlqCheck>>

\* The second command fails and so does the put: the task is stored, and only
\* listed when another put reaches its bucket.
PutDLQFails(w) ==
    /\ dlqPut[w] # Nil
    /\ dlqPut' = [dlqPut EXCEPT ![w] = Nil]
    /\ UNCHANGED <<dlq, dlqIndex, dlqSweep, dlqScan, dlqCheck, dlqAcked>>

DeleteReplicationTaskFromDLQ(id) ==
    /\ dlq' = [dlq EXCEPT ![dlqBucket(id)] = @ \ {id}]
    /\ Forget({id})
    /\ UNCHANGED <<dlqIndex, dlqSweep>>

RangeDeleteReplicationTaskFromDLQ(min, max) ==
    /\ dlqSweep = Nil
    /\ dlqSweep' = [min |-> min, max |-> max, left |-> dlqIndex \cap dlqRange(min, max)]
    /\ UNCHANGED <<dlq, dlqIndex, dlqPut, dlqScan, dlqCheck, dlqAcked>>

LowestBucket(left) == CHOOSE b \in left : \A c \in left : b <= c

RangeDeleteDLQBucket ==
    /\ dlqSweep # Nil
    /\ dlqSweep.left # {}
    /\ LET b    == LowestBucket(dlqSweep.left)
           gone == {id \in dlq[b] : dlqSweep.min <= id /\ id < dlqSweep.max}
       IN  /\ dlq' = [dlq EXCEPT ![b] = @ \ gone]
           /\ Forget(gone)
           /\ dlqSweep' = [dlqSweep EXCEPT !.left = @ \ {b}]
    /\ UNCHANGED dlqIndex

RangeDeleteDLQReturns ==
    /\ dlqSweep # Nil
    /\ dlqSweep.left = {}
    /\ dlqSweep' = Nil
    /\ UNCHANGED <<dlq, dlqIndex, dlqPut, dlqScan, dlqCheck, dlqAcked>>

-----------------------------------------------------------------------------
\* A reader asks for the tasks of [min, max), page after page.
GetReplicationTasksFromDLQ(min, max) ==
    /\ dlqScan.at = "done"
    /\ dlqScan' = [NoScan EXCEPT !.min = min, !.max = max, !.at = "index",
                   !.owed = {id \in dlqAcked : min <= id /\ id < max}]
    /\ UNCHANGED <<dlq, dlqIndex, dlqPut, dlqSweep, dlqCheck, dlqAcked>>

\* Mutant: a page resumes in the bucket after its token's.
GetDLQIndexAfter ==
    /\ dlqScan.at = "index"
    /\ dlqScan' = [dlqScan EXCEPT
                    !.at = "bucket", !.page = <<>>,
                    !.left = {b \in dlqIndex \cap dlqRange(dlqScan.min, dlqScan.max) :
                                dlqScan.token # Nil => b > dlqBucket(dlqScan.token)}]
    /\ UNCHANGED <<dlq, dlqIndex, dlqPut, dlqSweep, dlqCheck, dlqAcked>>

\* dlqPopulatedBuckets: a page starts with the index record.
GetDLQIndex ==
    /\ dlqScan.at = "index"
    /\ dlqScan' = [dlqScan EXCEPT
                    !.at = "bucket", !.page = <<>>,
                    !.left = {b \in dlqIndex \cap dlqRange(dlqScan.min, dlqScan.max) :
                                dlqScan.token # Nil => b >= dlqBucket(dlqScan.token)}]
    /\ UNCHANGED <<dlq, dlqIndex, dlqPut, dlqSweep, dlqCheck, dlqAcked>>

GetDLQBucket ==
    /\ dlqScan.at = "bucket"
    /\ dlqScan.left # {}
    /\ LET b     == LowestBucket(dlqScan.left)
           found == InOrder({id \in dlq[b] :
                               /\ dlqScan.min <= id /\ id < dlqScan.max
                               /\ dlqScan.token # Nil => id > dlqScan.token}, IdLess)
           page  == Fill(dlqScan.page, found, DLQBatch)
       IN  dlqScan' = IF Overflows(dlqScan.page, found, DLQBatch)
                      THEN [dlqScan EXCEPT !.at = "index", !.page = <<>>, !.left = {},
                                           !.out = @ \o page, !.token = page[Len(page)]]
                      ELSE [dlqScan EXCEPT !.page = page, !.left = @ \ {b}]
    /\ UNCHANGED <<dlq, dlqIndex, dlqPut, dlqSweep, dlqCheck, dlqAcked>>

\* The last page has no token.
GetDLQReturns ==
    /\ dlqScan.at = "bucket"
    /\ dlqScan.left = {}
    /\ dlqScan' = [dlqScan EXCEPT !.at = "done", !.out = @ \o dlqScan.page, !.page = <<>>]
    /\ UNCHANGED <<dlq, dlqIndex, dlqPut, dlqSweep, dlqCheck, dlqAcked>>

-----------------------------------------------------------------------------
\* Mutant: the upper end of the request is honoured; callers leave it zero.
IsEmptyUpTo(min) ==
    /\ dlqCheck.answer # "none"
    /\ dlqCheck' = [min |-> min, answer |-> "none", left |-> dlqIndex \cap dlqRange(min, 0),
                    owed |-> {id \in dlqAcked : id >= min}]
    /\ UNCHANGED <<dlq, dlqIndex, dlqPut, dlqSweep, dlqScan, dlqAcked>>

\* The index from the bucket of min to the end of the map.
IsReplicationDLQEmpty(min) ==
    /\ dlqCheck.answer # "none"
    /\ dlqCheck' = [min |-> min, answer |-> "none",
                    left |-> {b \in dlqIndex : b >= dlqBucket(min)},
                    owed |-> {id \in dlqAcked : id >= min}]
    /\ UNCHANGED <<dlq, dlqIndex, dlqPut, dlqSweep, dlqScan, dlqAcked>>

IsEmptyBucket ==
    /\ dlqCheck.answer = "none"
    /\ dlqCheck.left # {}
    /\ LET b == LowestBucket(dlqCheck.left)
       IN  dlqCheck' = IF \E id \in dlq[b] : id >= dlqCheck.min
                       THEN [dlqCheck EXCEPT !.answer = "filled", !.left = {}]
                       ELSE [dlqCheck EXCEPT !.left = @ \ {b}]
    /\ UNCHANGED <<dlq, dlqIndex, dlqPut, dlqSweep, dlqScan, dlqAcked>>

IsEmptyReturns ==
    /\ dlqCheck.answer = "none"
    /\ dlqCheck.left = {}
    /\ dlqCheck' = [dlqCheck EXCEPT !.answer = "empty"]
    /\ UNCHANGED <<dlq, dlqIndex, dlqPut, dlqSweep, dlqScan, dlqAcked>>

\* Bound: readers do not disturb each other, so a behaviour has pages or
\* emptiness checks, not both.
ChecksOnly == dlqScan = NoScan
PagesOnly  == dlqCheck = NoCheck

DLQNext ==
    \/ \E w \in DLQWriter :
         \/ \E id \in DLQTask : PutReplicationTaskToDLQ(w, id)
         \/ PutDLQIndex(w)
         \/ PutDLQFails(w)
    \/ \E id \in DLQTask : DeleteReplicationTaskFromDLQ(id)
    \/ \E max \in DLQBound : RangeDeleteReplicationTaskFromDLQ(0, max)
    \/ RangeDeleteDLQBucket
    \/ RangeDeleteDLQReturns
    \/ \E min, max \in DLQBound : min < max /\ PagesOnly /\ GetReplicationTasksFromDLQ(min, max)
    \/ GetDLQIndex \/ GetDLQBucket \/ GetDLQReturns
    \/ \E min \in DLQBound : ChecksOnly /\ IsReplicationDLQEmpty(min)
    \/ IsEmptyBucket \/ IsEmptyReturns

DLQSpec == DLQInit /\ [][DLQNext]_dlqvars

-----------------------------------------------------------------------------
\* IsReplicationDLQEmpty reads record after record: when it answers that the
\* queue is empty, every task acknowledged before the call was deleted during it.
EmptyIsSound == dlqCheck.answer = "empty" => dlqCheck.owed = {}

\* GetReplicationTasksFromDLQ: following the tokens to the end returns, once and
\* in order, every task that was acknowledged before and not deleted meanwhile.
DLQScanIsComplete ==
    /\ Ascending(dlqScan.out, IdLess)
    /\ dlqScan.at = "done" => \A id \in dlqScan.owed : Contains(dlqScan.out, id)
=============================================================================
