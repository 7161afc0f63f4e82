----------------------------- MODULE HistoryTasks -----------------------------
(***************************************************************************)
(* The task queue of one shard and category: bucket records, each a        *)
(* sorted map of tasks, and an index record that lists the buckets.        *)
(* Transactions add tasks (AddHistoryTasks, and writeTasks inside the      *)
(* execution store's operations), while the queue processor removes them   *)
(* (CompleteHistoryTask, RangeCompleteHistoryTasks) with commands outside  *)
(* any transaction.  HistoryTaskPages adds its reads (GetHistoryTasks).    *)
(***************************************************************************)
EXTENDS Absent, TaskKeys, FiniteSets, FiniteSetsExt

CONSTANTS
    Task,       \* the keys of the tasks
    Bound,      \* the exclusive upper ends of the ranges callers ask for
    Writer      \* threads that add tasks

ASSUME TasksAssumption ==
    /\ Task \cup Bound \subseteq TaskKey
    /\ Nil \notin Nat
    /\ \A S \in (SUBSET Task) \cup SUBSET {bucket(t) : t \in Task} : S # Nil

MinKey == [fire |-> 0, id |-> 0]    \* the ranges of the queue processor start here

Bucket(b) == [set |-> "htask", id |-> b]
Index     == [set |-> "htaskidx", id |-> Nil]
Key       == {Bucket(bucket(t)) : t \in Task} \cup {Index}

VARIABLES
    rec, txn,   \* the namespace (AerospikeMRT)
    todo,       \* todo[w]: the tasks writer w adds, {} when it is idle
    unwritten,  \* unwritten[w]: the buckets it has not written yet
    unlisted,   \* unlisted[w]: the bucket it has written but not listed, or Nil
    sweep,      \* the running RangeCompleteHistoryTasks, or Nil
    live,       \* history: tasks added and not yet completed
    raced,      \* history: those whose bucket was being retired when they were added
    done        \* history: every key below it is completed

adding == <<todo, unwritten, unlisted>>
vars   == <<rec, txn, adding, sweep, live, raced, done>>

MRT == INSTANCE AerospikeMRT WITH Proc <- Writer, NoRec <- Nil

Entries(m) == IF m = Nil THEN {} ELSE m

Init ==
    /\ MRT!MRTInit
    /\ todo = [w \in Writer |-> {}]
    /\ unwritten = [w \in Writer |-> {}]
    /\ unlisted = [w \in Writer |-> Nil]
    /\ sweep = Nil
    /\ live = {}
    /\ raced = {}
    /\ done = MinKey

-----------------------------------------------------------------------------
(***************************************************************************)
(* Adding tasks.  The buckets are visited in the order of a Go map, that   *)
(* is, in any order; each is written and then listed in the index.  The    *)
(* fence of the lease, and every other error, shows as AddFails.           *)
(***************************************************************************)
\* Caller: task ids come from the shard's sequence, so a new task is never
\* below what is completed.  A request may be repeated.
AreNew(S) == \A t \in S : ~KeyLess(t, done)

AddHistoryTasks(w, S) ==
    /\ todo[w] = {}
    /\ todo' = [todo EXCEPT ![w] = S]
    /\ unwritten' = [unwritten EXCEPT ![w] = {bucket(t) : t \in S}]
    /\ UNCHANGED <<rec, txn, unlisted, sweep, live, raced, done>>

\* Mutant: the bucket is written outside the transaction.
WriteBucketOutsideTxn(w, b) ==
    /\ unlisted[w] = Nil
    /\ b \in unwritten[w]
    /\ MRT!Put(Bucket(b), Entries(rec[Bucket(b)]) \cup {t \in todo[w] : bucket(t) = b})
    /\ unwritten' = [unwritten EXCEPT ![w] = @ \ {b}]
    /\ unlisted' = [unlisted EXCEPT ![w] = b]
    /\ UNCHANGED <<todo, sweep, live, raced, done>>

WriteBucket(w, b) ==
    /\ unlisted[w] = Nil
    /\ b \in unwritten[w]
    /\ MRT!TxnWrite(w, Bucket(b),
          Entries(MRT!View(w, Bucket(b))) \cup {t \in todo[w] : bucket(t) = b})
    /\ unwritten' = [unwritten EXCEPT ![w] = @ \ {b}]
    /\ unlisted' = [unlisted EXCEPT ![w] = b]
    /\ UNCHANGED <<todo, sweep, live, raced, done>>

ListBucket(w) ==
    /\ unlisted[w] # Nil
    /\ MRT!TxnWrite(w, Index, Entries(MRT!View(w, Index)) \cup {unlisted[w]})
    /\ unlisted' = [unlisted EXCEPT ![w] = Nil]
    /\ UNCHANGED <<todo, unwritten, sweep, live, raced, done>>

\* The bucket that a range completion is at, and whether it is retiring it.
SweptBucket == Min(sweep.left)
Retiring(b) == sweep # Nil /\ sweep.step \in {"delete", "unlist"} /\ b = SweptBucket

EndAdd(w) ==
    /\ todo' = [todo EXCEPT ![w] = {}]
    /\ unwritten' = [unwritten EXCEPT ![w] = {}]
    /\ unlisted' = [unlisted EXCEPT ![w] = Nil]

CommitAdd(w) ==
    /\ todo[w] # {}
    /\ unwritten[w] = {}
    /\ unlisted[w] = Nil
    /\ MRT!TxnCommit(w)
    /\ live' = live \cup todo[w]
    /\ raced' = (raced \ todo[w]) \cup {t \in todo[w] : Retiring(bucket(t))}
    /\ EndAdd(w)
    /\ UNCHANGED <<sweep, done>>

AddFails(w) ==
    /\ todo[w] # {}
    /\ MRT!TxnAbort(w)
    /\ EndAdd(w)
    /\ UNCHANGED <<sweep, live, raced, done>>

-----------------------------------------------------------------------------
\* populatedBuckets: the listed buckets among those of a range.
populatedBuckets(first, max) ==
    {b \in Entries(rec[Index]) : b \in bucketRange(MinKey, max) /\ b >= first}

CompleteHistoryTask(t) ==
    /\ t \in Entries(rec[Bucket(bucket(t))])
    /\ MRT!Put(Bucket(bucket(t)), rec[Bucket(bucket(t))] \ {t})
    /\ live' = live \ {t}
    /\ UNCHANGED <<adding, sweep, raced, done>>

Completed(max) == {t \in Task : KeyLess(t, max)}

\* Caller: the queue processor completes a range once all of its tasks are
\* written and processed.
IsProcessed(max) == \A w \in Writer : todo[w] \cap Completed(max) = {}

RangeCompleteHistoryTasks(max) ==
    /\ sweep = Nil
    /\ sweep' = [step |-> "remove", left |-> populatedBuckets(0, max), max |-> max]
    /\ live' = live \ Completed(max)
    /\ done' = IF KeyLess(done, max) THEN max ELSE done
    /\ UNCHANGED <<rec, txn, adding, raced>>

NextBucket == sweep' = [sweep EXCEPT !.step = "remove", !.left = @ \ {SweptBucket}]

\* Mutant: the bucket is retired whatever the command leaves in it.
RetireAnyBucket ==
    /\ sweep # Nil /\ sweep.step = "remove" /\ sweep.left # {}
    /\ LET k == Bucket(SweptBucket) IN
        \/ /\ rec[k] = Nil
           /\ NextBucket
           /\ UNCHANGED <<rec, txn>>
        \/ /\ rec[k] # Nil
           /\ MRT!Put(k, {t \in rec[k] : ~InRange(t, MinKey, sweep.max)})
           /\ sweep' = [sweep EXCEPT !.step = "delete"]
    /\ UNCHANGED <<adding, live, raced, done>>

\* One command removes the range and reports how many tasks are left.
RemoveRange ==
    /\ sweep # Nil /\ sweep.step = "remove" /\ sweep.left # {}
    /\ LET k == Bucket(SweptBucket)
           rest == {t \in Entries(rec[k]) : ~InRange(t, MinKey, sweep.max)} IN
        \/ /\ rec[k] = Nil
           /\ NextBucket
           /\ UNCHANGED <<rec, txn>>
        \/ /\ rec[k] # Nil
           /\ MRT!Put(k, rest)
           /\ IF rest = {} THEN sweep' = [sweep EXCEPT !.step = "delete"] ELSE NextBucket
    /\ UNCHANGED <<adding, live, raced, done>>

\* retireBucket: delete the bucket record, then its entry in the index.
DeleteBucket ==
    /\ sweep # Nil /\ sweep.step = "delete"
    /\ MRT!Put(Bucket(SweptBucket), Nil)
    /\ sweep' = [sweep EXCEPT !.step = "unlist"]
    /\ UNCHANGED <<adding, live, raced, done>>

UnlistBucket ==
    /\ sweep # Nil /\ sweep.step = "unlist"
    /\ MRT!Put(Index, Entries(rec[Index]) \ {SweptBucket})
    /\ NextBucket
    /\ UNCHANGED <<adding, live, raced, done>>

\* The call returns; or one of its commands fails, on a record that a
\* transaction has locked for instance, and the call with it.
SweepEnds ==
    /\ sweep # Nil /\ sweep.left = {}
    /\ sweep' = Nil
    /\ UNCHANGED <<rec, txn, adding, live, raced, done>>

SweepFails ==
    /\ sweep # Nil /\ sweep.left # {}
    /\ sweep' = Nil
    /\ UNCHANGED <<rec, txn, adding, live, raced, done>>

-----------------------------------------------------------------------------
Next ==
    \/ \E w \in Writer :
          \/ \E S \in (SUBSET Task) \ {{}} : AreNew(S) /\ AddHistoryTasks(w, S)
          \/ \E b \in unwritten[w] : WriteBucket(w, b)
          \/ ListBucket(w) \/ CommitAdd(w) \/ AddFails(w)
    \/ \E t \in Task : CompleteHistoryTask(t)
    \/ \E max \in Bound : IsProcessed(max) /\ RangeCompleteHistoryTasks(max)
    \/ RemoveRange \/ DeleteBucket \/ UnlistBucket \/ SweepEnds \/ SweepFails

Spec == Init /\ [][Next]_vars

-----------------------------------------------------------------------------
BucketIDs == {bucket(t) : t \in Task}

Reachable(t) ==
    /\ t \in Entries(rec[Bucket(bucket(t))])
    /\ bucket(t) \in Entries(rec[Index])

\* A task that was added and not completed stays in its bucket, and the bucket
\* stays listed: the next range read finds it.  Retiring a bucket breaks this.
TasksAreReachable == \A t \in live : Reachable(t)

\* Nothing else does, wherever the ranges end: the tasks that are lost, or that
\* no range read finds, were all committed to a bucket between the command that
\* found it empty and the last of the two that retire it.
OnlyRacedTasksAreLost == \A t \in live \ raced : Reachable(t)

\* No task of a request that failed is ever stored, and no task stays behind but
\* those of an interrupted range completion: one that returns without an error
\* has removed every task of its range that the buckets of the range hold
\* (RangeCovers is about those they do not), except for one that an earlier
\* completion left in an unlisted bucket.
NoStrayTasks ==
    /\ \A b \in BucketIDs : \A t \in Entries(rec[Bucket(b)]) :
           bucket(t) = b /\ (t \in live \/ KeyLess(t, done))
    /\ sweep # Nil /\ sweep.left = {} =>
           \A b \in BucketIDs \cap bucketRange(MinKey, sweep.max) :
               Entries(rec[Bucket(b)]) \cap Completed(sweep.max) \subseteq raced

\* A range completion that could not retire an emptied bucket goes on with the
\* other buckets of its range.
RetiringIsBestEffort ==
    [][sweep # Nil /\ sweep' = Nil /\ sweep.step \in {"delete", "unlist"}
          => sweep.left = {SweptBucket}]_vars
=============================================================================
