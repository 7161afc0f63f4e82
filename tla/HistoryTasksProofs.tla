------------------------- MODULE HistoryTasksProofs -------------------------
(***************************************************************************)
(* No history task is lost or stays behind but those committed to a bucket *)
(* while it was being retired, for any number of tasks, writers and        *)
(* buckets, wherever the completed ranges end, and any interleaving of the *)
(* transactions that add tasks with the queue processor's commands.  That  *)
(* the exception happens is what the run of MCHistoryTasksRetire shows.    *)
(*                                                                         *)
(* For the categories ordered by fire time the theorems assume that the    *)
(* server orders encoded keys as the category orders its tasks             *)
(* (OrderIsKept), which TLC checks as EncodingOrders: it is a fact about   *)
(* the digits of a number, and so needs induction.                         *)
(***************************************************************************)
EXTENDS HistoryTasks, WellFoundedInduction, TLAPS

OrderIsKept ==
    Scheduled => \A s \in Task, t \in Bound \cup {MinKey} :
                    LexLess(encode(s), encode(t)) <=> KeyLess(s, t)

-----------------------------------------------------------------------------
(***************************************************************************)
(* The inductive invariant.                                                *)
(***************************************************************************)
\* Records and transactions have the shape that the commands rely on.
Shape ==
    /\ DOMAIN rec = Key
    /\ DOMAIN txn = Writer /\ DOMAIN todo = Writer
    /\ DOMAIN unwritten = Writer /\ DOMAIN unlisted = Writer
    /\ \A w \in Writer : txn[w] = [reads |-> txn[w].reads, stale |-> txn[w].stale, prov |-> txn[w].prov]
    /\ done \in Bound \cup {MinKey}

\* What the transaction of a writer holds: a bucket it has written has the
\* committed tasks and the new ones, the index it has written has lost no
\* bucket, and every bucket it has written is listed there or is next to be.
Adding(w) ==
    /\ todo[w] \subseteq Task /\ unwritten[w] \subseteq BucketIDs
    /\ todo[w] = {} => MRT!Writes(w) = {} /\ unwritten[w] = {} /\ unlisted[w] = Nil
    /\ \A b \in BucketIDs : Bucket(b) \in MRT!Writes(w) =>
         /\ txn[w].prov[Bucket(b)] = Entries(rec[Bucket(b)]) \cup {t \in todo[w] : bucket(t) = b}
         /\ b = unlisted[w] \/ (Index \in MRT!Writes(w) /\ b \in txn[w].prov[Index])
    /\ Index \in MRT!Writes(w) =>
         /\ Entries(rec[Index]) \subseteq txn[w].prov[Index]
         /\ txn[w].prov[Index] \subseteq BucketIDs
    /\ unlisted[w] \in BucketIDs \cup {Nil}
    /\ \A t \in todo[w] :
         /\ bucket(t) \in unwritten[w] \/ Bucket(bucket(t)) \in MRT!Writes(w)
         /\ ~KeyLess(t, done)

\* No record has two provisional versions.
Locks == \A v, w \in Writer : v # w => MRT!Writes(v) \cap MRT!Writes(w) = {}

\* What the records hold: tasks in their own bucket, live or below what is
\* completed; and, but for those that raced with the retiring of their bucket,
\* every live task, in a bucket that the index lists.
Stored ==
    /\ \A b \in BucketIDs : rec[Bucket(b)] \in (SUBSET Task) \cup {Nil}
    /\ rec[Index] \in (SUBSET BucketIDs) \cup {Nil}
    /\ \A b \in BucketIDs : \A t \in Entries(rec[Bucket(b)]) \ raced : b \in Entries(rec[Index])
    /\ \A b \in BucketIDs : \A t \in Entries(rec[Bucket(b)]) :
          bucket(t) = b /\ (t \in live \/ KeyLess(t, done))
    /\ \A t \in live : t \in Task /\ ~KeyLess(t, done)
    /\ \A t \in live \ raced : t \in Entries(rec[Bucket(bucket(t))])

\* How far a range completion has come: but for raced tasks, the buckets it has
\* passed hold nothing of its range, and the one it is about to retire is empty.
Sweeping ==
    sweep # Nil =>
      /\ sweep = [step |-> sweep.step, left |-> sweep.left, max |-> sweep.max]
      /\ sweep.max \in Bound
      /\ \A t \in Task : KeyLess(t, sweep.max) => KeyLess(t, done)
      /\ sweep.left \subseteq BucketIDs \cap bucketRange(MinKey, sweep.max)
      /\ sweep.step \in {"delete", "unlist"} =>
            sweep.left # {} /\ Entries(rec[Bucket(SweptBucket)]) \subseteq raced
      /\ \A b \in (BucketIDs \cap bucketRange(MinKey, sweep.max)) \ sweep.left :
            Entries(rec[Bucket(b)]) \cap Completed(sweep.max) \subseteq raced

QInv == Shape /\ (\A w \in Writer : Adding(w)) /\ Locks /\ Stored /\ Sweeping

-----------------------------------------------------------------------------
(***************************************************************************)
(* Keys and buckets.                                                       *)
(***************************************************************************)
\* The least element of a set of numbers is one of them.
LEMMA LeastIsIn ==
    ASSUME NEW S, S \subseteq Nat, S # {}
    PROVE  Min(S) \in S
<1> DEFINE R == OpToRel(<, Nat)
<1>1. \A x, y \in Nat : x < y => <<x, y>> \in R
  BY DEF OpToRel
<1>2. \E x \in S : \A y \in S : ~(<<y, x>> \in R)
  BY NatLessThanWellFounded, WFMin, Zenon
<1> HIDE DEF R
<1>3. PICK x \in S : \A y \in S : ~(<<y, x>> \in R)
  BY <1>2
<1>4. x \in Nat /\ \A y \in S : y \in Nat
  OBVIOUS
<1>5. \A y \in S : ~(y < x)
  BY <1>1, <1>3, <1>4, Zenon
<1>6. \A y \in S : x <= y
  BY <1>4, <1>5
<1>7. QED
  BY <1>6, Zenon DEF Min

\* Buckets are numbered, and a task belongs to the one its key names.
LEMMA BucketFacts ==
    /\ BucketIDs \subseteq Nat
    /\ Nil \notin BucketIDs
    /\ \A t \in Task : bucket(t) \in BucketIDs
    /\ \A b \in BucketIDs : Bucket(b) \in Key /\ Bucket(b) # Index
    /\ \A b, c \in BucketIDs : Bucket(b) = Bucket(c) => b = c
    /\ Index \in Key
    /\ \A k \in Key : k = Index \/ \E b \in BucketIDs : k = Bucket(b)
<1>1. \A t \in Task : Axis(t) \in Nat
  BY TasksAssumption, CodecAssumption DEF Axis, TaskKey
<1>2. \A t \in Task : bucket(t) \in Nat
  BY <1>1, CodecAssumption DEF bucket
<1>3. BucketIDs \subseteq Nat /\ Nil \notin BucketIDs
  BY <1>2, TasksAssumption DEF BucketIDs
<1>4. \A t \in Task : bucket(t) \in BucketIDs
  BY DEF BucketIDs
<1>5. \A b : Bucket(b) # Index
  BY DEF Bucket, Index
<1>6. \A b, c \in BucketIDs : Bucket(b) = Bucket(c) => b = c
  BY DEF Bucket
<1>7. /\ \A b \in BucketIDs : Bucket(b) \in Key
      /\ \A k \in Key : k = Index \/ \E b \in BucketIDs : k = Bucket(b)
      /\ Index \in Key
  BY Zenon DEF Key, BucketIDs
<1>8. QED
  BY <1>3, <1>4, <1>5, <1>6, <1>7

\* What a record holds is never taken for its absence.
LEMMA EntriesFacts ==
    /\ \A S \in (SUBSET Task) \cup (SUBSET BucketIDs) : Entries(S) = S
    /\ Entries(Nil) = {}
BY TasksAssumption DEF Entries, BucketIDs

\* The order of the tasks, among tasks and bounds.
LEMMA OrderFacts ==
    ASSUME NEW a \in TaskKey, NEW b \in TaskKey, NEW c \in TaskKey
    PROVE  /\ KeyLess(a, b) /\ KeyLess(b, c) => KeyLess(a, c)
           /\ KeyLess(a, c) /\ ~KeyLess(b, c) => KeyLess(a, b)
           /\ ~KeyLess(a, MinKey)
<1>1. /\ a.id \in Nat /\ a.fire \in Nat /\ b.id \in Nat /\ b.fire \in Nat
      /\ c.id \in Nat /\ c.fire \in Nat /\ MinKey.id = 0 /\ MinKey.fire = 0
  BY DEF TaskKey, MinKey
<1>2. CASE Scheduled
  BY <1>1, <1>2 DEF KeyLess
<1>3. CASE ~Scheduled
  BY <1>1, <1>3 DEF KeyLess
<1>4. QED
  BY <1>2, <1>3

\* The immediate categories need no assumption on the encoding.
LEMMA RangeIsBelow ==
    ASSUME OrderIsKept, NEW t \in Task, NEW max \in Bound
    PROVE  InRange(t, MinKey, max) <=> KeyLess(t, max)
<1>0. t \in TaskKey /\ max \in TaskKey /\ MinKey \in TaskKey
  BY TasksAssumption DEF MinKey, TaskKey
<1>1. CASE Scheduled
  <2>1. /\ LexLess(encode(t), encode(max)) <=> KeyLess(t, max)
        /\ LexLess(encode(t), encode(MinKey)) <=> KeyLess(t, MinKey)
    BY <1>1 DEF OrderIsKept
  <2>2. ~KeyLess(t, MinKey)
    BY <1>0, OrderFacts
  <2>3. QED
    BY <2>1, <2>2, Zenon DEF InRange
<1>2. CASE ~Scheduled
  <2>1. \A m, n \in Nat : LexLess(<<m>>, <<n>>) <=> m < n
    <3> SUFFICES ASSUME NEW m \in Nat, NEW n \in Nat PROVE LexLess(<<m>>, <<n>>) <=> m < n
      OBVIOUS
    <3>1. DOMAIN <<m>> = {1} /\ <<m>>[1] = m /\ <<n>>[1] = n
      OBVIOUS
    <3>2. \A j \in 1..(1 - 1) : FALSE
      OBVIOUS
    <3>3. QED
      BY <3>1, <3>2, Zenon DEF LexLess
  <2>2. t.id \in Nat /\ max.id \in Nat /\ MinKey.id = 0
    BY <1>0 DEF TaskKey, MinKey
  <2>3. encode(t) = <<t.id>> /\ encode(max) = <<max.id>> /\ encode(MinKey) = <<MinKey.id>>
    BY <1>2, Zenon DEF encode
  <2>4. LexLess(encode(t), encode(max)) <=> t.id < max.id
    BY <2>1, <2>2, <2>3
  <2>5. ~LexLess(encode(t), encode(MinKey))
    BY <2>1, <2>2, <2>3
  <2>6. QED
    BY <1>2, <2>4, <2>5 DEF InRange, KeyLess
<1>3. QED
  BY <1>1, <1>2

-----------------------------------------------------------------------------
(***************************************************************************)
(* The commands.                                                           *)
(***************************************************************************)
\* A command outside any transaction changes one record that nobody has locked.
LEMMA PutEffect ==
    ASSUME Shape, NEW k \in Key, NEW v, MRT!Put(k, v)
    PROVE  /\ DOMAIN rec' = Key /\ rec'[k] = v /\ \A x \in Key \ {k} : rec'[x] = rec[x]
           /\ DOMAIN txn' = Writer
           /\ \A w \in Writer :
                 /\ txn'[w] = [reads |-> txn'[w].reads, stale |-> txn'[w].stale, prov |-> txn'[w].prov]
                 /\ txn'[w].prov = txn[w].prov
                 /\ k \notin MRT!Writes(w)
<1>1. DOMAIN rec' = Key /\ rec'[k] = v /\ \A x \in Key \ {k} : rec'[x] = rec[x]
  BY DEF MRT!Put, Shape
<1>2. \A w \in Writer : k \notin MRT!Writes(w)
  BY Zenon DEF MRT!Put, MRT!Locked
<1>3. txn' = [w \in Writer |-> [txn[w] EXCEPT !.stale = @ \cup (txn[w].reads \cap {k})]]
  BY DEF MRT!Put
<1>4. ASSUME NEW w \in Writer
      PROVE  /\ txn'[w] = [reads |-> txn'[w].reads, stale |-> txn'[w].stale, prov |-> txn'[w].prov]
             /\ txn'[w].prov = txn[w].prov
  <2>1. txn'[w] = [txn[w] EXCEPT !.stale = @ \cup (txn[w].reads \cap {k})]
    BY <1>3
  <2>2. txn[w] = [reads |-> txn[w].reads, stale |-> txn[w].stale, prov |-> txn[w].prov]
    BY DEF Shape
  <2>3. \A r, s, p, x : LET e == [reads |-> r, stale |-> s, prov |-> p] IN
           [e EXCEPT !.stale = x] = [reads |-> r, stale |-> x, prov |-> p]
    OBVIOUS
  <2>4. txn'[w] = [reads |-> txn[w].reads, stale |-> txn[w].stale \cup (txn[w].reads \cap {k}),
                   prov |-> txn[w].prov]
    BY <2>1, <2>2, <2>3, Zenon
  <2>5. QED
    BY <2>4
<1>5. QED
  BY <1>1, <1>2, <1>3, <1>4

\* A write in a transaction changes that transaction only, and takes a lock.
LEMMA WriteEffect ==
    ASSUME Shape, NEW w \in Writer, NEW k \in Key, NEW v, MRT!TxnWrite(w, k, v)
    PROVE  /\ rec' = rec /\ DOMAIN txn' = Writer
           /\ \A u \in Writer \ {w} : txn'[u] = txn[u] /\ k \notin MRT!Writes(u)
           /\ txn'[w] = [reads |-> txn'[w].reads, stale |-> txn'[w].stale, prov |-> txn'[w].prov]
           /\ MRT!Writes(w)' = MRT!Writes(w) \cup {k}
           /\ \A x \in MRT!Writes(w) \ {k} : txn'[w].prov[x] = txn[w].prov[x]
<1> DEFINE f == [x \in MRT!Writes(w) \cup {k} |-> IF x = k THEN v ELSE txn[w].prov[x]]
<1>1. txn' = [txn EXCEPT ![w].prov = f] /\ rec' = rec
  BY DEF MRT!TxnWrite
<1>2. \A u \in Writer \ {w} : k \notin MRT!Writes(u)
  BY Zenon DEF MRT!TxnWrite, MRT!LockedByOther
<1>3. DOMAIN f = MRT!Writes(w) \cup {k} /\ \A x \in MRT!Writes(w) \ {k} : f[x] = txn[w].prov[x]
  OBVIOUS
<1> HIDE DEF f
<1>4. DOMAIN txn = Writer /\ txn[w] = [reads |-> txn[w].reads, stale |-> txn[w].stale, prov |-> txn[w].prov]
  BY DEF Shape
<1>5. DOMAIN txn' = Writer /\ \A u \in Writer \ {w} : txn'[u] = txn[u]
  BY <1>1, <1>4
<1>6. txn'[w] = [txn[w] EXCEPT !.prov = f]
  BY <1>1, <1>4
<1>7. txn'[w] = [reads |-> txn[w].reads, stale |-> txn[w].stale, prov |-> f]
  BY <1>4, <1>6
<1>8. txn'[w].prov = f
  BY <1>7
<1>9. MRT!Writes(w)' = DOMAIN f
  BY <1>8 DEF MRT!Writes
<1>10. txn'[w] = [reads |-> txn'[w].reads, stale |-> txn'[w].stale, prov |-> txn'[w].prov]
  BY <1>7
<1>11. QED
  BY <1>1, <1>2, <1>3, <1>5, <1>8, <1>9, <1>10

\* The transaction then sees what it wrote.
LEMMA WriteValue ==
    ASSUME Shape, NEW w \in Writer, NEW k \in Key, NEW v, MRT!TxnWrite(w, k, v)
    PROVE  txn'[w].prov[k] = v
<1> DEFINE f == [x \in MRT!Writes(w) \cup {k} |-> IF x = k THEN v ELSE txn[w].prov[x]]
<1>1. txn' = [txn EXCEPT ![w].prov = f]
  BY DEF MRT!TxnWrite
<1>2. f[k] = v
  OBVIOUS
<1> HIDE DEF f
<1>3. DOMAIN txn = Writer /\ txn[w] = [reads |-> txn[w].reads, stale |-> txn[w].stale, prov |-> txn[w].prov]
  BY DEF Shape
<1>4. txn'[w] = [txn[w] EXCEPT !.prov = f]
  BY <1>1, <1>3
<1>5. txn'[w] = [reads |-> txn[w].reads, stale |-> txn[w].stale, prov |-> f]
  BY <1>3, <1>4
<1>6. txn'[w].prov = f
  BY <1>5
<1>7. QED
  BY <1>2, <1>6

\* An ended transaction holds nothing.
LEMMA NoTxnFacts ==
    /\ MRT!NoTxn = [reads |-> MRT!NoTxn.reads, stale |-> MRT!NoTxn.stale, prov |-> MRT!NoTxn.prov]
    /\ DOMAIN MRT!NoTxn.prov = {}
BY DEF MRT!NoTxn

\* A commit makes what the transaction sees the committed versions.
LEMMA CommitTakesEffect ==
    ASSUME Shape, NEW w \in Writer, MRT!TxnCommit(w)
    PROVE  /\ DOMAIN rec' = Key /\ DOMAIN txn' = Writer
           /\ \A k \in Key : rec'[k] = IF k \in MRT!Writes(w) THEN txn[w].prov[k] ELSE rec[k]
           /\ txn'[w] = MRT!NoTxn
           /\ \A u \in Writer \ {w} :
                 /\ txn'[u] = [reads |-> txn'[u].reads, stale |-> txn'[u].stale, prov |-> txn'[u].prov]
                 /\ txn'[u].prov = txn[u].prov
<1>1. rec' = [k \in Key |-> MRT!View(w, k)]
  BY DEF MRT!TxnCommit
<1>2. \A k \in Key : rec'[k] = IF k \in MRT!Writes(w) THEN txn[w].prov[k] ELSE rec[k]
  BY <1>1 DEF MRT!View
<1>3. txn' = [q \in Writer |-> IF q = w THEN MRT!NoTxn
                ELSE [txn[q] EXCEPT !.stale = @ \cup (txn[q].reads \cap MRT!Writes(w))]]
  BY DEF MRT!TxnCommit, MRT!Invalidate
<1>4. ASSUME NEW u \in Writer \ {w}
      PROVE  /\ txn'[u] = [reads |-> txn'[u].reads, stale |-> txn'[u].stale, prov |-> txn'[u].prov]
             /\ txn'[u].prov = txn[u].prov
  <2>1. txn'[u] = [txn[u] EXCEPT !.stale = @ \cup (txn[u].reads \cap MRT!Writes(w))]
    BY <1>3
  <2>2. txn[u] = [reads |-> txn[u].reads, stale |-> txn[u].stale, prov |-> txn[u].prov]
    BY DEF Shape
  <2>3. \A r, s, p, x : LET e == [reads |-> r, stale |-> s, prov |-> p] IN
           [e EXCEPT !.stale = x] = [reads |-> r, stale |-> x, prov |-> p]
    OBVIOUS
  <2>4. txn'[u] = [reads |-> txn[u].reads, stale |-> txn[u].stale \cup (txn[u].reads \cap MRT!Writes(w)),
                   prov |-> txn[u].prov]
    BY <2>1, <2>2, <2>3
  <2>5. QED
    BY <2>4
<1>5. DOMAIN rec' = Key /\ DOMAIN txn' = Writer /\ txn'[w] = MRT!NoTxn
  BY <1>1, <1>3
<1>6. QED
  BY <1>2, <1>4, <1>5

-----------------------------------------------------------------------------
(***************************************************************************)
(* The writers.                                                            *)
(***************************************************************************)
\* A writer's transaction stays right as long as its records stay as they are.
LEMMA AddingKept ==
    ASSUME NEW w \in Writer, Adding(w),
           todo'[w] = todo[w], unwritten'[w] = unwritten[w], unlisted'[w] = unlisted[w],
           txn'[w].prov = txn[w].prov,
           \A k \in MRT!Writes(w) \cap Key : rec'[k] = rec[k],
           \A t \in todo[w] : ~KeyLess(t, done')
    PROVE  Adding(w)'
<1>1. MRT!Writes(w)' = MRT!Writes(w)
  BY DEF MRT!Writes
<1>2. \A b \in BucketIDs : Bucket(b) \in MRT!Writes(w) => rec'[Bucket(b)] = rec[Bucket(b)]
  BY BucketFacts
<1>3. Index \in MRT!Writes(w) => rec'[Index] = rec[Index]
  BY BucketFacts
<1>4. QED
  BY <1>1, <1>2, <1>3, Zenon DEF Adding

\* A command outside any transaction leaves the writers alone.
LEMMA PutKeepsWriters ==
    ASSUME QInv, NEW k \in Key, NEW v, MRT!Put(k, v), UNCHANGED <<adding, done>>
    PROVE  Shape' /\ (\A w \in Writer : Adding(w)') /\ Locks'
<1>1. /\ Shape /\ Locks /\ \A w \in Writer : Adding(w)
      /\ todo' = todo /\ unwritten' = unwritten /\ unlisted' = unlisted /\ done' = done
  BY DEF QInv, adding
<1>2. /\ DOMAIN rec' = Key /\ \A x \in Key \ {k} : rec'[x] = rec[x]
      /\ DOMAIN txn' = Writer
      /\ \A w \in Writer :
            /\ txn'[w] = [reads |-> txn'[w].reads, stale |-> txn'[w].stale, prov |-> txn'[w].prov]
            /\ txn'[w].prov = txn[w].prov
            /\ k \notin MRT!Writes(w)
  BY <1>1, PutEffect, Zenon
<1>3. Shape'
  BY <1>1, <1>2, Zenon DEF Shape
<1>4. ASSUME NEW w \in Writer PROVE Adding(w)'
  <2>1. \A x \in MRT!Writes(w) \cap Key : rec'[x] = rec[x]
    BY <1>2
  <2>2. \A t \in todo[w] : ~KeyLess(t, done')
    BY <1>1 DEF Adding
  <2>3. QED
    BY <1>1, <1>2, <2>1, <2>2, AddingKept, Zenon
<1>5. \A w \in Writer : MRT!Writes(w)' = MRT!Writes(w)
  BY <1>2 DEF MRT!Writes
<1>6. Locks'
  BY <1>1, <1>5 DEF Locks
<1>7. QED
  BY <1>3, <1>4, <1>6

\* What the records hold does not depend on the transactions that are open.
LEMMA RecordsKept ==
    ASSUME Stored, Sweeping, rec' = rec, live' = live, raced' = raced, done' = done, sweep' = sweep
    PROVE  Stored' /\ Sweeping'
BY Zenon DEF Stored, Sweeping, SweptBucket, Completed

\* A request that is accepted has everything to do.
LEMMA AddHistoryTasksStep ==
    ASSUME QInv, NEW w \in Writer, NEW S \in (SUBSET Task) \ {{}}, AreNew(S), AddHistoryTasks(w, S)
    PROVE  QInv'
<1>1. /\ Shape /\ Locks /\ Stored /\ Sweeping /\ \A u \in Writer : Adding(u)
      /\ todo[w] = {}
      /\ todo' = [todo EXCEPT ![w] = S]
      /\ unwritten' = [unwritten EXCEPT ![w] = {bucket(t) : t \in S}]
      /\ rec' = rec /\ txn' = txn /\ unlisted' = unlisted /\ sweep' = sweep
      /\ live' = live /\ raced' = raced /\ done' = done
  BY DEF QInv, AddHistoryTasks
<1>2. /\ todo'[w] = S /\ unwritten'[w] = {bucket(t) : t \in S}
      /\ DOMAIN todo' = Writer /\ DOMAIN unwritten' = Writer
      /\ \A u \in Writer \ {w} : todo'[u] = todo[u] /\ unwritten'[u] = unwritten[u]
  BY <1>1 DEF Shape
<1>3. Shape'
  BY <1>1, <1>2, Zenon DEF Shape
<1>4. Adding(w)'
  <2>1. MRT!Writes(w) = {} /\ unlisted[w] = Nil
    BY <1>1 DEF Adding
  <2>2. MRT!Writes(w)' = {} /\ unlisted'[w] = Nil
    BY <1>1, <2>1 DEF MRT!Writes
  <2>3. {bucket(t) : t \in S} \subseteq BucketIDs /\ S \subseteq Task /\ S # {}
    <3>1. S \subseteq Task /\ S # {}
      OBVIOUS
    <3>2. \A t \in S : bucket(t) \in BucketIDs
      BY <3>1, BucketFacts
    <3>3. QED
      BY <3>1, <3>2
  <2>4. \A t \in S : bucket(t) \in {bucket(s) : s \in S} /\ ~KeyLess(t, done')
    BY <1>1 DEF AreNew
  <2>5. QED
    BY <1>2, <2>2, <2>3, <2>4, Zenon DEF Adding
<1>5. ASSUME NEW u \in Writer \ {w} PROVE Adding(u)'
  <2>1. \A t \in todo[u] : ~KeyLess(t, done')
    BY <1>1 DEF Adding
  <2>2. QED
    BY <1>1, <1>2, <2>1, AddingKept, Zenon
<1>6. Locks'
  BY <1>1 DEF Locks, MRT!Writes
<1>7. Stored' /\ Sweeping'
  BY <1>1, RecordsKept, Zenon
<1>8. QED
  BY <1>3, <1>4, <1>5, <1>6, <1>7, Zenon DEF QInv

\* A write in the transaction of w leaves the other writers and the records
\* alone.
LEMMA TxnWriteKeeps ==
    ASSUME QInv, NEW w \in Writer, NEW k \in Key, NEW v, MRT!TxnWrite(w, k, v),
           todo' = todo, DOMAIN unwritten' = Writer, DOMAIN unlisted' = Writer,
           \A u \in Writer \ {w} : unwritten'[u] = unwritten[u] /\ unlisted'[u] = unlisted[u],
           UNCHANGED <<sweep, live, raced, done>>
    PROVE  Shape' /\ (\A u \in Writer \ {w} : Adding(u)') /\ Locks' /\ Stored' /\ Sweeping'
<1>1. /\ Shape /\ Locks /\ Stored /\ Sweeping /\ \A u \in Writer : Adding(u)
      /\ sweep' = sweep /\ live' = live /\ raced' = raced /\ done' = done
  BY DEF QInv
<1>2. /\ rec' = rec /\ DOMAIN txn' = Writer
      /\ \A u \in Writer \ {w} : txn'[u] = txn[u] /\ k \notin MRT!Writes(u)
      /\ txn'[w] = [reads |-> txn'[w].reads, stale |-> txn'[w].stale, prov |-> txn'[w].prov]
      /\ MRT!Writes(w)' = MRT!Writes(w) \cup {k}
  BY <1>1, WriteEffect, Zenon
<1>3. Shape'
  <2>1. \A u \in Writer :
           txn'[u] = [reads |-> txn'[u].reads, stale |-> txn'[u].stale, prov |-> txn'[u].prov]
    BY <1>1, <1>2, Zenon DEF Shape
  <2>2. QED
    BY <1>1, <1>2, <2>1, Zenon DEF Shape
<1>4. ASSUME NEW u \in Writer \ {w} PROVE Adding(u)'
  <2>1. \A t \in todo[u] : ~KeyLess(t, done')
    BY <1>1 DEF Adding
  <2>2. QED
    BY <1>1, <1>2, <2>1, AddingKept, Zenon
<1>5. \A u \in Writer \ {w} : MRT!Writes(u)' = MRT!Writes(u)
  BY <1>2 DEF MRT!Writes
<1>6. Locks'
  BY <1>1, <1>2, <1>5 DEF Locks
<1>7. Stored' /\ Sweeping'
  BY <1>1, <1>2, RecordsKept, Zenon
<1>8. QED
  BY <1>3, <1>4, <1>6, <1>7

\* Writing a bucket: its committed tasks and the new ones.
LEMMA WriteBucketStep ==
    ASSUME QInv, NEW w \in Writer, NEW b \in unwritten[w], WriteBucket(w, b)
    PROVE  QInv'
<1> DEFINE new == {t \in todo[w] : bucket(t) = b}
           k == Bucket(b)
           v == Entries(MRT!View(w, k)) \cup new
<1>1. /\ Shape /\ Stored /\ Adding(w) /\ unlisted[w] = Nil
      /\ MRT!TxnWrite(w, k, v)
      /\ unwritten' = [unwritten EXCEPT ![w] = @ \ {b}]
      /\ unlisted' = [unlisted EXCEPT ![w] = b]
      /\ todo' = todo /\ sweep' = sweep /\ live' = live /\ raced' = raced /\ done' = done
  BY DEF QInv, WriteBucket
<1>2. b \in BucketIDs /\ k \in Key /\ k # Index
  BY <1>1, BucketFacts, Zenon DEF Adding
<1>3. v = Entries(rec[k]) \cup new
  <2>1. CASE k \in MRT!Writes(w)
    <3>1. MRT!View(w, k) = Entries(rec[k]) \cup new
      BY <1>1, <1>2, <2>1 DEF MRT!View, Adding
    <3>2. Entries(rec[k]) \cup new \in SUBSET Task
      BY <1>1, <1>2, EntriesFacts DEF Stored, Adding
    <3>3. Entries(MRT!View(w, k)) = Entries(rec[k]) \cup new
      BY <3>1, <3>2, EntriesFacts, Zenon
    <3>4. QED
      BY <3>3
  <2>2. CASE k \notin MRT!Writes(w)
    BY <2>2 DEF MRT!View
  <2>3. QED
    BY <2>1, <2>2
<1>4. /\ DOMAIN unwritten' = Writer /\ DOMAIN unlisted' = Writer
      /\ unwritten'[w] = unwritten[w] \ {b} /\ unlisted'[w] = b
      /\ \A u \in Writer \ {w} : unwritten'[u] = unwritten[u] /\ unlisted'[u] = unlisted[u]
  BY <1>1 DEF Shape
<1>5. /\ rec' = rec /\ MRT!Writes(w)' = MRT!Writes(w) \cup {k}
      /\ txn'[w].prov[k] = v
      /\ \A x \in MRT!Writes(w) \ {k} : txn'[w].prov[x] = txn[w].prov[x]
  <2> HIDE DEF v, k
  <2>1. /\ rec' = rec /\ MRT!Writes(w)' = MRT!Writes(w) \cup {k}
        /\ \A x \in MRT!Writes(w) \ {k} : txn'[w].prov[x] = txn[w].prov[x]
    BY <1>1, <1>2, WriteEffect, Zenon
  <2>2. txn'[w].prov[k] = v
    BY <1>1, <1>2, WriteValue, Zenon
  <2>3. QED
    BY <2>1, <2>2
<1>6. Adding(w)'
  <2>1. todo[w] # {}
    BY <1>1 DEF Adding
  <2>2. ASSUME NEW c \in BucketIDs, Bucket(c) \in MRT!Writes(w)'
        PROVE  /\ txn'[w].prov[Bucket(c)] = Entries(rec'[Bucket(c)]) \cup {t \in todo'[w] : bucket(t) = c}
               /\ c = unlisted'[w] \/ (Index \in MRT!Writes(w)' /\ c \in txn'[w].prov[Index])
    <3>1. CASE c = b
      BY <3>1, <1>1, <1>3, <1>4, <1>5, Zenon
    <3>2. CASE c # b
      <4>1. Bucket(c) # k /\ c # Nil
        BY <3>2, <1>2, BucketFacts
      <4>2. Bucket(c) \in MRT!Writes(w)
        BY <2>2, <4>1, <1>5
      <4>3. /\ txn[w].prov[Bucket(c)] = Entries(rec[Bucket(c)]) \cup {t \in todo[w] : bucket(t) = c}
            /\ Index \in MRT!Writes(w) /\ c \in txn[w].prov[Index]
        BY <1>1, <4>1, <4>2 DEF Adding
      <4>4. /\ txn'[w].prov[Bucket(c)] = txn[w].prov[Bucket(c)]
            /\ txn'[w].prov[Index] = txn[w].prov[Index]
        BY <1>2, <1>5, <4>1, <4>2, <4>3
      <4>5. QED
        BY <1>1, <1>5, <4>3, <4>4, Zenon
    <3>3. QED
      BY <3>1, <3>2
  <2>3. ASSUME Index \in MRT!Writes(w)'
        PROVE  /\ Entries(rec'[Index]) \subseteq txn'[w].prov[Index]
               /\ txn'[w].prov[Index] \subseteq BucketIDs
    <3>1. Index \in MRT!Writes(w) /\ txn'[w].prov[Index] = txn[w].prov[Index]
      BY <2>3, <1>2, <1>5
    <3>2. QED
      BY <3>1, <1>1, <1>5 DEF Adding
  <2>4. ASSUME NEW t \in todo'[w]
        PROVE  /\ bucket(t) \in unwritten'[w] \/ Bucket(bucket(t)) \in MRT!Writes(w)'
               /\ ~KeyLess(t, done')
    <3>1. (bucket(t) \in unwritten[w] \/ Bucket(bucket(t)) \in MRT!Writes(w)) /\ ~KeyLess(t, done)
      BY <1>1, <2>4 DEF Adding
    <3>2. bucket(t) = b => Bucket(bucket(t)) = k
      OBVIOUS
    <3>3. QED
      BY <1>1, <1>4, <1>5, <3>1, <3>2
  <2>5. todo'[w] \subseteq Task /\ unwritten'[w] \subseteq BucketIDs /\ todo'[w] # {}
    BY <1>1, <1>4, <2>1 DEF Adding
  <2>6. unlisted'[w] \in BucketIDs \cup {Nil}
    BY <1>2, <1>4
  <2>7. QED
    BY <2>2, <2>3, <2>4, <2>5, <2>6, Zenon DEF Adding
<1>7. Shape' /\ (\A u \in Writer \ {w} : Adding(u)') /\ Locks' /\ Stored' /\ Sweeping'
  <2> HIDE DEF v, k
  <2>1. QED
    BY <1>1, <1>2, <1>4, TxnWriteKeeps, Zenon
<1>8. QED
  BY <1>6, <1>7, Zenon DEF QInv

\* Listing a bucket: the index loses no entry.
LEMMA ListBucketStep ==
    ASSUME QInv, NEW w \in Writer, ListBucket(w)
    PROVE  QInv'
<1> DEFINE b == unlisted[w]
           v == Entries(MRT!View(w, Index)) \cup {b}
<1>1. /\ Shape /\ Stored /\ Adding(w) /\ b # Nil
      /\ MRT!TxnWrite(w, Index, v)
      /\ unlisted' = [unlisted EXCEPT ![w] = Nil]
      /\ todo' = todo /\ unwritten' = unwritten /\ sweep' = sweep /\ live' = live /\ raced' = raced /\ done' = done
  BY DEF QInv, ListBucket
<1>2. b \in BucketIDs /\ Index \in Key /\ todo[w] # {}
  BY <1>1, BucketFacts DEF Adding
<1>3. /\ v \subseteq BucketIDs /\ Entries(rec[Index]) \subseteq v
      /\ Index \in MRT!Writes(w) => txn[w].prov[Index] \subseteq v
  <2>1. CASE Index \in MRT!Writes(w)
    <3>1. /\ MRT!View(w, Index) = txn[w].prov[Index] /\ txn[w].prov[Index] \subseteq BucketIDs
          /\ Entries(rec[Index]) \subseteq txn[w].prov[Index]
      BY <1>1, <2>1 DEF MRT!View, Adding
    <3>2. Entries(MRT!View(w, Index)) = txn[w].prov[Index]
      BY <3>1, EntriesFacts
    <3>3. QED
      BY <3>1, <3>2, <1>2
  <2>2. CASE Index \notin MRT!Writes(w)
    <3>1. MRT!View(w, Index) = rec[Index]
      BY <2>2 DEF MRT!View
    <3>2. Entries(rec[Index]) \subseteq BucketIDs
      BY <1>1, EntriesFacts DEF Stored
    <3>3. QED
      BY <3>1, <3>2, <2>2, <1>2
  <2>3. QED
    BY <2>1, <2>2
<1>4. /\ DOMAIN unlisted' = Writer /\ unlisted'[w] = Nil
      /\ DOMAIN unwritten' = Writer
      /\ \A u \in Writer \ {w} : unwritten'[u] = unwritten[u] /\ unlisted'[u] = unlisted[u]
  BY <1>1 DEF Shape
<1>5. b \in v
  OBVIOUS
<1> HIDE DEF b, v
<1>6. /\ rec' = rec /\ MRT!Writes(w)' = MRT!Writes(w) \cup {Index}
      /\ txn'[w].prov[Index] = v
      /\ \A x \in MRT!Writes(w) \ {Index} : txn'[w].prov[x] = txn[w].prov[x]
  <2>1. /\ rec' = rec /\ MRT!Writes(w)' = MRT!Writes(w) \cup {Index}
        /\ \A x \in MRT!Writes(w) \ {Index} : txn'[w].prov[x] = txn[w].prov[x]
    BY <1>1, <1>2, WriteEffect, Zenon
  <2>2. txn'[w].prov[Index] = v
    BY <1>1, <1>2, WriteValue, Zenon
  <2>3. QED
    BY <2>1, <2>2
<1>7. Adding(w)'
  <2>1. ASSUME NEW c \in BucketIDs, Bucket(c) \in MRT!Writes(w)'
        PROVE  /\ txn'[w].prov[Bucket(c)] = Entries(rec'[Bucket(c)]) \cup {t \in todo'[w] : bucket(t) = c}
               /\ c = unlisted'[w] \/ (Index \in MRT!Writes(w)' /\ c \in txn'[w].prov[Index])
    <3>1. Bucket(c) # Index
      BY BucketFacts
    <3>2. Bucket(c) \in MRT!Writes(w) /\ txn'[w].prov[Bucket(c)] = txn[w].prov[Bucket(c)]
      BY <2>1, <3>1, <1>6
    <3>3. /\ txn[w].prov[Bucket(c)] = Entries(rec[Bucket(c)]) \cup {t \in todo[w] : bucket(t) = c}
          /\ c = b \/ (Index \in MRT!Writes(w) /\ c \in txn[w].prov[Index])
      BY <1>1, <3>2 DEF Adding, b
    <3>4. c \in v
      BY <1>3, <1>5, <3>3
    <3>5. QED
      BY <1>1, <1>6, <3>2, <3>3, <3>4
  <2>2. Entries(rec'[Index]) \subseteq txn'[w].prov[Index] /\ txn'[w].prov[Index] \subseteq BucketIDs
    BY <1>3, <1>6
  <2>3. \A t \in todo'[w] :
           /\ bucket(t) \in unwritten'[w] \/ Bucket(bucket(t)) \in MRT!Writes(w)'
           /\ ~KeyLess(t, done')
    BY <1>1, <1>6 DEF Adding
  <2>4. todo'[w] \subseteq Task /\ unwritten'[w] \subseteq BucketIDs /\ todo'[w] # {}
    BY <1>1, <1>2 DEF Adding
  <2>5. QED
    BY <1>4, <2>1, <2>2, <2>3, <2>4, Zenon DEF Adding
<1>8. Shape' /\ (\A u \in Writer \ {w} : Adding(u)') /\ Locks' /\ Stored' /\ Sweeping'
  BY <1>1, <1>2, <1>4, TxnWriteKeeps, Zenon
<1>9. QED
  BY <1>7, <1>8, Zenon DEF QInv

\* The end of a request leaves its writer idle and the others as they were.
LEMMA EndKeepsWriters ==
    ASSUME QInv, NEW w \in Writer, EndAdd(w), DOMAIN rec' = Key, DOMAIN txn' = Writer,
           txn'[w] = MRT!NoTxn, done' = done,
           \A u \in Writer \ {w} :
              /\ txn'[u] = [reads |-> txn'[u].reads, stale |-> txn'[u].stale, prov |-> txn'[u].prov]
              /\ txn'[u].prov = txn[u].prov
              /\ \A k \in MRT!Writes(u) \cap Key : rec'[k] = rec[k]
    PROVE  Shape' /\ (\A u \in Writer : Adding(u)') /\ Locks'
<1>1. /\ Shape /\ Locks /\ \A u \in Writer : Adding(u)
      /\ todo' = [todo EXCEPT ![w] = {}]
      /\ unwritten' = [unwritten EXCEPT ![w] = {}]
      /\ unlisted' = [unlisted EXCEPT ![w] = Nil]
  BY DEF QInv, EndAdd
<1>2. /\ DOMAIN todo' = Writer /\ DOMAIN unwritten' = Writer /\ DOMAIN unlisted' = Writer
      /\ todo'[w] = {} /\ unwritten'[w] = {} /\ unlisted'[w] = Nil
      /\ \A u \in Writer \ {w} :
            todo'[u] = todo[u] /\ unwritten'[u] = unwritten[u] /\ unlisted'[u] = unlisted[u]
  BY <1>1 DEF Shape
<1>3. txn'[w] = [reads |-> txn'[w].reads, stale |-> txn'[w].stale, prov |-> txn'[w].prov]
  BY NoTxnFacts, Zenon
<1>4. Shape'
  <2>1. \A u \in Writer :
           txn'[u] = [reads |-> txn'[u].reads, stale |-> txn'[u].stale, prov |-> txn'[u].prov]
    BY <1>3
  <2>2. QED
    BY <1>1, <1>2, <2>1, Zenon DEF Shape
<1>5. MRT!Writes(w)' = {}
  BY NoTxnFacts DEF MRT!Writes
<1>6. ASSUME NEW u \in Writer PROVE Adding(u)'
  <2>1. CASE u = w
    <3>1. \A b : Bucket(b) \notin MRT!Writes(u)'
      BY <2>1, <1>5
    <3>2. Index \notin MRT!Writes(u)'
      BY <2>1, <1>5
    <3>3. QED
      BY <2>1, <1>2, <1>5, <3>1, <3>2 DEF Adding
  <2>2. CASE u # w
    <3>1. \A t \in todo[u] : ~KeyLess(t, done')
      BY <1>1 DEF Adding
    <3>2. QED
      BY <1>1, <1>2, <2>2, <3>1, AddingKept, Zenon
  <2>3. QED
    BY <2>1, <2>2
<1>7. \A u \in Writer \ {w} : MRT!Writes(u)' = MRT!Writes(u)
  BY DEF MRT!Writes
<1>8. Locks'
  BY <1>1, <1>5, <1>7 DEF Locks
<1>9. QED
  BY <1>4, <1>6, <1>8

\* A failed request changes no record.
LEMMA AddFailsStep ==
    ASSUME QInv, NEW w \in Writer, AddFails(w)
    PROVE  QInv'
<1>1. /\ Shape /\ Stored /\ Sweeping /\ EndAdd(w)
      /\ txn' = [txn EXCEPT ![w] = MRT!NoTxn] /\ rec' = rec
      /\ sweep' = sweep /\ live' = live /\ raced' = raced /\ done' = done
  BY DEF QInv, AddFails, MRT!TxnAbort
<1>2. DOMAIN rec' = Key /\ DOMAIN txn' = Writer /\ txn'[w] = MRT!NoTxn
  BY <1>1 DEF Shape
<1>3. \A u \in Writer \ {w} :
         /\ txn'[u] = [reads |-> txn'[u].reads, stale |-> txn'[u].stale, prov |-> txn'[u].prov]
         /\ txn'[u].prov = txn[u].prov
         /\ \A k \in MRT!Writes(u) \cap Key : rec'[k] = rec[k]
  <2>1. \A u \in Writer \ {w} : txn'[u] = txn[u]
    BY <1>1 DEF Shape
  <2>2. QED
    BY <1>1, <2>1, Zenon DEF Shape
<1>4. Shape' /\ (\A u \in Writer : Adding(u)') /\ Locks'
  BY <1>1, <1>2, <1>3, EndKeepsWriters, Zenon
<1>5. Stored' /\ Sweeping'
  BY <1>1, RecordsKept, Zenon
<1>6. QED
  BY <1>4, <1>5, Zenon DEF QInv

\* A commit adds the tasks of the request, each to its bucket, and lists the
\* buckets.
LEMMA CommitAddsTasks ==
    ASSUME QInv, NEW w \in Writer, CommitAdd(w)
    PROVE  /\ \A b \in BucketIDs :
                /\ rec'[Bucket(b)] \in (SUBSET Task) \cup {Nil}
                /\ Entries(rec'[Bucket(b)]) = Entries(rec[Bucket(b)]) \cup {t \in todo[w] : bucket(t) = b}
                /\ \A t \in Entries(rec'[Bucket(b)]) : t \in raced \ todo[w] \/ b \in Entries(rec'[Index])
           /\ rec'[Index] \in (SUBSET BucketIDs) \cup {Nil}
<1>1. Shape /\ Stored /\ Adding(w) /\ unwritten[w] = {} /\ unlisted[w] = Nil /\ MRT!TxnCommit(w)
  BY DEF QInv, CommitAdd
<1>2. \A k \in Key : rec'[k] = IF k \in MRT!Writes(w) THEN txn[w].prov[k] ELSE rec[k]
  BY <1>1, CommitTakesEffect, Zenon
<1>3. /\ rec'[Index] \in (SUBSET BucketIDs) \cup {Nil}
      /\ Entries(rec[Index]) \subseteq Entries(rec'[Index])
  <2>1. CASE Index \in MRT!Writes(w)
    <3>1. /\ rec'[Index] = txn[w].prov[Index]
          /\ Entries(rec[Index]) \subseteq txn[w].prov[Index] /\ txn[w].prov[Index] \subseteq BucketIDs
      BY <1>1, <1>2, <2>1, BucketFacts DEF Adding
    <3>2. Entries(rec'[Index]) = txn[w].prov[Index]
      BY <3>1, EntriesFacts
    <3>3. QED
      BY <3>1, <3>2
  <2>2. CASE Index \notin MRT!Writes(w)
    BY <1>1, <1>2, <2>2, BucketFacts DEF Stored
  <2>3. QED
    BY <2>1, <2>2
<1>4. ASSUME NEW b \in BucketIDs
      PROVE  /\ rec'[Bucket(b)] \in (SUBSET Task) \cup {Nil}
             /\ Entries(rec'[Bucket(b)]) = Entries(rec[Bucket(b)]) \cup {t \in todo[w] : bucket(t) = b}
             /\ \A t \in Entries(rec'[Bucket(b)]) : t \in raced \ todo[w] \/ b \in Entries(rec'[Index])
  <2> DEFINE new == {t \in todo[w] : bucket(t) = b}
  <2>1. CASE Bucket(b) \in MRT!Writes(w)
    <3>1. rec'[Bucket(b)] = Entries(rec[Bucket(b)]) \cup new
      BY <1>1, <1>2, <2>1, BucketFacts DEF Adding
    <3>2. Entries(rec[Bucket(b)]) \cup new \subseteq Task
      BY <1>1, EntriesFacts DEF Stored, Adding
    <3>3. Entries(rec'[Bucket(b)]) = Entries(rec[Bucket(b)]) \cup new
      BY <3>1, <3>2, EntriesFacts
    <3>4. b # Nil
      BY BucketFacts
    <3>5. Index \in MRT!Writes(w) /\ b \in txn[w].prov[Index] /\ txn[w].prov[Index] \subseteq BucketIDs
      BY <1>1, <2>1, <3>4 DEF Adding
    <3>6. b \in Entries(rec'[Index])
      BY <1>2, <3>5, BucketFacts, EntriesFacts
    <3>7. QED
      BY <3>1, <3>2, <3>3, <3>6
  <2>2. CASE Bucket(b) \notin MRT!Writes(w)
    <3>1. new = {}
      BY <1>1, <2>2 DEF Adding
    <3>2. rec'[Bucket(b)] = rec[Bucket(b)]
      BY <1>2, <2>2, BucketFacts
    <3>3. \A t \in Entries(rec[Bucket(b)]) : t \notin todo[w]
      BY <1>1, <3>1 DEF Stored
    <3>4. \A t \in Entries(rec[Bucket(b)]) : t \in raced \/ b \in Entries(rec[Index])
      BY <1>1 DEF Stored
    <3>5. rec[Bucket(b)] \in (SUBSET Task) \cup {Nil}
      BY <1>1 DEF Stored
    <3>6. QED
      BY <1>3, <3>1, <3>2, <3>3, <3>4, <3>5
  <2>3. QED
    BY <2>1, <2>2
<1>5. QED
  BY <1>3, <1>4

\* A running range completion is not disturbed: no new task is in its range, and
\* one in a bucket that it is retiring is known as raced.
LEMMA CommitAddStep ==
    ASSUME QInv, NEW w \in Writer, CommitAdd(w)
    PROVE  QInv'
<1>1. /\ Shape /\ Stored /\ Sweeping /\ Locks /\ Adding(w) /\ EndAdd(w) /\ MRT!TxnCommit(w)
      /\ live' = live \cup todo[w] /\ sweep' = sweep /\ done' = done
      /\ raced' = (raced \ todo[w]) \cup {t \in todo[w] : Retiring(bucket(t))}
  BY DEF QInv, CommitAdd
<1>2. /\ DOMAIN rec' = Key /\ DOMAIN txn' = Writer /\ txn'[w] = MRT!NoTxn
      /\ \A k \in Key : rec'[k] = IF k \in MRT!Writes(w) THEN txn[w].prov[k] ELSE rec[k]
      /\ \A u \in Writer \ {w} :
            /\ txn'[u] = [reads |-> txn'[u].reads, stale |-> txn'[u].stale, prov |-> txn'[u].prov]
            /\ txn'[u].prov = txn[u].prov
  BY <1>1, CommitTakesEffect, Zenon
<1>3. \A u \in Writer \ {w} : \A k \in MRT!Writes(u) \cap Key : rec'[k] = rec[k]
  BY <1>1, <1>2 DEF Locks
<1>4. Shape' /\ (\A u \in Writer : Adding(u)') /\ Locks'
  BY <1>1, <1>2, <1>3, EndKeepsWriters, Zenon
<1>5. /\ rec'[Index] \in (SUBSET BucketIDs) \cup {Nil}
      /\ \A b \in BucketIDs :
           /\ rec'[Bucket(b)] \in (SUBSET Task) \cup {Nil}
           /\ Entries(rec'[Bucket(b)]) = Entries(rec[Bucket(b)]) \cup {t \in todo[w] : bucket(t) = b}
           /\ \A t \in Entries(rec'[Bucket(b)]) : t \in raced \ todo[w] \/ b \in Entries(rec'[Index])
  BY CommitAddsTasks, Zenon
<1>6. \A t \in todo[w] : t \in Task /\ bucket(t) \in BucketIDs /\ ~KeyLess(t, done)
  BY <1>1, BucketFacts DEF Adding
<1>7. Stored'
  <2>1. \A b \in BucketIDs : \A t \in Entries(rec'[Bucket(b)]) :
           bucket(t) = b /\ (t \in live' \/ KeyLess(t, done'))
    <3> TAKE b \in BucketIDs
    <3> TAKE t \in Entries(rec'[Bucket(b)])
    <3>1. t \in Entries(rec[Bucket(b)]) \/ (t \in todo[w] /\ bucket(t) = b)
      BY <1>5
    <3>2. CASE t \in Entries(rec[Bucket(b)])
      BY <1>1, <3>2 DEF Stored
    <3>3. QED
      BY <1>1, <3>1, <3>2
  <2>2. \A t \in live' : t \in Task /\ ~KeyLess(t, done')
    BY <1>1, <1>6 DEF Stored
  <2>3. \A t \in live' \ raced' : t \in Entries(rec'[Bucket(bucket(t))])
    <3> TAKE t \in live' \ raced'
    <3>1. t \in Task /\ bucket(t) \in BucketIDs
      BY <2>2, BucketFacts
    <3>2. CASE t \in todo[w]
      BY <1>5, <3>1, <3>2
    <3>3. CASE t \notin todo[w]
      <4>1. t \in live \ raced
        BY <1>1, <3>3
      <4>2. t \in Entries(rec[Bucket(bucket(t))])
        BY <1>1, <4>1 DEF Stored
      <4>3. QED
        BY <1>5, <3>1, <4>2
    <3>4. QED
      BY <3>2, <3>3
  <2>4. \A b \in BucketIDs : \A t \in Entries(rec'[Bucket(b)]) \ raced' : b \in Entries(rec'[Index])
    BY <1>1, <1>5
  <2>5. QED
    BY <1>5, <2>1, <2>2, <2>3, <2>4, Zenon DEF Stored
<1>8. Sweeping'
  <2> SUFFICES ASSUME sweep # Nil PROVE Sweeping'
    BY <1>1 DEF Sweeping
  <2>1. /\ sweep.max \in Bound
        /\ \A t \in Task : KeyLess(t, sweep.max) => KeyLess(t, done)
        /\ sweep.left \subseteq BucketIDs \cap bucketRange(MinKey, sweep.max)
        /\ sweep.step \in {"delete", "unlist"} =>
              sweep.left # {} /\ Entries(rec[Bucket(SweptBucket)]) \subseteq raced
        /\ \A b \in (BucketIDs \cap bucketRange(MinKey, sweep.max)) \ sweep.left :
              Entries(rec[Bucket(b)]) \cap Completed(sweep.max) \subseteq raced
    BY <1>1 DEF Sweeping
  <2>2. \A t \in todo[w] : t \notin Completed(sweep.max)
    BY <1>6, <2>1 DEF Completed
  <2>3. \A b \in (BucketIDs \cap bucketRange(MinKey, sweep.max)) \ sweep.left :
           Entries(rec'[Bucket(b)]) \cap Completed(sweep.max) \subseteq raced'
    <3> TAKE b \in (BucketIDs \cap bucketRange(MinKey, sweep.max)) \ sweep.left
    <3>1. \A t \in Entries(rec'[Bucket(b)]) \cap Completed(sweep.max) :
             t \notin todo[w] /\ t \in Entries(rec[Bucket(b)])
      BY <1>5, <2>2
    <3>2. QED
      BY <1>1, <2>1, <3>1
  <2>4. ASSUME sweep.step \in {"delete", "unlist"} PROVE Entries(rec'[Bucket(SweptBucket)]) \subseteq raced'
    <3>1. sweep.left # {} /\ sweep.left \subseteq Nat /\ sweep.left \subseteq BucketIDs
      BY <2>1, <2>4, BucketFacts, Zenon
    <3>2. SweptBucket \in BucketIDs
      BY <3>1, LeastIsIn, Zenon DEF SweptBucket
    <3> SUFFICES ASSUME NEW t \in Entries(rec'[Bucket(SweptBucket)]) PROVE t \in raced'
      OBVIOUS
    <3>3. t \in Entries(rec[Bucket(SweptBucket)]) \/ (t \in todo[w] /\ bucket(t) = SweptBucket)
      BY <1>5, <3>2
    <3>4. bucket(t) = SweptBucket
      BY <1>1, <3>2, <3>3 DEF Stored
    <3>5. Retiring(bucket(t))
      BY <2>4, <3>4 DEF Retiring
    <3>6. t \in todo[w] \/ t \in raced
      BY <2>1, <2>4, <3>3
    <3>7. QED
      BY <1>1, <3>5, <3>6
  <2>5. SweptBucket' = SweptBucket /\ Completed(sweep'.max) = Completed(sweep.max)
    BY <1>1 DEF SweptBucket
  <2>6. sweep' = [step |-> sweep'.step, left |-> sweep'.left, max |-> sweep'.max]
    BY <1>1 DEF Sweeping
  <2>7. QED
    BY <1>1, <2>1, <2>3, <2>4, <2>5, <2>6, Zenon DEF Sweeping
<1>9. QED
  BY <1>4, <1>7, <1>8, Zenon DEF QInv

-----------------------------------------------------------------------------
(***************************************************************************)
(* The queue processor.                                                    *)
(***************************************************************************)
\* The bucket at the head of a range completion is one of those it has left.
LEMMA SweptIsLeft ==
    ASSUME Sweeping, sweep # Nil, sweep.left # {}
    PROVE  SweptBucket \in sweep.left /\ SweptBucket \in BucketIDs
<1>1. sweep.left \subseteq BucketIDs
  BY DEF Sweeping
<1>2. sweep.left \subseteq Nat
  BY <1>1, BucketFacts, Zenon
<1>3. SweptBucket \in sweep.left
  BY <1>2, LeastIsIn, Zenon DEF SweptBucket
<1>4. QED
  BY <1>1, <1>3

\* No live task is in the range of a range completion.
LEMMA NoLiveTaskInRange ==
    ASSUME OrderIsKept, Stored, Sweeping, sweep # Nil, NEW t \in live
    PROVE  ~InRange(t, MinKey, sweep.max)
<1>1. t \in Task /\ ~KeyLess(t, done)
  BY DEF Stored
<1>2. /\ sweep.max \in Bound
      /\ \A s \in Task : KeyLess(s, sweep.max) => KeyLess(s, done)
  BY DEF Sweeping
<1>3. QED
  BY <1>1, <1>2, RangeIsBelow

\* Taking tasks out of one bucket, with one command: tasks that are completed,
\* or raced ones.
LEMMA TakeOut ==
    ASSUME QInv, NEW b \in BucketIDs, NEW v \in (SUBSET Task) \cup {Nil}, NEW gone,
           MRT!Put(Bucket(b), v), UNCHANGED <<adding, raced, done>>,
           gone \subseteq Entries(rec[Bucket(b)]),
           Entries(v) = Entries(rec[Bucket(b)]) \ gone,
           live' \subseteq live, live \ gone \subseteq live', gone \cap live' \subseteq raced
    PROVE  /\ Shape' /\ (\A w \in Writer : Adding(w)') /\ Locks' /\ Stored'
           /\ \A c \in BucketIDs : Entries(rec'[Bucket(c)]) = Entries(rec[Bucket(c)]) \ gone
<1>1. Shape /\ Stored /\ done' = done /\ raced' = raced /\ UNCHANGED <<adding, done>>
  BY DEF QInv
<1>2. Bucket(b) \in Key /\ Index \in Key /\ Bucket(b) # Index
  BY BucketFacts
<1>3. Shape' /\ (\A w \in Writer : Adding(w)') /\ Locks'
  BY <1>1, <1>2, PutKeepsWriters, Zenon
<1>4. rec'[Bucket(b)] = v /\ \A x \in Key \ {Bucket(b)} : rec'[x] = rec[x]
  BY <1>1, <1>2 DEF MRT!Put, Shape
<1>5. /\ rec'[Index] = rec[Index]
      /\ \A c \in BucketIDs \ {b} : rec'[Bucket(c)] = rec[Bucket(c)]
  BY <1>2, <1>4, BucketFacts
<1>6. \A t \in gone : t \in Task /\ bucket(t) = b
  BY <1>1, EntriesFacts DEF Stored
<1>7. \A c \in BucketIDs : Entries(rec'[Bucket(c)]) = Entries(rec[Bucket(c)]) \ gone
  <2> TAKE c \in BucketIDs
  <2>1. CASE c = b
    BY <1>4, <2>1
  <2>2. CASE c # b
    <3>1. rec'[Bucket(c)] = rec[Bucket(c)]
      BY <1>5, <2>2
    <3>2. \A t \in Entries(rec[Bucket(c)]) : bucket(t) = c
      BY <1>1 DEF Stored
    <3>3. QED
      BY <1>6, <2>2, <3>1, <3>2
  <2>3. QED
    BY <2>1, <2>2
<1>8. Stored'
  <2>1. \A c \in BucketIDs : rec'[Bucket(c)] \in (SUBSET Task) \cup {Nil}
    BY <1>1, <1>4, <1>5, SMTT(30) DEF Stored
  <2>2. \A c \in BucketIDs : \A t \in Entries(rec'[Bucket(c)]) \ raced' : c \in Entries(rec'[Index])
    BY <1>1, <1>5, <1>7, SMTT(30) DEF Stored
  <2>3. \A c \in BucketIDs : \A t \in Entries(rec'[Bucket(c)]) :
           bucket(t) = c /\ (t \in live' \/ KeyLess(t, done'))
    <3> TAKE c \in BucketIDs
    <3> TAKE t \in Entries(rec'[Bucket(c)])
    <3>1. t \in Entries(rec[Bucket(c)]) /\ t \notin gone
      BY <1>7
    <3>2. bucket(t) = c /\ (t \in live \/ KeyLess(t, done))
      BY <1>1, <3>1 DEF Stored
    <3>3. QED
      BY <1>1, <3>1, <3>2
  <2>4. \A t \in live' : t \in Task /\ ~KeyLess(t, done')
    BY <1>1 DEF Stored
  <2>5. \A t \in live' \ raced' : t \in Entries(rec'[Bucket(bucket(t))])
    <3> TAKE t \in live' \ raced'
    <3>1. t \in live \ raced /\ t \notin gone
      BY <1>1
    <3>2. t \in Task /\ t \in Entries(rec[Bucket(bucket(t))])
      BY <1>1, <3>1 DEF Stored
    <3>3. bucket(t) \in BucketIDs
      BY <3>2, BucketFacts
    <3>4. QED
      BY <1>7, <3>1, <3>2, <3>3
  <2>6. QED
    BY <1>1, <1>5, <2>1, <2>2, <2>3, <2>4, <2>5, Zenon DEF Stored
<1>9. QED
  BY <1>3, <1>7, <1>8

\* A range completion is not disturbed by tasks that go.
LEMMA SweepingKept ==
    ASSUME Sweeping, sweep' = sweep, done' = done, raced' = raced,
           \A c \in BucketIDs : Entries(rec'[Bucket(c)]) \subseteq Entries(rec[Bucket(c)])
    PROVE  Sweeping'
<1> SUFFICES ASSUME sweep # Nil PROVE Sweeping'
  BY DEF Sweeping
<1>1. /\ sweep' = [step |-> sweep'.step, left |-> sweep'.left, max |-> sweep'.max]
      /\ sweep.max \in Bound
      /\ \A t \in Task : KeyLess(t, sweep.max) => KeyLess(t, done')
      /\ sweep.left \subseteq BucketIDs \cap bucketRange(MinKey, sweep.max)
  BY Zenon DEF Sweeping
<1>2. \A b \in (BucketIDs \cap bucketRange(MinKey, sweep.max)) \ sweep.left :
         Entries(rec'[Bucket(b)]) \cap Completed(sweep.max) \subseteq raced'
  BY DEF Sweeping
<1>3. ASSUME sweep.step \in {"delete", "unlist"}
      PROVE  sweep.left # {} /\ Entries(rec'[Bucket(SweptBucket)]) \subseteq raced'
  <2>1. sweep.left # {} /\ Entries(rec[Bucket(SweptBucket)]) \subseteq raced
    BY <1>3 DEF Sweeping
  <2>2. SweptBucket \in BucketIDs
    BY <2>1, SweptIsLeft
  <2>3. QED
    BY <2>1, <2>2
<1>4. SweptBucket' = SweptBucket
  BY DEF SweptBucket
<1>5. QED
  BY <1>1, <1>2, <1>3, <1>4, Zenon DEF Sweeping

\* One task is completed.
LEMMA CompleteHistoryTaskStep ==
    ASSUME QInv, NEW t \in Task, CompleteHistoryTask(t)
    PROVE  QInv'
<1> DEFINE b == bucket(t)
           v == rec[Bucket(b)] \ {t}
           gone == {t}
<1>1. /\ Stored /\ Sweeping /\ t \in Entries(rec[Bucket(b)]) /\ MRT!Put(Bucket(b), v)
      /\ live' = live \ gone /\ sweep' = sweep /\ UNCHANGED <<adding, raced, done>>
  BY DEF QInv, CompleteHistoryTask
<1>2. b \in BucketIDs
  BY BucketFacts
<1>3. rec[Bucket(b)] # Nil /\ rec[Bucket(b)] \in SUBSET Task
  <2>1. rec[Bucket(b)] # Nil
    BY <1>1, EntriesFacts
  <2>2. QED
    BY <1>1, <1>2, <2>1 DEF Stored
<1>4. Entries(rec[Bucket(b)]) = rec[Bucket(b)] /\ Entries(v) = v /\ v \in (SUBSET Task) \cup {Nil}
  BY <1>3, EntriesFacts
<1>5. gone \subseteq Entries(rec[Bucket(b)]) /\ Entries(v) = Entries(rec[Bucket(b)]) \ gone
  BY <1>1, <1>4, Zenon
<1> HIDE DEF b, v, gone
<1>0. live' \subseteq live /\ live \ gone \subseteq live' /\ gone \cap live' \subseteq raced
  BY <1>1
<1>6. /\ Shape' /\ (\A w \in Writer : Adding(w)') /\ Locks' /\ Stored'
      /\ \A c \in BucketIDs : Entries(rec'[Bucket(c)]) = Entries(rec[Bucket(c)]) \ gone
  BY <1>0, <1>1, <1>2, <1>4, <1>5, TakeOut, Zenon
<1>7. Sweeping'
  <2>1. \A c \in BucketIDs : Entries(rec'[Bucket(c)]) \subseteq Entries(rec[Bucket(c)])
    BY <1>6
  <2>2. QED
    BY <1>1, <2>1, SweepingKept, Zenon
<1>8. QED
  BY <1>6, <1>7, Zenon DEF QInv

\* A range completion begins: the buckets of its range that are not listed hold
\* nothing but raced tasks.
LEMMA RangeCompleteStep ==
    ASSUME QInv, NEW max \in Bound, IsProcessed(max), RangeCompleteHistoryTasks(max)
    PROVE  QInv'
<1>1. /\ Shape /\ Locks /\ Stored /\ \A w \in Writer : Adding(w)
      /\ sweep' = [step |-> "remove", left |-> populatedBuckets(0, max), max |-> max]
      /\ live' = live \ Completed(max)
      /\ done' = IF KeyLess(done, max) THEN max ELSE done
      /\ raced' = raced /\ rec' = rec /\ txn' = txn /\ todo' = todo /\ unwritten' = unwritten /\ unlisted' = unlisted
  BY DEF QInv, RangeCompleteHistoryTasks, adding
<1>2. Task \subseteq TaskKey /\ max \in TaskKey /\ done \in TaskKey
  BY <1>1, TasksAssumption DEF Shape, MinKey, TaskKey
<1>3. done' \in Bound \cup {MinKey}
  BY <1>1 DEF Shape
<1>4. \A t \in Task : KeyLess(t, done') <=> KeyLess(t, done) \/ KeyLess(t, max)
  <2> TAKE t \in Task
  <2>0. t \in TaskKey
    BY <1>2
  <2>1. CASE KeyLess(done, max)
    <3>1. KeyLess(t, done) => KeyLess(t, max)
      BY <2>0, <2>1, <1>2, OrderFacts
    <3>2. QED
      BY <2>1, <3>1, <1>1
  <2>2. CASE ~KeyLess(done, max)
    <3>1. KeyLess(t, max) => KeyLess(t, done)
      BY <2>0, <2>2, <1>2, OrderFacts
    <3>2. QED
      BY <2>2, <3>1, <1>1
  <2>3. QED
    BY <2>1, <2>2
<1>5. Shape'
  BY <1>1, <1>3, Zenon DEF Shape
<1>6. ASSUME NEW w \in Writer PROVE Adding(w)'
  <2>1. \A t \in todo[w] : t \in Task /\ ~KeyLess(t, done) /\ ~KeyLess(t, max)
    BY <1>1 DEF Adding, IsProcessed, Completed
  <2>2. \A t \in todo[w] : ~KeyLess(t, done')
    BY <1>4, <2>1
  <2>3. QED
    BY <1>1, <2>2, AddingKept, Zenon
<1>7. Locks'
  BY <1>1 DEF Locks, MRT!Writes
<1>8. Stored'
  <2>1. \A b \in BucketIDs : \A t \in Entries(rec[Bucket(b)]) :
           bucket(t) = b /\ (t \in live' \/ KeyLess(t, done'))
    <3> TAKE b \in BucketIDs
    <3> TAKE t \in Entries(rec[Bucket(b)])
    <3>1. t \in Task /\ bucket(t) = b /\ (t \in live \/ KeyLess(t, done))
      BY <1>1, EntriesFacts DEF Stored
    <3>2. QED
      BY <1>1, <1>4, <3>1 DEF Completed
  <2>2. \A t \in live' : t \in Task /\ ~KeyLess(t, done')
    <3> TAKE t \in live'
    <3>1. t \in live /\ ~(t \in Task /\ KeyLess(t, max))
      BY <1>1 DEF Completed
    <3>2. t \in Task /\ ~KeyLess(t, done)
      BY <1>1, <3>1 DEF Stored
    <3>3. QED
      BY <1>4, <3>1, <3>2
  <2>3. \A t \in live' \ raced' : t \in Entries(rec[Bucket(bucket(t))])
    BY <1>1 DEF Stored
  <2>4. QED
    BY <1>1, <2>1, <2>2, <2>3, Zenon DEF Stored
<1>9. Sweeping'
  <2>1. /\ sweep' = [step |-> sweep'.step, left |-> sweep'.left, max |-> sweep'.max]
        /\ sweep'.step = "remove" /\ sweep'.left = populatedBuckets(0, max) /\ sweep'.max = max
    BY <1>1, SMTT(30)
  <2>2. Entries(rec[Index]) \subseteq BucketIDs
    BY <1>1, EntriesFacts DEF Stored
  <2>3. populatedBuckets(0, max) \subseteq BucketIDs \cap bucketRange(MinKey, max)
    BY <2>2 DEF populatedBuckets
  <2>4. \A b \in (BucketIDs \cap bucketRange(MinKey, max)) \ populatedBuckets(0, max) :
           Entries(rec[Bucket(b)]) \cap Completed(max) \subseteq raced
    <3> TAKE b \in (BucketIDs \cap bucketRange(MinKey, max)) \ populatedBuckets(0, max)
    <3>1. b \in BucketIDs /\ b >= 0
      BY BucketFacts
    <3>2. b \notin Entries(rec[Index])
      BY <3>1, SMTT(30) DEF populatedBuckets
    <3>3. QED
      BY <1>1, <3>1, <3>2 DEF Stored
  <2>5. ~("remove" \in {"delete", "unlist"})
    OBVIOUS
  <2>6. \A t \in Task : KeyLess(t, max) => KeyLess(t, done')
    BY <1>4
  <2>7. QED
    BY <1>1, <2>1, <2>3, <2>4, <2>5, <2>6, Zenon DEF Sweeping
<1>10. QED
  BY <1>5, <1>6, <1>7, <1>8, <1>9, Zenon DEF QInv

\* A range completion goes on with the next bucket once the one before holds
\* nothing of its range.
LEMMA NextBucketStep ==
    ASSUME Sweeping, sweep # Nil, sweep.left # {}, NextBucket, done' = done, raced' = raced,
           \A c \in BucketIDs : Entries(rec'[Bucket(c)]) \subseteq Entries(rec[Bucket(c)]),
           Entries(rec'[Bucket(SweptBucket)]) \cap Completed(sweep.max) \subseteq raced
    PROVE  Sweeping'
<1>1. /\ sweep = [step |-> sweep.step, left |-> sweep.left, max |-> sweep.max]
      /\ sweep.max \in Bound
      /\ \A t \in Task : KeyLess(t, sweep.max) => KeyLess(t, done')
      /\ sweep.left \subseteq BucketIDs \cap bucketRange(MinKey, sweep.max)
      /\ \A b \in (BucketIDs \cap bucketRange(MinKey, sweep.max)) \ sweep.left :
            Entries(rec[Bucket(b)]) \cap Completed(sweep.max) \subseteq raced
  BY DEF Sweeping
<1> DEFINE left == sweep.left \ {SweptBucket}
<1>2. sweep' = [sweep EXCEPT !.step = "remove", !.left = left]
  BY DEF NextBucket
<1>3. left \subseteq BucketIDs \cap bucketRange(MinKey, sweep.max)
  BY <1>1
<1>4. \A b \in (BucketIDs \cap bucketRange(MinKey, sweep.max)) \ left :
         Entries(rec'[Bucket(b)]) \cap Completed(sweep.max) \subseteq raced'
  <2> TAKE b \in (BucketIDs \cap bucketRange(MinKey, sweep.max)) \ left
  <2>1. CASE b = SweptBucket
    BY <2>1
  <2>2. CASE b # SweptBucket
    BY <1>1, <2>2
  <2>3. QED
    BY <2>1, <2>2
<1> HIDE DEF left
<1>5. sweep' = [step |-> "remove", left |-> left, max |-> sweep.max]
  BY <1>1, <1>2, Zenon
<1>6. /\ sweep' = [step |-> sweep'.step, left |-> sweep'.left, max |-> sweep'.max]
      /\ sweep'.left = left /\ sweep'.max = sweep.max /\ ~(sweep'.step \in {"delete", "unlist"})
  BY <1>5
<1>7. QED
  BY <1>1, <1>3, <1>4, <1>6, Zenon DEF Sweeping

\* The command that empties a bucket of its range: nothing live is in it.
LEMMA RemoveRangeStep ==
    ASSUME OrderIsKept, QInv, RemoveRange
    PROVE  QInv'
<1> DEFINE b == SweptBucket
           old == Entries(rec[Bucket(b)])
           rest == {t \in old : ~InRange(t, MinKey, sweep.max)}
           gone == {t \in old : InRange(t, MinKey, sweep.max)}
<1>1. /\ Shape /\ Locks /\ Stored /\ Sweeping /\ \A w \in Writer : Adding(w)
      /\ sweep # Nil /\ sweep.left # {}
      /\ \/ rec[Bucket(b)] = Nil /\ NextBucket /\ rec' = rec /\ txn' = txn
         \/ /\ rec[Bucket(b)] # Nil
            /\ MRT!Put(Bucket(b), rest)
            /\ IF rest = {} THEN sweep' = [sweep EXCEPT !.step = "delete"] ELSE NextBucket
      /\ todo' = todo /\ unwritten' = unwritten /\ unlisted' = unlisted /\ UNCHANGED <<adding, raced, done>>
      /\ live' = live /\ raced' = raced /\ done' = done
  BY DEF QInv, RemoveRange, adding
<1>2. b \in sweep.left /\ b \in BucketIDs
  BY <1>1, SweptIsLeft
<1>3. old \subseteq Task /\ sweep.max \in Bound
  BY <1>1, <1>2, EntriesFacts DEF Stored, Sweeping
<1>4. rest \cap Completed(sweep.max) = {}
  BY <1>3, RangeIsBelow DEF Completed
<1>5. CASE rec[Bucket(b)] = Nil /\ NextBucket /\ rec' = rec /\ txn' = txn
  <2>1. Entries(rec'[Bucket(SweptBucket)]) = {}
    BY <1>5, EntriesFacts
  <2>2. \A c \in BucketIDs : Entries(rec'[Bucket(c)]) \subseteq Entries(rec[Bucket(c)])
    BY <1>5
  <2>3. Entries(rec'[Bucket(SweptBucket)]) \cap Completed(sweep.max) \subseteq raced
    BY <2>1
  <2>4. Sweeping'
    BY <1>1, <1>5, <2>2, <2>3, NextBucketStep, Zenon
  <2>5. Stored'
    BY <1>1, <1>5, Zenon DEF Stored
  <2>6. Shape'
    BY <1>1, <1>5, Zenon DEF Shape
  <2>7. Locks'
    BY <1>1, <1>5 DEF Locks, MRT!Writes
  <2>8. ASSUME NEW w \in Writer PROVE Adding(w)'
    <3>1. \A t \in todo[w] : ~KeyLess(t, done')
      BY <1>1 DEF Adding
    <3>2. QED
      BY <1>1, <1>5, <3>1, AddingKept, Zenon
  <2>9. QED
    BY <2>4, <2>5, <2>6, <2>7, <2>8, Zenon DEF QInv
<1>6. CASE /\ MRT!Put(Bucket(b), rest)
           /\ IF rest = {} THEN sweep' = [sweep EXCEPT !.step = "delete"] ELSE NextBucket
  <2>1. rest \in (SUBSET Task) \cup {Nil} /\ Entries(rest) = rest
    BY <1>3, EntriesFacts
  <2>2. gone \subseteq old /\ Entries(rest) = old \ gone
    BY <2>1
  <2>3. live' \subseteq live /\ live \ gone \subseteq live' /\ gone \cap live' \subseteq raced
    BY <1>1, NoLiveTaskInRange
  <2>4. rest = {} \/ rest # {}
    OBVIOUS
  <2> HIDE DEF b, old, rest, gone
  <2>5. /\ Shape' /\ (\A w \in Writer : Adding(w)') /\ Locks' /\ Stored'
        /\ \A c \in BucketIDs : Entries(rec'[Bucket(c)]) = Entries(rec[Bucket(c)]) \ gone
    BY <1>1, <1>2, <1>6, <2>1, <2>2, <2>3, TakeOut, Zenon DEF old
  <2>6. \A c \in BucketIDs : Entries(rec'[Bucket(c)]) \subseteq Entries(rec[Bucket(c)])
    BY <2>5
  <2>7. Entries(rec'[Bucket(b)]) = rest
    BY <1>2, <2>1, <2>2, <2>5 DEF old
  <2>8. Sweeping'
    <3>1. CASE rest = {} /\ sweep' = [sweep EXCEPT !.step = "delete"]
      <4>1. /\ sweep = [step |-> sweep.step, left |-> sweep.left, max |-> sweep.max]
            /\ sweep.max \in Bound
            /\ \A t \in Task : KeyLess(t, sweep.max) => KeyLess(t, done')
            /\ sweep.left \subseteq BucketIDs \cap bucketRange(MinKey, sweep.max)
        BY <1>1, Zenon DEF Sweeping
      <4>2. \A c \in (BucketIDs \cap bucketRange(MinKey, sweep.max)) \ sweep.left :
               Entries(rec'[Bucket(c)]) \cap Completed(sweep.max) \subseteq raced'
        BY <1>1, <2>6 DEF Sweeping
      <4>3. sweep' = [step |-> "delete", left |-> sweep.left, max |-> sweep.max]
        BY <3>1, <4>1
      <4>4. /\ sweep' = [step |-> sweep'.step, left |-> sweep'.left, max |-> sweep'.max]
            /\ sweep'.left = sweep.left /\ sweep'.max = sweep.max
        BY <4>3
      <4>5. SweptBucket' = b
        BY <4>4 DEF SweptBucket, b
      <4>6. sweep'.left # {} /\ Entries(rec'[Bucket(SweptBucket')]) \subseteq raced'
        BY <1>1, <2>7, <3>1, <4>4, <4>5
      <4>7. QED
        BY <4>1, <4>2, <4>4, <4>6, Zenon DEF Sweeping
    <3>2. CASE NextBucket
      <4>1. Entries(rec'[Bucket(SweptBucket)]) \cap Completed(sweep.max) \subseteq raced
        BY <1>4, <2>7 DEF b
      <4>2. QED
        BY <1>1, <2>6, <3>2, <4>1, NextBucketStep, Zenon
    <3>3. QED
      BY <1>6, <3>1, <3>2
  <2>9. QED
    BY <2>5, <2>8, Zenon DEF QInv
<1>7. QED
  BY <1>1, <1>5, <1>6

\* Retiring a bucket deletes a record that holds raced tasks at most.
LEMMA DeleteBucketStep ==
    ASSUME QInv, DeleteBucket
    PROVE  QInv'
<1>1. /\ Stored /\ Sweeping /\ sweep # Nil /\ sweep.step = "delete"
      /\ MRT!Put(Bucket(SweptBucket), Nil)
      /\ sweep' = [sweep EXCEPT !.step = "unlist"]
      /\ live' = live /\ UNCHANGED <<adding, raced, done>>
  BY DEF QInv, DeleteBucket
<1>2. sweep.left # {} /\ Entries(rec[Bucket(SweptBucket)]) \subseteq raced
  BY <1>1 DEF Sweeping
<1>3. SweptBucket \in BucketIDs
  BY <1>1, <1>2, SweptIsLeft
<1> DEFINE b == SweptBucket
           gone == Entries(rec[Bucket(b)])
<1>4. /\ Nil \in (SUBSET Task) \cup {Nil} /\ gone \subseteq Entries(rec[Bucket(b)])
      /\ Entries(Nil) = Entries(rec[Bucket(b)]) \ gone
      /\ live' \subseteq live /\ live \ gone \subseteq live' /\ gone \cap live' \subseteq raced
  BY <1>1, <1>2, EntriesFacts
<1>5. b \in BucketIDs /\ MRT!Put(Bucket(b), Nil)
  BY <1>1, <1>3
<1> HIDE DEF b, gone
<1>6. /\ Shape' /\ (\A w \in Writer : Adding(w)') /\ Locks' /\ Stored'
      /\ \A c \in BucketIDs : Entries(rec'[Bucket(c)]) = Entries(rec[Bucket(c)]) \ gone
  BY <1>1, <1>4, <1>5, TakeOut, Zenon
<1>7. \A c \in BucketIDs : Entries(rec'[Bucket(c)]) \subseteq Entries(rec[Bucket(c)])
  BY <1>6
<1>8. Sweeping'
  <2>1. /\ sweep = [step |-> sweep.step, left |-> sweep.left, max |-> sweep.max]
        /\ sweep.max \in Bound
        /\ \A t \in Task : KeyLess(t, sweep.max) => KeyLess(t, done')
        /\ sweep.left \subseteq BucketIDs \cap bucketRange(MinKey, sweep.max)
    BY <1>1, Zenon DEF Sweeping
  <2>2. \A c \in (BucketIDs \cap bucketRange(MinKey, sweep.max)) \ sweep.left :
           Entries(rec'[Bucket(c)]) \cap Completed(sweep.max) \subseteq raced'
    BY <1>1, <1>7 DEF Sweeping
  <2>3. sweep' = [step |-> "unlist", left |-> sweep.left, max |-> sweep.max]
    BY <1>1, <2>1
  <2>4. /\ sweep' = [step |-> sweep'.step, left |-> sweep'.left, max |-> sweep'.max]
        /\ sweep'.left = sweep.left /\ sweep'.max = sweep.max
    BY <2>3
  <2>5. SweptBucket' = SweptBucket
    BY <2>4 DEF SweptBucket
  <2>6. sweep'.left # {} /\ Entries(rec'[Bucket(SweptBucket')]) \subseteq raced'
    BY <1>1, <1>2, <1>3, <1>7, <2>4, <2>5
  <2>7. QED
    BY <2>1, <2>2, <2>4, <2>6, Zenon DEF Sweeping
<1>9. QED
  BY <1>6, <1>8, Zenon DEF QInv

\* The index forgets a bucket that holds raced tasks at most.
LEMMA UnlistBucketStep ==
    ASSUME QInv, UnlistBucket
    PROVE  QInv'
<1> DEFINE v == Entries(rec[Index]) \ {SweptBucket}
<1>1. /\ Shape /\ Stored /\ Sweeping /\ sweep # Nil /\ sweep.step = "unlist"
      /\ MRT!Put(Index, v) /\ NextBucket
      /\ live' = live /\ UNCHANGED <<adding, done>> /\ raced' = raced /\ done' = done
  BY DEF QInv, UnlistBucket
<1>2. sweep.left # {} /\ Entries(rec[Bucket(SweptBucket)]) \subseteq raced
  BY <1>1 DEF Sweeping
<1>3. Index \in Key /\ SweptBucket \in BucketIDs
  BY <1>1, <1>2, BucketFacts, SweptIsLeft
<1>4. Shape' /\ (\A w \in Writer : Adding(w)') /\ Locks'
  <2> HIDE DEF v
  <2>1. QED
    BY <1>1, <1>3, PutKeepsWriters, Zenon
<1>5. rec'[Index] = v /\ \A b \in BucketIDs : rec'[Bucket(b)] = rec[Bucket(b)]
  BY <1>1, <1>3, BucketFacts, SMTT(30) DEF MRT!Put, Shape
<1>6. v \subseteq BucketIDs /\ Entries(v) = v
  BY <1>1, EntriesFacts DEF Stored
<1>7. Stored'
  <2>1. \A b \in BucketIDs : \A t \in Entries(rec'[Bucket(b)]) \ raced' : b \in Entries(rec'[Index])
    BY <1>1, <1>2, <1>5, <1>6 DEF Stored
  <2>2. rec'[Index] \in (SUBSET BucketIDs) \cup {Nil}
    BY <1>5, <1>6
  <2>3. /\ \A t \in live' : t \in Task /\ ~KeyLess(t, done')
        /\ \A t \in live' \ raced' : t \in Entries(rec'[Bucket(bucket(t))])
    <3>1. \A t \in live' : t \in Task /\ ~KeyLess(t, done')
      BY <1>1 DEF Stored
    <3>2. \A t \in live' \ raced' : t \in Entries(rec[Bucket(bucket(t))])
      BY <1>1 DEF Stored
    <3>3. QED
      BY <1>5, <3>1, <3>2, BucketFacts
  <2>4. /\ \A b \in BucketIDs : rec'[Bucket(b)] \in (SUBSET Task) \cup {Nil}
        /\ \A b \in BucketIDs : \A t \in Entries(rec'[Bucket(b)]) :
              bucket(t) = b /\ (t \in live' \/ KeyLess(t, done'))
    BY <1>1, <1>5 DEF Stored
  <2>5. QED
    BY <2>1, <2>2, <2>3, <2>4, Zenon DEF Stored
<1>8. Sweeping'
  <2>1. \A c \in BucketIDs : Entries(rec'[Bucket(c)]) \subseteq Entries(rec[Bucket(c)])
    BY <1>5
  <2>2. Entries(rec'[Bucket(SweptBucket)]) \cap Completed(sweep.max) \subseteq raced
    BY <1>2, <1>3, <1>5
  <2>3. QED
    BY <1>1, <1>2, <2>1, <2>2, NextBucketStep, Zenon
<1>9. QED
  BY <1>4, <1>7, <1>8, Zenon DEF QInv

-----------------------------------------------------------------------------
(***************************************************************************)
(* The theorems.                                                           *)
(***************************************************************************)
\* An empty queue satisfies the invariant.
LEMMA QueueInit == Init => QInv
<1> SUFFICES ASSUME Init PROVE QInv
  OBVIOUS
<1>1. /\ rec = [k \in Key |-> Nil] /\ txn = [p \in Writer |-> MRT!NoTxn]
      /\ todo = [w \in Writer |-> {}] /\ unwritten = [w \in Writer |-> {}]
      /\ unlisted = [w \in Writer |-> Nil] /\ sweep = Nil /\ live = {} /\ raced = {} /\ done = MinKey
  BY DEF Init, MRT!MRTInit
<1>2. \A w \in Writer : txn[w] = MRT!NoTxn /\ todo[w] = {} /\ unwritten[w] = {} /\ unlisted[w] = Nil
  BY <1>1
<1>3. \A w \in Writer : MRT!Writes(w) = {}
  BY <1>2, NoTxnFacts DEF MRT!Writes
<1>4. Shape
  <2>1. \A w \in Writer :
           txn[w] = [reads |-> txn[w].reads, stale |-> txn[w].stale, prov |-> txn[w].prov]
    BY <1>2, NoTxnFacts, Zenon
  <2>2. /\ DOMAIN rec = Key /\ DOMAIN txn = Writer /\ DOMAIN todo = Writer
        /\ DOMAIN unwritten = Writer /\ DOMAIN unlisted = Writer /\ done \in Bound \cup {MinKey}
    BY <1>1, SMTT(30)
  <2>3. QED
    BY <2>1, <2>2, Zenon DEF Shape
<1>5. ASSUME NEW w \in Writer PROVE Adding(w)
  <2>1. \A b : Bucket(b) \notin MRT!Writes(w)
    BY <1>3
  <2>2. Index \notin MRT!Writes(w)
    BY <1>3
  <2>3. QED
    BY <1>2, <1>3, <2>1, <2>2 DEF Adding
<1>6. Locks
  BY <1>3 DEF Locks
<1>7. Stored
  <2>1. rec[Index] = Nil /\ \A b \in BucketIDs : rec[Bucket(b)] = Nil
    BY <1>1, BucketFacts
  <2>2. \A b \in BucketIDs : Entries(rec[Bucket(b)]) = {}
    BY <2>1, EntriesFacts
  <2>3. QED
    BY <1>1, <2>1, <2>2 DEF Stored
<1>8. QED
  BY <1>1, <1>4, <1>5, <1>6, <1>7 DEF QInv, Sweeping

\* Every step keeps the invariant.
LEMMA QueueNext ==
    ASSUME OrderIsKept, QInv, [Next]_vars
    PROVE  QInv'
<1>1. ASSUME NEW w \in Writer, NEW S \in (SUBSET Task) \ {{}}, AreNew(S), AddHistoryTasks(w, S) PROVE QInv'
  BY <1>1, AddHistoryTasksStep, Zenon
<1>2. ASSUME NEW w \in Writer, NEW b \in unwritten[w], WriteBucket(w, b) PROVE QInv'
  BY <1>2, WriteBucketStep, Zenon
<1>3. ASSUME NEW w \in Writer, ListBucket(w) PROVE QInv'
  BY <1>3, ListBucketStep, Zenon
<1>4. ASSUME NEW w \in Writer, CommitAdd(w) PROVE QInv'
  BY <1>4, CommitAddStep, Zenon
<1>5. ASSUME NEW w \in Writer, AddFails(w) PROVE QInv'
  BY <1>5, AddFailsStep, Zenon
<1>6. ASSUME NEW t \in Task, CompleteHistoryTask(t) PROVE QInv'
  BY <1>6, CompleteHistoryTaskStep, Zenon
<1>7. ASSUME NEW max \in Bound, IsProcessed(max), RangeCompleteHistoryTasks(max) PROVE QInv'
  BY <1>7, RangeCompleteStep, Zenon
<1>8. CASE RemoveRange
  BY <1>8, RemoveRangeStep, Zenon
<1>9. CASE DeleteBucket
  BY <1>9, DeleteBucketStep, Zenon
<1>10. CASE UnlistBucket
  BY <1>10, UnlistBucketStep, Zenon
<1>11. CASE (sweep' = Nil \/ sweep' = sweep) /\ UNCHANGED <<rec, txn, adding, live, raced, done>>
  <2>1. /\ rec' = rec /\ txn' = txn /\ todo' = todo /\ unwritten' = unwritten /\ unlisted' = unlisted
        /\ live' = live /\ raced' = raced /\ done' = done
        /\ Shape /\ Locks /\ Stored /\ Sweeping /\ \A w \in Writer : Adding(w)
    BY <1>11 DEF adding, QInv
  <2>2. Shape'
    BY <2>1, Zenon DEF Shape
  <2>3. Locks'
    BY <2>1 DEF Locks, MRT!Writes
  <2>4. Stored'
    BY <2>1, Zenon DEF Stored
  <2>5. ASSUME NEW w \in Writer PROVE Adding(w)'
    <3>1. \A t \in todo[w] : ~KeyLess(t, done')
      BY <2>1 DEF Adding
    <3>2. QED
      BY <2>1, <3>1, AddingKept, Zenon
  <2>6. Sweeping'
    <3>1. CASE sweep' = Nil
      BY <3>1 DEF Sweeping
    <3>2. CASE sweep' = sweep
      BY <2>1, <3>2, RecordsKept, Zenon
    <3>3. QED
      BY <1>11, <3>1, <3>2
  <2>7. QED
    BY <2>2, <2>3, <2>4, <2>5, <2>6, Zenon DEF QInv
<1>12. SweepEnds \/ SweepFails =>
          (sweep' = Nil \/ sweep' = sweep) /\ UNCHANGED <<rec, txn, adding, live, raced, done>>
  BY DEF SweepEnds, SweepFails
<1>13. UNCHANGED vars =>
          (sweep' = Nil \/ sweep' = sweep) /\ UNCHANGED <<rec, txn, adding, live, raced, done>>
  BY DEF vars
<1>14. QED
  BY <1>1, <1>2, <1>3, <1>4, <1>5, <1>6, <1>7, <1>8, <1>9, <1>10, <1>11, <1>12, <1>13, Zenon DEF Next

\* AddHistoryTasks, RangeCompleteHistoryTasks: a task that was added and not
\* completed stays in its bucket, and its bucket stays listed, while writers and
\* completions of any ranges run beside one another, unless it was committed to a
\* bucket that a completion had found empty and was retiring.
THEOREM ReachableTheorem ==
    ASSUME OrderIsKept
    PROVE  Spec => []OnlyRacedTasksAreLost
<1>1. QInv => OnlyRacedTasksAreLost
  <2> SUFFICES ASSUME QInv, NEW t \in live \ raced PROVE Reachable(t)
    BY DEF OnlyRacedTasksAreLost
  <2>1. t \in Task /\ t \in Entries(rec[Bucket(bucket(t))])
    BY DEF QInv, Stored
  <2>2. bucket(t) \in BucketIDs
    BY <2>1, BucketFacts
  <2>3. bucket(t) \in Entries(rec[Index])
    BY <2>1, <2>2 DEF QInv, Stored
  <2>4. QED
    BY <2>1, <2>3 DEF Reachable
<1>2. QInv /\ [Next]_vars => QInv'
  BY QueueNext
<1>3. QED
  BY QueueInit, <1>1, <1>2, PTL DEF Spec

\* AddHistoryTasks, RangeCompleteHistoryTasks: no task of a failed request is
\* stored, and a range completion of any range that returns without an error has
\* emptied the buckets of its range of all its tasks but such ones.
THEOREM NoStrayTheorem ==
    ASSUME OrderIsKept
    PROVE  Spec => []NoStrayTasks
<1>1. QInv => NoStrayTasks
  BY Zenon DEF QInv, Stored, Sweeping, NoStrayTasks
<1>2. QInv /\ [Next]_vars => QInv'
  BY QueueNext
<1>3. QED
  BY QueueInit, <1>1, <1>2, PTL DEF Spec
=============================================================================
