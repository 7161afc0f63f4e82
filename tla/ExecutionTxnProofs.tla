-------------------------- MODULE ExecutionTxnProofs --------------------------
(***************************************************************************)
(* The shard lease fences the execution store: for any number of hosts,    *)
(* threads, runs and requests, no transaction that carries an old range id *)
(* changes a record after the shard has been taken over.                   *)
(*                                                                         *)
(* The argument: the first command of every operation reads the lease, so  *)
(* the shard record is in the read set; renewing the lease makes every     *)
(* such read stale; a transaction with a stale read does not commit; and   *)
(* only a commit changes a record that is locked.                          *)
(***************************************************************************)
EXTENDS ExecutionTxn, TLAPS

Arg == (UNION {RecordType(k) : k \in Key}) \cup SUBSET (Pointer \cup Execution \cup {Nil})

\* The commands that may follow the read of the lease.
OtherCommand ==
    {c \in [cmd : {"check", "put", "add"}, key : Key \ {Shard}, arg : Arg] :
        /\ c.cmd = "put" => c.arg \in RecordType(c.key)
        /\ c.cmd = "add" => c.arg \in RecordType(c.key) /\ c.key.set \in {"htask", "histbranch"}}

-----------------------------------------------------------------------------
\* The keys of the model are distinct records with the types they should have.
LEMMA KeyFacts ==
    /\ Shard \in Key /\ Current \in Key \ {Shard} /\ TaskMap \in Key \ {Shard}
    /\ \A r \in Run : Exec(r) \in Key \ {Shard} /\ Branch(r) \in Key \ {Shard}
    /\ RecordType(Shard) = RangeID
    /\ RecordType(Current) = Pointer
    /\ RecordType(TaskMap) = SUBSET (Run \X DBVersion)
    /\ \A r \in Run : RecordType(Exec(r)) = Execution /\ RecordType(Branch(r)) = SUBSET (Run \X EventID)
    /\ TaskMap.set = "htask"
    /\ \A r \in Run : Branch(r).set = "histbranch"
BY Zenon DEF Key, Shard, Current, TaskMap, Exec, Branch, Rec, RecordType

\* What a request writes for a run has the type of the record it goes to.
LEMMA SnapshotFacts ==
    ASSUME NEW s \in Snapshot
    PROVE  /\ s # Nil /\ s.run \in Run
           /\ ExecutionOf(s) \in Execution /\ PointerTo(s) \in Pointer
           /\ {TaskOf(s)} \in SUBSET (Run \X DBVersion)
           /\ {EventsOf(s)} \in SUBSET (Run \X EventID)
BY ConstantsAssumption DEF Snapshot, ExecutionOf, PointerTo, Execution, Pointer, TaskOf, EventsOf

\* The single commands are of the expected kind.
LEMMA SingleCommands ==
    /\ \A V \in SUBSET (Pointer \cup {Nil}) : Check(Current, V) \in OtherCommand
    /\ \A c \in Pointer : putCurrent(c) \in OtherCommand
    /\ \A s \in Snapshot :
          /\ assertNotCurrent(s.run) \in OtherCommand
          /\ assertExecutionCondition(s) \in OtherCommand
          /\ assertNotExists(s) \in OtherCommand
          /\ putExecution(s) \in OtherCommand
          /\ writeTasks(s) \in OtherCommand
          /\ appendEvents(s) \in OtherCommand
<1>1. \A k \in Key \ {Shard}, V \in SUBSET (Pointer \cup Execution \cup {Nil}) : Check(k, V) \in OtherCommand
  BY DEF OtherCommand, Check, Arg
<1>2. \A k \in Key \ {Shard} : \A v \in RecordType(k) : Write(k, v) \in OtherCommand
  BY DEF OtherCommand, Write, Arg
<1>3. \A k \in Key \ {Shard} : \A v \in RecordType(k) :
         k.set \in {"htask", "histbranch"} => Add(k, v) \in OtherCommand
  BY DEF OtherCommand, Add, Arg
<1>4. \A V \in SUBSET (Pointer \cup {Nil}) : Check(Current, V) \in OtherCommand
  BY <1>1, KeyFacts
<1>5. ASSUME NEW s \in Snapshot
      PROVE  /\ assertNotCurrent(s.run) \in OtherCommand
             /\ assertExecutionCondition(s) \in OtherCommand
             /\ assertNotExists(s) \in OtherCommand
  BY <1>1, KeyFacts, SnapshotFacts DEF assertNotCurrent, assertExecutionCondition, assertNotExists
<1>6. ASSUME NEW s \in Snapshot
      PROVE  putExecution(s) \in OtherCommand
  BY <1>2, KeyFacts, SnapshotFacts DEF putExecution
<1>7. ASSUME NEW s \in Snapshot
      PROVE  writeTasks(s) \in OtherCommand /\ appendEvents(s) \in OtherCommand
  BY <1>3, KeyFacts, SnapshotFacts DEF writeTasks, appendEvents
<1>8. \A c \in Pointer : putCurrent(c) \in OtherCommand
  BY <1>2, KeyFacts DEF putCurrent
<1>. QED BY <1>4, <1>5, <1>6, <1>7, <1>8

\* The pieces the operations are put together from.
LEMMA Pieces ==
    ASSUME NEW s \in Snapshot \cup {Nil}
    PROVE  /\ createRun(s) \in Seq(OtherCommand)
           /\ rewriteRun(s) \in Seq(OtherCommand)
           /\ eventsIf(s) \in Seq(OtherCommand)
BY SingleCommands DEF createRun, rewriteRun, eventsIf

\* What the requests carry.
LEMMA RequestFacts ==
    ASSUME NEW q \in Requests
    PROVE  /\ q # Nil
           /\ q.op \in {"Create", "Update", "ConflictResolve", "Set"}
           /\ q.op = "Create" => q.new \in Snapshot /\ q.mode \in {"BrandNew", "UpdateCurrent", "BypassCurrent"}
           /\ q.op = "Update" => /\ q.base \in Snapshot /\ q.new \in Snapshot \cup {Nil}
                                 /\ q.mode \in {"IgnoreCurrent", "UpdateCurrent", "BypassCurrent"}
           /\ q.op = "ConflictResolve" =>
                 /\ q.base \in Snapshot /\ q.cur \in Snapshot \cup {Nil} /\ q.new \in Snapshot \cup {Nil}
                 /\ q.mode \in {"UpdateCurrent", "BypassCurrent"}
           /\ q.op = "Set" => q.base \in Snapshot
<1>1. q # Nil
  BY TxnRequestsAssumption, ConstantsAssumption
<1>2. q \in CreateRequest \/ q \in UpdateRequest \/ q \in ConflictResolveRequest \/ q \in SetRequest
  BY TxnRequestsAssumption DEF Request
<1>. QED BY <1>1, <1>2 DEF CreateRequest, UpdateRequest, SetRequest, ConflictResolveRequest, SnapshotIn

\* After the lease, an operation only touches records that are not the lease.
LEMMA OperationType ==
    ASSUME NEW q \in Requests
    PROVE  Operation(q) \in Seq(OtherCommand)
<1>1. \A s, t \in Seq(OtherCommand) : s \o t \in Seq(OtherCommand)
  OBVIOUS
<1>2. CASE q.op = "Create"
  <2>1. q.new \in Snapshot /\ q.mode \in {"BrandNew", "UpdateCurrent", "BypassCurrent"}
    BY <1>2, RequestFacts
  <2>2. (CASE q.mode = "BypassCurrent" -> <<>>
           [] q.mode = "UpdateCurrent" ->
                <<Check(Current, {c \in PointsTo(q.prevRun) :
                                     c.lwv = q.prevLwv /\ c.state = "Completed"}),
                  putCurrent(PointerTo(q.new))>>
           [] q.mode = "BrandNew" -> <<Check(Current, {Nil}), putCurrent(PointerTo(q.new))>>) \in Seq(OtherCommand)
    BY <2>1, SnapshotFacts, SingleCommands DEF PointsTo
  <2>. QED BY <1>1, <1>2, <2>1, <2>2, Pieces DEF Operation, CreateWorkflowExecution
<1>3. CASE q.op = "Update"
  <2>1. q.base \in Snapshot /\ q.new \in Snapshot \cup {Nil}
           /\ q.mode \in {"IgnoreCurrent", "UpdateCurrent", "BypassCurrent"}
    BY <1>3, RequestFacts
  <2>2. NewCurrent(q) \in Pointer
    BY <2>1, SnapshotFacts DEF NewCurrent
  <2>3. (CASE q.mode = "IgnoreCurrent" -> <<>>
           [] q.mode = "BypassCurrent" -> <<assertNotCurrent(q.base.run)>>
           [] q.mode = "UpdateCurrent" ->
                <<Check(Current, PointsTo(q.base.run)),
                  putCurrent(NewCurrent(q))>>) \in Seq(OtherCommand)
    BY <2>1, <2>2, SingleCommands DEF PointsTo
  <2>. QED BY <1>1, <1>3, <2>1, <2>3, Pieces DEF Operation, UpdateWorkflowExecution
<1>4. CASE q.op = "ConflictResolve"
  <2>1. q.base \in Snapshot /\ q.cur \in Snapshot \cup {Nil} /\ q.new \in Snapshot \cup {Nil}
           /\ q.mode \in {"UpdateCurrent", "BypassCurrent"}
    BY <1>4, RequestFacts
  <2>2. NewCurrent(q) \in Pointer
    BY <2>1, SnapshotFacts DEF NewCurrent
  <2>3. (CASE q.mode = "BypassCurrent" -> <<assertNotCurrent(q.base.run)>>
           [] q.mode = "UpdateCurrent" ->
                <<Check(Current, PointsTo(IF q.cur # Nil THEN q.cur.run ELSE q.base.run)),
                  putCurrent(NewCurrent(q))>>) \in Seq(OtherCommand)
    BY <2>1, <2>2, SingleCommands DEF PointsTo
  <2>. QED BY <1>1, <1>4, <2>1, <2>3, Pieces DEF Operation, ConflictResolveWorkflowExecution
<1>5. CASE q.op = "Set"
  BY <1>5, RequestFacts, Pieces DEF Operation, SetWorkflowExecution
<1>. QED BY <1>2, <1>3, <1>4, <1>5, RequestFacts

\* The program of a thread: read the lease, then the rest.
LEMMA ProgramFacts ==
    ASSUME NEW q \in Requests, NEW rangeID \in RangeID
    PROVE  /\ Len(Commands(q, rangeID)) \in Nat \ {0}
           /\ Commands(q, rangeID)[1] = Check(Shard, {rangeID})
           /\ \A i \in 2..Len(Commands(q, rangeID)) : Commands(q, rangeID)[i] \in OtherCommand
<1>. DEFINE first == assertShardOwnership(rangeID)
            rest  == Operation(q)
<1>1. rest \in Seq(OtherCommand) /\ <<first>> \in Seq({first})
  BY OperationType
<1>. HIDE DEF first, rest
<1>2. /\ Len(<<first>> \o rest) = 1 + Len(rest)
      /\ Len(rest) \in Nat
      /\ (<<first>> \o rest)[1] = first
      /\ \A i \in 2..(1 + Len(rest)) : (<<first>> \o rest)[i] = rest[i - 1] /\ rest[i - 1] \in OtherCommand
  BY <1>1
<1>. QED BY <1>2 DEF Commands, assertShardOwnership, first, rest

-----------------------------------------------------------------------------
IInv == TypeOK /\ LocksAreExclusive /\ FenceHolds

\* What a running thread executes, from its request and range id.
LEMMA RunningProgram ==
    ASSUME TypeOK, NEW p \in Proc, req[p] # Nil
    PROVE  /\ Len(Program(p)) \in Nat \ {0}
           /\ Program(p)[1] = Check(Shard, {range[p]})
           /\ \A i \in 2..Len(Program(p)) : Program(p)[i] \in OtherCommand
<1>1. req[p] \in Requests /\ range[p] \in RangeID
  BY DEF TypeOK
<1>. QED BY <1>1, ProgramFacts, Zenon DEF Program

\* A command outside the transactions keeps types and locks; it makes every
\* transaction that read the record stale.
LEMMA PutKeeps ==
    ASSUME TypeOK, LocksAreExclusive, NEW k \in Key, NEW v \in RecordType(k) \cup {Nil},
           MRT!Put(k, v), UNCHANGED <<req, range, pc>>, held' \in [Host -> RangeID \cup {Nil}]
    PROVE  /\ TypeOK' /\ LocksAreExclusive'
           /\ \A p \in Proc : /\ txn'[p].reads = txn[p].reads
                               /\ txn'[p].stale = txn[p].stale \cup (txn[p].reads \cap {k})
           /\ rec'[k] = v
           /\ \A x \in Key \ {k} : rec'[x] = rec[x]
<1>1. /\ rec' = [rec EXCEPT ![k] = v]
      /\ txn' = [q \in Proc |-> [txn[q] EXCEPT !.stale = @ \cup (txn[q].reads \cap {k})]]
  BY DEF MRT!Put
<1>2. \A p \in Proc : /\ DOMAIN txn'[p] = {"reads", "stale", "prov"}
                      /\ txn'[p].reads = txn[p].reads
                      /\ txn'[p].prov = txn[p].prov
                      /\ txn'[p].stale = txn[p].stale \cup (txn[p].reads \cap {k})
  BY <1>1 DEF TypeOK
<1>3. TypeOK'
  BY <1>1, <1>2, Zenon DEF TypeOK, MRT!Writes
<1>4. LocksAreExclusive'
  BY <1>2 DEF LocksAreExclusive, MRT!Writes
<1>. QED BY <1>1, <1>2, <1>3, <1>4, Zenon DEF TypeOK

\* Acquiring or rewriting the lease makes every read of it stale.
LEMMA LeaseStep ==
    ASSUME IInv, NEW h \in Host, AcquireShard(h) \/ RenewShard(h)
    PROVE  IInv'
<1>1. PICK r \in RangeID :
         /\ MRT!Put(Shard, r)
         /\ UNCHANGED <<req, range, pc>>
         /\ held' = [held EXCEPT ![h] = r]
         /\ rec[Shard] # Nil => r >= rec[Shard]
  <2>0. rec[Shard] \in RangeID \cup {Nil} /\ RangeID \subseteq Nat
    BY ConstantsAssumption, KeyFacts DEF IInv, TypeOK
  <2>1. CASE AcquireShard(h)
    <3>. DEFINE r == rec[Shard] + 1
    <3>1. /\ rec[Shard] # Nil /\ r \in RangeID
          /\ MRT!Put(Shard, r) /\ held' = [held EXCEPT ![h] = r] /\ UNCHANGED <<req, range, pc>>
      BY <2>1 DEF AcquireShard
    <3>2. r >= rec[Shard]
      <4>1. rec[Shard] \in Nat
        BY <2>0, <3>1, Zenon
      <4>. QED BY <4>1
    <3>. HIDE DEF r
    <3>. QED BY <3>1, <3>2, Zenon
  <2>2. CASE RenewShard(h)
    <3>1. /\ held[h] \in RangeID /\ rec[Shard] = held[h] /\ MRT!Put(Shard, held[h])
          /\ UNCHANGED <<held, req, range, pc>>
      BY <2>2 DEF RenewShard, IInv, TypeOK
    <3>2. held' = [held EXCEPT ![h] = held[h]]
      BY <3>1 DEF IInv, TypeOK
    <3>3. held[h] >= rec[Shard]
      <4>1. held[h] \in Nat
        BY <2>0, <3>1, Zenon
      <4>2. held[h] >= held[h]
        BY <4>1
      <4>. QED BY <3>1, <4>2
    <3>. QED BY <3>1, <3>2, <3>3, Zenon
  <2>. QED BY <2>1, <2>2
<1>2. /\ TypeOK' /\ LocksAreExclusive'
      /\ \A p \in Proc : /\ txn'[p].reads = txn[p].reads
                          /\ txn'[p].stale = txn[p].stale \cup (txn[p].reads \cap {Shard})
      /\ rec'[Shard] = r
  BY <1>1, PutKeeps, KeyFacts DEF IInv, TypeOK
<1>3. \A p \in Proc : req'[p] # Nil /\ pc'[p] > 1 => Shard \in txn'[p].reads /\ Shard \in txn'[p].stale
  BY <1>1, <1>2 DEF IInv, FenceHolds
<1>4. ASSUME NEW g \in Host, held'[g] # Nil PROVE rec'[Shard] # Nil /\ held'[g] <= rec'[Shard]
  <2>1. r \in Nat /\ r # Nil /\ rec[Shard] \in RangeID \cup {Nil} /\ RangeID \subseteq Nat
    BY ConstantsAssumption, KeyFacts DEF IInv, TypeOK
  <2>2. held[g] \in RangeID \cup {Nil}
    BY DEF IInv, TypeOK
  <2>3. CASE g = h
    BY <1>1, <1>2, <2>1, <2>3 DEF IInv, TypeOK
  <2>4. CASE g # h
    <3>1. held'[g] = held[g] /\ held[g] # Nil
      BY <1>1, <1>4, <2>4 DEF IInv, TypeOK
    <3>2. rec[Shard] # Nil /\ held[g] <= rec[Shard] /\ rec[Shard] <= r
      BY <1>1, <2>1, <3>1 DEF IInv, FenceHolds
    <3>3. held[g] \in Nat /\ rec[Shard] \in Nat
      BY <2>1, <2>2, <3>1, <3>2, Zenon
    <3>4. held[g] <= r
      BY <2>1, <3>2, <3>3
    <3>. QED BY <1>2, <2>1, <3>1, <3>4
  <2>. QED BY <2>3, <2>4
<1>. QED BY <1>2, <1>3, <1>4 DEF IInv, FenceHolds

\* Nobody runs or holds anything before the shard record exists.
LEMMA CreateShardStep ==
    ASSUME IInv, CreateShard
    PROVE  IInv'
<1>1. PICK r \in RangeID : MRT!Put(Shard, r) /\ UNCHANGED <<held, req, range, pc>>
  BY DEF CreateShard
<1>2. /\ TypeOK' /\ LocksAreExclusive'
      /\ \A p \in Proc : /\ txn'[p].reads = txn[p].reads
                          /\ txn'[p].stale = txn[p].stale \cup (txn[p].reads \cap {Shard})
      /\ rec'[Shard] = r
  BY <1>1, PutKeeps, KeyFacts DEF IInv, TypeOK
<1>3. \A h \in Host : held'[h] = Nil
  BY <1>1 DEF IInv, FenceHolds, CreateShard
<1>4. \A p \in Proc : req'[p] # Nil /\ pc'[p] > 1 => Shard \in txn'[p].reads /\ Shard \in txn'[p].stale
  BY <1>1, <1>2 DEF IInv, FenceHolds
<1>. QED BY <1>2, <1>3, <1>4 DEF IInv, FenceHolds

\* Starting a request changes nothing but the thread.
LEMMA BeginStep ==
    ASSUME IInv, NEW p \in Proc, NEW h \in Host, Begin(p, h)
    PROVE  IInv'
<1>1. PICK q \in Requests : req' = [req EXCEPT ![p] = q]
  BY DEF Begin
<1>2. /\ range' = [range EXCEPT ![p] = held[h]] /\ pc' = [pc EXCEPT ![p] = 1]
      /\ held[h] # Nil /\ UNCHANGED <<rec, txn, held>>
  BY DEF Begin
<1>3. TypeOK'
  BY <1>1, <1>2 DEF IInv, TypeOK, MRT!Writes
<1>4. LocksAreExclusive'
  BY <1>2 DEF IInv, LocksAreExclusive, MRT!Writes
<1>5. FenceHolds'
  BY <1>1, <1>2 DEF IInv, TypeOK, FenceHolds
<1>. QED BY <1>3, <1>4, <1>5 DEF IInv

\* A transaction that ends without committing releases its locks.
LEMMA AbortStep ==
    ASSUME IInv, NEW p \in Proc, MRT!TxnAbort(p), Finish(p)
    PROVE  IInv'
<1>1. /\ txn' = [txn EXCEPT ![p] = [reads |-> {}, stale |-> {}, prov |-> <<>>]] /\ rec' = rec
      /\ req' = [req EXCEPT ![p] = Nil] /\ range' = [range EXCEPT ![p] = Nil]
      /\ pc' = [pc EXCEPT ![p] = 0] /\ held' = held
  BY DEF MRT!TxnAbort, MRT!NoTxn, Finish
<1>2. DOMAIN <<>> = {}
  OBVIOUS
<1>3. TypeOK'
  BY <1>1, <1>2 DEF IInv, TypeOK, MRT!Writes
<1>4. LocksAreExclusive'
  BY <1>1, <1>2 DEF IInv, TypeOK, LocksAreExclusive, MRT!Writes
<1>5. FenceHolds'
  BY <1>1 DEF IInv, TypeOK, FenceHolds
<1>. QED BY <1>3, <1>4, <1>5 DEF IInv

\* Reading a record only adds to the read set; the first read is the lease's.
LEMMA CheckPassesStep ==
    ASSUME IInv, NEW p \in Proc, CheckPasses(p)
    PROVE  IInv'
<1>. DEFINE k == Program(p)[pc[p]].key
<1>1. /\ req[p] # Nil /\ pc[p] <= Len(Program(p))
      /\ MRT!View(p, k) \in Program(p)[pc[p]].arg
      /\ txn' = [txn EXCEPT ![p].reads = IF k \in MRT!Writes(p) THEN @ ELSE @ \cup {k}]
      /\ rec' = rec /\ pc' = [pc EXCEPT ![p] = @ + 1] /\ UNCHANGED <<held, req, range>>
  BY DEF CheckPasses, MRT!TxnRead, Advance
<1>. HIDE DEF k
<1>2. /\ Program(p)[1] = Check(Shard, {range[p]})
      /\ \A i \in 2..Len(Program(p)) : Program(p)[i] \in OtherCommand
      /\ Len(Program(p)) \in Nat /\ pc[p] \in Nat
  BY <1>1, RunningProgram, Zenon DEF IInv, TypeOK
<1>3. k \in Key
  BY <1>1, <1>2, KeyFacts DEF IInv, TypeOK, k, Check, OtherCommand
<1>4. \A q \in Proc : /\ DOMAIN txn'[q] = {"reads", "stale", "prov"}
                      /\ txn'[q].prov = txn[q].prov /\ txn'[q].stale = txn[q].stale
                      /\ txn[q].reads \subseteq txn'[q].reads /\ txn'[q].reads \subseteq txn[q].reads \cup {k}
  BY <1>1 DEF IInv, TypeOK
<1>5. TypeOK'
  BY <1>1, <1>3, <1>4 DEF IInv, TypeOK, MRT!Writes
<1>6. LocksAreExclusive'
  BY <1>4 DEF IInv, LocksAreExclusive, MRT!Writes
<1>7. CASE pc[p] = 1
  <2>1. k = Shard /\ rec[Shard] = range[p] /\ Shard \notin MRT!Writes(p)
    BY <1>1, <1>2, <1>7 DEF IInv, LocksAreExclusive, MRT!View, Check, k
  <2>2. Shard \in txn'[p].reads
    BY <1>1, <2>1 DEF IInv, TypeOK
  <2>3. FenceHolds'
    BY <1>1, <1>4, <2>1, <2>2 DEF IInv, FenceHolds, TypeOK
  <2>. QED BY <1>5, <1>6, <2>3 DEF IInv
<1>8. CASE pc[p] # 1
  <2>1. FenceHolds'
    BY <1>1, <1>2, <1>4, <1>8 DEF IInv, FenceHolds, TypeOK
  <2>. QED BY <1>5, <1>6, <2>1 DEF IInv
<1>. QED BY <1>7, <1>8

\* A write locks a record that nobody else has locked, and never the lease.
LEMMA WriteRecordStep ==
    ASSUME IInv, NEW p \in Proc, WriteRecord(p)
    PROVE  IInv'
<1>. DEFINE c == Program(p)[pc[p]]
            old == MRT!View(p, c.key)
            v == IF c.cmd = "put" THEN c.arg ELSE (IF old = Nil THEN {} ELSE old) \cup c.arg
<1>1. /\ req[p] # Nil /\ pc[p] <= Len(Program(p)) /\ c.cmd \in {"put", "add"}
      /\ MRT!TxnWrite(p, c.key, v)
      /\ pc' = [pc EXCEPT ![p] = @ + 1] /\ UNCHANGED <<held, req, range>>
  BY DEF WriteRecord, Advance
<1>2. pc[p] # 1 /\ c \in OtherCommand
  <2>1. Program(p)[1].cmd = "check" /\ \A i \in 2..Len(Program(p)) : Program(p)[i] \in OtherCommand
    <3>1. TypeOK /\ req[p] # Nil
      BY <1>1 DEF IInv
    <3>2. Program(p)[1] = Check(Shard, {range[p]})
      BY <3>1, RunningProgram
    <3>3. \A i \in 2..Len(Program(p)) : Program(p)[i] \in OtherCommand
      BY <3>1, RunningProgram, Zenon
    <3>. QED BY <3>2, <3>3 DEF Check
  <2>2. pc[p] \in Nat /\ pc[p] > 0 /\ Len(Program(p)) \in Nat
    BY <1>1, RunningProgram DEF IInv, TypeOK
  <2>3. pc[p] # 1
    BY <1>1, <2>1
  <2>4. pc[p] \in 2..Len(Program(p))
    BY <1>1, <2>2, <2>3
  <2>. QED BY <2>1, <2>3, <2>4
<1>3. c.key \in Key \ {Shard}
  BY <1>2 DEF OtherCommand
<1>4. v \in RecordType(c.key)
  <2>1. CASE c.cmd = "put"
    BY <1>2, <2>1 DEF OtherCommand
  <2>2. CASE c.cmd = "add"
    <3>1. c.arg \in RecordType(c.key) /\ c.key.set \in {"htask", "histbranch"}
      BY <1>2, <2>2 DEF OtherCommand
    <3>2. old \in RecordType(c.key) \cup {Nil}
      BY <1>3 DEF IInv, TypeOK, MRT!View
    <3>. QED BY <2>2, <3>1, <3>2, Zenon DEF RecordType
  <2>. QED BY <1>1, <2>1, <2>2
<1>. HIDE DEF c, old, v
<1>5. /\ rec' = rec /\ \A q \in Proc \ {p} : c.key \notin MRT!Writes(q)
      /\ txn' = [txn EXCEPT ![p].prov =
                    [x \in MRT!Writes(p) \cup {c.key} |-> IF x = c.key THEN v ELSE txn[p].prov[x]]]
  BY <1>1 DEF MRT!TxnWrite, MRT!LockedByOther
<1>6. \A q \in Proc : /\ DOMAIN txn'[q] = {"reads", "stale", "prov"}
                      /\ txn'[q].reads = txn[q].reads /\ txn'[q].stale = txn[q].stale
                      /\ q # p => txn'[q].prov = txn[q].prov
  BY <1>5 DEF IInv, TypeOK
<1>7. txn'[p].prov = [x \in MRT!Writes(p) \cup {c.key} |-> IF x = c.key THEN v ELSE txn[p].prov[x]]
  BY <1>5 DEF IInv, TypeOK
<1>8. TypeOK'
  BY <1>1, <1>3, <1>4, <1>5, <1>6, <1>7 DEF IInv, TypeOK, MRT!Writes
<1>9. LocksAreExclusive'
  BY <1>3, <1>5, <1>6, <1>7 DEF IInv, LocksAreExclusive, MRT!Writes
<1>10. FenceHolds'
  BY <1>1, <1>2, <1>5, <1>6 DEF IInv, FenceHolds, TypeOK
<1>. QED BY <1>8, <1>9, <1>10 DEF IInv

\* A commit installs the provisional versions; the lease is not among them.
LEMMA CommitStep ==
    ASSUME IInv, NEW p \in Proc, Commit(p)
    PROVE  IInv'
<1>1. /\ rec' = [k \in Key |-> MRT!View(p, k)]
      /\ txn' = [q \in Proc |-> IF q = p THEN [reads |-> {}, stale |-> {}, prov |-> <<>>]
                   ELSE [txn[q] EXCEPT !.stale = @ \cup (txn[q].reads \cap MRT!Writes(p))]]
      /\ req' = [req EXCEPT ![p] = Nil] /\ range' = [range EXCEPT ![p] = Nil]
      /\ pc' = [pc EXCEPT ![p] = 0] /\ held' = held
  BY DEF Commit, MRT!TxnCommit, MRT!Invalidate, MRT!NoTxn, Finish
<1>2. DOMAIN <<>> = {}
  OBVIOUS
<1>3. \A q \in Proc : /\ DOMAIN txn'[q] = {"reads", "stale", "prov"}
                      /\ q # p => /\ txn'[q].reads = txn[q].reads /\ txn'[q].prov = txn[q].prov
                                  /\ txn'[q].stale = txn[q].stale \cup (txn[q].reads \cap MRT!Writes(p))
                      /\ q = p => /\ txn'[q].reads = {} /\ txn'[q].stale = {} /\ txn'[q].prov = <<>>
  BY <1>1 DEF IInv, TypeOK
<1>4. rec'[Shard] = rec[Shard]
  BY <1>1, KeyFacts DEF IInv, LocksAreExclusive, MRT!View
<1>5. DOMAIN rec' = Key /\ \A k \in Key : rec'[k] \in RecordType(k) \cup {Nil}
  BY <1>1 DEF IInv, TypeOK, MRT!View
<1>6. TypeOK'
  BY <1>1, <1>2, <1>3, <1>5 DEF IInv, TypeOK, MRT!Writes
<1>7. LocksAreExclusive'
  BY <1>2, <1>3 DEF IInv, LocksAreExclusive, MRT!Writes
<1>8. ASSUME NEW q \in Proc, req'[q] # Nil, pc'[q] > 1
      PROVE  Shard \in txn'[q].reads /\ (Shard \notin txn'[q].stale => rec'[Shard] = range'[q])
  <2>1. q # p
    BY <1>1, <1>8 DEF IInv, TypeOK
  <2>2. req[q] # Nil /\ pc[q] > 1 /\ range'[q] = range[q]
    BY <1>1, <1>8, <2>1 DEF IInv, TypeOK
  <2>3. Shard \in txn[q].reads /\ (Shard \notin txn[q].stale => rec[Shard] = range[q])
    BY <2>2 DEF IInv, FenceHolds
  <2>. QED BY <1>3, <1>4, <2>1, <2>2, <2>3
<1>9. \A h \in Host : held'[h] # Nil => rec'[Shard] # Nil /\ held'[h] <= rec'[Shard]
  BY <1>1, <1>4 DEF IInv, FenceHolds
<1>10. FenceHolds'
  BY <1>8, <1>9 DEF FenceHolds
<1>. QED BY <1>6, <1>7, <1>10 DEF IInv

\* The unfenced deletes do not touch the lease.
LEMMA DeleteStep ==
    ASSUME IInv, NEW r \in Run,
           DeleteCurrentWorkflowExecution(r) \/ DeleteWorkflowExecution(r)
    PROVE  IInv'
<1>1. PICK k \in Key \ {Shard} : MRT!Put(k, Nil) /\ UNCHANGED <<held, req, range, pc>>
  BY KeyFacts DEF DeleteCurrentWorkflowExecution, DeleteWorkflowExecution
<1>2. held' \in [Host -> RangeID \cup {Nil}] /\ Nil \in RecordType(k) \cup {Nil}
  BY <1>1 DEF IInv, TypeOK
<1>3. /\ TypeOK' /\ LocksAreExclusive'
      /\ \A p \in Proc : /\ txn'[p].reads = txn[p].reads
                          /\ txn'[p].stale = txn[p].stale \cup (txn[p].reads \cap {k})
      /\ \A x \in Key \ {k} : rec'[x] = rec[x]
  BY <1>1, <1>2, PutKeeps DEF IInv
<1>4. FenceHolds'
  BY <1>1, <1>3, KeyFacts DEF IInv, FenceHolds
<1>. QED BY <1>3, <1>4 DEF IInv

-----------------------------------------------------------------------------
\* No thread carries a range id beyond the lease.
RangesArePast ==
    \A p \in Proc : req[p] # Nil => rec[Shard] # Nil /\ range[p] <= rec[Shard]

\* In the empty namespace nobody owns the shard and no thread runs.
LEMMA InitStep == Init => IInv /\ RangesArePast
<1>. SUFFICES ASSUME Init PROVE IInv /\ RangesArePast
  OBVIOUS
<1>1. /\ rec = [k \in Key |-> Nil]
      /\ txn = [p \in Proc |-> [reads |-> {}, stale |-> {}, prov |-> <<>>]]
      /\ held = [h \in Host |-> Nil] /\ req = [p \in Proc |-> Nil]
      /\ range = [p \in Proc |-> Nil] /\ pc = [p \in Proc |-> 0]
  BY DEF Init, MRT!MRTInit, MRT!NoTxn
<1>2. DOMAIN <<>> = {}
  OBVIOUS
<1>3. TypeOK
  BY <1>1, <1>2 DEF TypeOK, MRT!Writes
<1>4. LocksAreExclusive
  BY <1>1, <1>2 DEF LocksAreExclusive, MRT!Writes
<1>5. FenceHolds /\ RangesArePast
  BY <1>1 DEF FenceHolds, RangesArePast
<1>. QED BY <1>3, <1>4, <1>5 DEF IInv

\* One case per action of Next.
LEMMA NextStep == IInv /\ [Next]_vars => IInv'
<1>. SUFFICES ASSUME IInv, [Next]_vars PROVE IInv'
  OBVIOUS
<1>1. ASSUME NEW h \in Host, AcquireShard(h) \/ RenewShard(h) PROVE IInv'
  BY <1>1, LeaseStep
<1>2. ASSUME NEW p \in Proc, NEW h \in Host, Begin(p, h) PROVE IInv'
  BY <1>2, BeginStep
<1>3. ASSUME NEW p \in Proc, CheckPasses(p) PROVE IInv'
  BY <1>3, CheckPassesStep
<1>4. ASSUME NEW p \in Proc, WriteRecord(p) PROVE IInv'
  BY <1>4, WriteRecordStep
<1>5. ASSUME NEW p \in Proc, CheckFails(p) \/ CommandFails(p) \/ CommitConflict(p) PROVE IInv'
  BY <1>5, AbortStep DEF CheckFails, CommandFails, CommitConflict
<1>6. ASSUME NEW p \in Proc, Commit(p) PROVE IInv'
  BY <1>6, CommitStep
<1>7. ASSUME NEW r \in Run, DeleteCurrentWorkflowExecution(r) \/ DeleteWorkflowExecution(r) PROVE IInv'
  BY <1>7, DeleteStep
<1>8. CASE CreateShard
  BY <1>8, CreateShardStep
<1>9. CASE UNCHANGED vars
  BY <1>9 DEF vars, IInv, TypeOK, LocksAreExclusive, FenceHolds, MRT!Writes
<1>. QED BY <1>1, <1>2, <1>3, <1>4, <1>5, <1>6, <1>7, <1>8, <1>9 DEF Next

\* Locks are exclusive, and the lease is in the read set of every transaction
\* that is past its first command: the invariant behind the fencing of the
\* store by assertShardOwnership, for any number of hosts, threads and runs.
THEOREM FenceInvariant == Spec => [](TypeOK /\ LocksAreExclusive /\ FenceHolds)
<1>1. Init => IInv
  BY InitStep
<1>2. IInv /\ [Next]_vars => IInv'
  BY NextStep
<1>. QED BY <1>1, <1>2, PTL DEF Spec, IInv

\* A record that a transaction has locked is changed by its own commit only.
LEMMA LockedChangesByCommit ==
    ASSUME IInv, [Next]_vars, NEW p \in Proc, NEW k \in MRT!Writes(p), rec'[k] # rec[k]
    PROVE  Commit(p)
<1>1. k \in Key /\ DOMAIN rec = Key
  BY DEF IInv, TypeOK
<1>2. ASSUME NEW x, NEW v, MRT!Put(x, v) PROVE FALSE
  <2>1. x # k
    BY <1>2 DEF MRT!Put, MRT!Locked
  <2>. QED BY <1>1, <1>2, <2>1 DEF MRT!Put
<1>3. ASSUME NEW h \in Host, AcquireShard(h) \/ RenewShard(h) PROVE FALSE
  BY <1>2, <1>3 DEF AcquireShard, RenewShard
<1>4. ~CreateShard
  BY <1>2 DEF CreateShard
<1>5. ASSUME NEW r \in Run, DeleteCurrentWorkflowExecution(r) \/ DeleteWorkflowExecution(r) PROVE FALSE
  BY <1>2, <1>5 DEF DeleteCurrentWorkflowExecution, DeleteWorkflowExecution
<1>6. ASSUME NEW q \in Proc, Commit(q) PROVE q = p
  <2>1. rec'[k] = MRT!View(q, k)
    BY <1>1, <1>6 DEF Commit, MRT!TxnCommit
  <2>. QED BY <2>1 DEF MRT!View, IInv, LocksAreExclusive
<1>7. ASSUME rec' = rec PROVE FALSE
  BY <1>7
<1>8. ASSUME NEW q \in Proc, NEW h \in Host, Begin(q, h) PROVE FALSE
  BY <1>7, <1>8 DEF Begin
<1>9. ASSUME NEW q \in Proc, \/ CheckPasses(q) \/ CheckFails(q) \/ WriteRecord(q)
                              \/ CommandFails(q) \/ CommitConflict(q)
      PROVE  FALSE
  BY <1>7, <1>9 DEF CheckPasses, CheckFails, WriteRecord, CommandFails, CommitConflict,
                    MRT!TxnRead, MRT!TxnWrite, MRT!TxnAbort
<1>10. CASE UNCHANGED vars
  BY <1>7, <1>10 DEF vars
<1>11. \E q \in Proc : Commit(q)
  BY <1>4, <1>3, <1>5, <1>8, <1>9, <1>10 DEF Next
<1>. QED BY <1>6, <1>11

\* A commit carries the range id of the lease, and no host holds a later one.
LEMMA CommitCarriesLease ==
    ASSUME IInv, NEW p \in Proc, Commit(p), NEW h \in Host, held[h] # Nil
    PROVE  held[h] <= range[p]
<1>1. req[p] # Nil /\ pc[p] > Len(Program(p)) /\ txn[p].stale = {}
  BY DEF Commit, MRT!TxnCommit, MRT!TxnVerified
<1>2. Len(Program(p)) \in Nat \ {0} /\ pc[p] \in Nat
  BY <1>1, RunningProgram, Zenon DEF IInv, TypeOK
<1>3. pc[p] > 1
  BY <1>1, <1>2
<1>. QED BY <1>1, <1>3 DEF IInv, FenceHolds

\* The fence: after a takeover no transaction that carries an older range id
\* changes a record, although it may have read the lease long before.
THEOREM FencingTheorem == Spec => NoWriteAfterTakeover
<1>. DEFINE Fenced == \A p \in Proc : \A k \in MRT!Writes(p) :
               rec'[k] # rec[k] => \A h \in Host : held[h] # Nil => held[h] <= range[p]
<1>1. IInv /\ [Next]_vars => Fenced
  BY LockedChangesByCommit, CommitCarriesLease
<1>2. IInv /\ [Next]_vars => [Fenced]_vars
  BY <1>1
<1>. HIDE DEF Fenced
<1>3. Spec => []IInv
  BY FenceInvariant DEF IInv
<1>4. Spec => [][Fenced]_vars
  BY <1>2, <1>3, PTL DEF Spec
<1>. QED BY <1>4 DEF NoWriteAfterTakeover, Fenced

-----------------------------------------------------------------------------
\* The lease is never given back: it stays, or moves to a later range id.
LEMMA LeaseGrows ==
    ASSUME IInv, [Next]_vars, rec[Shard] # Nil
    PROVE  rec'[Shard] \in Nat /\ rec'[Shard] # Nil /\ rec[Shard] <= rec'[Shard]
<1>1. DOMAIN rec = Key /\ rec[Shard] \in RangeID /\ RangeID \subseteq Nat /\ Nil \notin RangeID
  BY KeyFacts, ConstantsAssumption DEF IInv, TypeOK
<1>2. ASSUME rec'[Shard] = rec[Shard] PROVE rec[Shard] \in Nat /\ rec[Shard] <= rec[Shard] /\ rec'[Shard] # Nil
  <2>1. rec[Shard] \in Nat
    BY <1>1, Zenon
  <2>. QED BY <1>1, <1>2, <2>1
<1>3. ASSUME NEW h \in Host, AcquireShard(h) PROVE rec'[Shard] \in RangeID /\ rec'[Shard] = rec[Shard] + 1
  BY <1>1, <1>3, KeyFacts DEF AcquireShard, MRT!Put
<1>4. ~CreateShard
  BY DEF CreateShard
<1>5. ASSUME NEW h \in Host, RenewShard(h) PROVE rec'[Shard] = rec[Shard]
  BY <1>1, <1>5, KeyFacts DEF RenewShard, MRT!Put
<1>6. ASSUME NEW r \in Run, DeleteCurrentWorkflowExecution(r) \/ DeleteWorkflowExecution(r)
      PROVE  rec'[Shard] = rec[Shard]
  BY <1>1, <1>6, KeyFacts DEF DeleteCurrentWorkflowExecution, DeleteWorkflowExecution, MRT!Put
<1>7. ASSUME NEW p \in Proc, Commit(p) PROVE rec'[Shard] = rec[Shard]
  BY <1>7, KeyFacts DEF Commit, MRT!TxnCommit, MRT!View, IInv, LocksAreExclusive
<1>8. ASSUME NEW q \in Proc, NEW h \in Host, Begin(q, h) PROVE rec'[Shard] = rec[Shard]
  BY <1>8 DEF Begin
<1>9. ASSUME NEW q \in Proc, \/ CheckPasses(q) \/ CheckFails(q) \/ WriteRecord(q)
                              \/ CommandFails(q) \/ CommitConflict(q)
      PROVE  rec'[Shard] = rec[Shard]
  BY <1>9 DEF CheckPasses, CheckFails, WriteRecord, CommandFails, CommitConflict,
              MRT!TxnRead, MRT!TxnWrite, MRT!TxnAbort
<1>10. UNCHANGED vars => rec'[Shard] = rec[Shard]
  BY DEF vars
<1>11. ASSUME NEW h \in Host, AcquireShard(h)
      PROVE  rec'[Shard] \in Nat /\ rec'[Shard] # Nil /\ rec[Shard] <= rec'[Shard]
  <2>1. rec[Shard] \in Nat /\ rec'[Shard] \in Nat /\ rec'[Shard] # Nil
    BY <1>1, <1>3, <1>11, Zenon
  <2>. QED BY <1>3, <1>11, <2>1
<1>12. rec'[Shard] = rec[Shard] \/ \E h \in Host : AcquireShard(h)
  BY <1>4, <1>5, <1>6, <1>7, <1>8, <1>9, <1>10 DEF Next
<1>. QED BY <1>2, <1>11, <1>12

\* A request starts with a range id that its host holds, and the lease only grows.
LEMMA RangesStep ==
    ASSUME IInv, RangesArePast, [Next]_vars
    PROVE  RangesArePast'
<1>. SUFFICES ASSUME NEW p \in Proc, req'[p] # Nil
              PROVE  rec'[Shard] # Nil /\ range'[p] <= rec'[Shard]
  BY DEF RangesArePast
<1>0. rec[Shard] \in RangeID \cup {Nil} /\ range[p] \in RangeID \cup {Nil} /\ RangeID \subseteq Nat
  BY KeyFacts, ConstantsAssumption DEF IInv, TypeOK
<1>1. CASE req[p] # Nil /\ range'[p] = range[p]
  <2>1. rec[Shard] # Nil /\ range[p] <= rec[Shard] /\ range[p] \in Nat /\ rec[Shard] \in Nat
    BY <1>0, <1>1, Zenon DEF RangesArePast, IInv, TypeOK
  <2>2. rec'[Shard] \in Nat /\ rec'[Shard] # Nil /\ rec[Shard] <= rec'[Shard]
    BY <2>1, LeaseGrows
  <2>. QED BY <1>1, <2>1, <2>2
<1>2. ASSUME NEW h \in Host, Begin(p, h) PROVE rec'[Shard] # Nil /\ range'[p] <= rec'[Shard]
  BY <1>2 DEF Begin, IInv, FenceHolds, TypeOK
<1>3. ASSUME NEW q \in Proc, NEW h \in Host, Begin(q, h), q # p PROVE req[p] # Nil /\ range'[p] = range[p]
  BY <1>3 DEF Begin, IInv, TypeOK
<1>4. ASSUME NEW q \in Proc, CheckPasses(q) \/ WriteRecord(q) PROVE req[p] # Nil /\ range'[p] = range[p]
  BY <1>4 DEF CheckPasses, WriteRecord, Advance
<1>5. ASSUME NEW q \in Proc, CheckFails(q) \/ CommandFails(q) \/ Commit(q) \/ CommitConflict(q)
      PROVE  req[p] # Nil /\ range'[p] = range[p]
  BY <1>5 DEF CheckFails, CommandFails, Commit, CommitConflict, Finish, IInv, TypeOK
<1>6. ASSUME NEW h \in Host, AcquireShard(h) \/ RenewShard(h) PROVE req[p] # Nil /\ range'[p] = range[p]
  BY <1>6 DEF AcquireShard, RenewShard
<1>7. ASSUME NEW r \in Run, DeleteCurrentWorkflowExecution(r) \/ DeleteWorkflowExecution(r)
      PROVE  req[p] # Nil /\ range'[p] = range[p]
  BY <1>7 DEF DeleteCurrentWorkflowExecution, DeleteWorkflowExecution
<1>8. CreateShard \/ UNCHANGED vars => req[p] # Nil /\ range'[p] = range[p]
  BY DEF CreateShard, vars
<1>. QED BY <1>1, <1>2, <1>3, <1>4, <1>5, <1>6, <1>7, <1>8 DEF Next

\* assertShardOwnership refuses a request only after the lease has moved past
\* it: a shard update that keeps the range id costs nobody the shard.
THEOREM OwnershipLossTheorem == Spec => OwnershipLossIsReal
<1>. DEFINE Real == \A p \in Proc :
               CheckFails(p) /\ CheckError(p) = "ShardOwnershipLost" => rec[Shard] > range[p]
<1>1. ASSUME IInv, RangesArePast, NEW p \in Proc, CheckFails(p), Program(p)[pc[p]].key = Shard
      PROVE  rec[Shard] > range[p]
  <2>1. /\ req[p] # Nil /\ pc[p] <= Len(Program(p)) /\ pc[p] \in Nat /\ pc[p] > 0
        /\ MRT!View(p, Shard) \notin Program(p)[pc[p]].arg
    BY <1>1 DEF CheckFails, IInv, TypeOK
  <2>2. /\ Program(p)[1] = Check(Shard, {range[p]}) /\ Len(Program(p)) \in Nat
        /\ \A i \in 2..Len(Program(p)) : Program(p)[i].key # Shard
    <3>1. TypeOK
      BY <1>1 DEF IInv
    <3>. QED BY <2>1, <3>1, RunningProgram DEF OtherCommand
  <2>3. pc[p] = 1
    BY <1>1, <2>1, <2>2
  <2>4. rec[Shard] # range[p]
    BY <1>1, <2>1, <2>2, <2>3 DEF MRT!View, IInv, LocksAreExclusive, Check
  <2>5. /\ rec[Shard] # Nil /\ range[p] <= rec[Shard]
        /\ rec[Shard] \in RangeID /\ range[p] \in RangeID /\ RangeID \subseteq Nat
    BY <1>1, <2>1, KeyFacts, ConstantsAssumption DEF RangesArePast, IInv, TypeOK
  <2>6. rec[Shard] \in Nat /\ range[p] \in Nat
    BY <2>5, Zenon
  <2>. QED BY <2>4, <2>5, <2>6
<1>2. IInv /\ RangesArePast /\ [Next]_vars => [Real]_vars
  <2>1. \A p \in Proc : CheckError(p) = "ShardOwnershipLost" => Program(p)[pc[p]].key = Shard
    BY DEF CheckError
  <2>. QED BY <1>1, <2>1
<1>3. IInv /\ RangesArePast /\ [Next]_vars => (IInv /\ RangesArePast)'
  BY NextStep, RangesStep
<1>. HIDE DEF Real
<1>4. Spec => [][Real]_vars
  BY InitStep, <1>2, <1>3, PTL DEF Spec
<1>. QED BY <1>4 DEF OwnershipLossIsReal, Real
=============================================================================
