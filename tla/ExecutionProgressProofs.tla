---------------------- MODULE ExecutionProgressProofs -----------------------
(***************************************************************************)
(* How far a thread has come, as an invariant of ExecutionTxn: what it has *)
(* checked so far is true of the committed records unless its read is      *)
(* stale, and what it has written so far is in its provisional versions,   *)
(* on top of what is committed in the maps.                                *)
(***************************************************************************)
EXTENDS ExecutionCommandsProofs

\* The commands the thread has executed.
Executed(p) == {Program(p)[i] : i \in 1..(pc[p] - 1)}

\* What the condition of a check that has passed still says.
StillHolds(p, c) ==
    /\ c.key \in txn[p].reads
    /\ c.key \notin txn[p].stale =>
         /\ rec[c.key] \in c.arg
         /\ c.key.set = "exec" => BuiltFromLoaded(req[p], rec[c.key])

\* What these commands have added to the map or the tree under k.
Added(p, k) == UNION {c.arg : c \in {d \in Executed(p) : d.cmd = "add" /\ d.key = k}}

\* A thread in the middle of an operation: it has read what it checked, its
\* conditions still hold unless a read is stale, and its provisional versions are
\* what the executed commands put, or add to the stored entries.
Doing(p) ==
    /\ pc[p] <= Len(Program(p)) + 1
    /\ \A c \in Executed(p) : c.cmd = "check" => StillHolds(p, c)
    /\ MRT!Writes(p) = {c.key : c \in {d \in Executed(p) : d.cmd # "check"}}
    /\ \A c \in Executed(p) : c.cmd = "put" => txn[p].prov[c.key] = c.arg
    /\ \A k \in MRT!Writes(p) : k.set \in {"htask", "histbranch"} =>
          txn[p].prov[k] = Entries(k) \cup Added(p, k)

\* A thread between operations has nothing in a transaction.
Idle(p) == MRT!Writes(p) = {} /\ txn[p].reads = {}

Thread(p) == IF req[p] = Nil THEN Idle(p) ELSE Doing(p)

Progress == \A p \in Proc : Thread(p)

\* The inductive invariant of the refinement.
RInv == IInv /\ Progress

-----------------------------------------------------------------------------
\* What the commands of a running thread look like.
LEMMA ProgramCommands ==
    ASSUME TypeOK, NEW p \in Proc, req[p] # Nil
    PROVE  /\ WellFormed(Program(p)) /\ DOMAIN Program(p) = 1..Len(Program(p))
           /\ Len(Program(p)) \in Nat /\ pc[p] \in Nat /\ pc[p] > 0
           /\ \A i \in 1..Len(Program(p)) : LET c == Program(p)[i] IN
                /\ c.key \in Key /\ c.cmd \in {"check", "put", "add"}
                /\ c.cmd = "check" => c.key.set \in {"shard", "current", "exec"}
                /\ c.cmd = "put" => c.key.set \in {"current", "exec"} /\ c.arg \in RecordType(c.key)
                /\ c.cmd = "add" => c.key.set \in {"htask", "histbranch"} /\ c.arg \in RecordType(c.key)
<1>1. req[p] \in Requests /\ range[p] \in RangeID /\ pc[p] \in Nat /\ pc[p] > 0
  BY DEF TypeOK
<1>2. WellFormed(Program(p))
  BY <1>1, OperationWellFormed DEF Program
<1>3. DOMAIN Program(p) = 1..Len(Program(p)) /\ Len(Program(p)) \in Nat
  <2> DEFINE first == assertShardOwnership(range[p])
             rest  == Operation(req[p])
  <2>1. rest \in Seq(OtherCommand)
    BY <1>1, OperationType
  <2> HIDE DEF first, rest
  <2>2. DOMAIN (<<first>> \o rest) = 1..Len(<<first>> \o rest) /\ Len(<<first>> \o rest) \in Nat
    <3>1. <<first>> \in Seq(OtherCommand \cup {first}) /\ rest \in Seq(OtherCommand \cup {first})
      BY <2>1
    <3>2. <<first>> \o rest \in Seq(OtherCommand \cup {first})
      BY <3>1
    <3>. QED BY <3>2
  <2>. QED BY <2>2 DEF Program, Commands, first, rest
<1>4. /\ Program(p)[1] = Check(Shard, {range[p]})
      /\ \A i \in 2..Len(Program(p)) : Program(p)[i] \in OtherCommand
  BY RunningProgram
<1>5. \A i \in 1..Len(Program(p)) : Program(p)[i] \in Elements(Commands(req[p], range[p]))
  BY <1>3 DEF Elements, Program
<1>6. ASSUME NEW c \in Elements(Commands(req[p], range[p]))
      PROVE  /\ c.cmd = "check" => c.key.set \in {"shard", "current", "exec"}
             /\ c.cmd = "put" => c.key.set \in {"current", "exec"}
  <2> DEFINE q == req[p]
  <2>1. \/ c = Check(Shard, {range[p]})
        \/ c \in Elements(HeadOf(q))
        \/ \E s \in Rewritten(q) \cup Created(q) :
              c \in {assertExecutionCondition(s), assertNotExists(s), putExecution(s), writeTasks(s)}
        \/ \E s \in Evented(q) : c = appendEvents(s)
    BY <1>1, OperationElements
  <2>2. ASSUME c \in Elements(HeadOf(q)) PROVE c.key = Current
    BY <1>1, <2>2, HeadWellFormed DEF Elements
  <2>3. ASSUME NEW s \in Rewritten(q) \cup Created(q),
               c \in {assertExecutionCondition(s), assertNotExists(s), putExecution(s), writeTasks(s)}
        PROVE  c.cmd = "add" \/ c.key.set = "exec"
    <3>1. s \in Snapshot
      BY <1>1, PartFacts DEF Rewritten, Created
    <3>2. Exec(s.run).set = "exec"
      BY <3>1, SnapshotFacts, KeysDiffer
    <3>3. /\ assertExecutionCondition(s).key = Exec(s.run) /\ assertNotExists(s).key = Exec(s.run)
          /\ putExecution(s).key = Exec(s.run) /\ writeTasks(s).cmd = "add"
      BY DEF assertExecutionCondition, assertNotExists, putExecution, writeTasks, Check, Write, Add
    <3>. QED BY <2>3, <3>2, <3>3
  <2>4. Current.set = "current" /\ Shard.set = "shard"
    BY KeysDiffer
  <2>5. Check(Shard, {range[p]}).key = Shard /\ Check(Shard, {range[p]}).cmd = "check"
    BY DEF Check
  <2>6. \A s : appendEvents(s).cmd = "add"
    BY DEF appendEvents, Add
  <2>7. CASE c = Check(Shard, {range[p]})
    BY <2>4, <2>5, <2>7
  <2>8. CASE c \in Elements(HeadOf(q))
    BY <2>2, <2>4, <2>8
  <2>9. CASE \E s \in Evented(q) : c = appendEvents(s)
    BY <2>6, <2>9
  <2> HIDE DEF q
  <2>10. CASE c.cmd = "add" \/ c.key.set = "exec"
    BY <2>10
  <2>. QED BY <2>1, <2>3, <2>7, <2>8, <2>9, <2>10
<1>7. \A i \in 1..Len(Program(p)) : i = 1 \/ i \in 2..Len(Program(p))
  BY <1>3
<1>8. Check(Shard, {range[p]}).key = Shard /\ Check(Shard, {range[p]}).cmd = "check"
  BY CommandFields
<1>9. ASSUME NEW i \in 1..Len(Program(p))
      PROVE  LET c == Program(p)[i] IN
                /\ c.key \in Key /\ c.cmd \in {"check", "put", "add"}
                /\ c.cmd = "put" => c.arg \in RecordType(c.key)
                /\ c.cmd = "add" => c.key.set \in {"htask", "histbranch"} /\ c.arg \in RecordType(c.key)
  <2>1. CASE i = 1
    BY <1>4, <1>8, <2>1, KeyFacts
  <2>2. CASE i \in 2..Len(Program(p))
    BY <1>4, <2>2 DEF OtherCommand
  <2>. QED BY <1>7, <2>1, <2>2
<1>. QED BY <1>1, <1>2, <1>3, <1>5, <1>6, <1>9

\* The same of the commands it has executed.
LEMMA ExecutedCommands ==
    ASSUME TypeOK, NEW p \in Proc, req[p] # Nil, pc[p] <= Len(Program(p)) + 1, NEW c \in Executed(p)
    PROVE  /\ c.key \in Key /\ c.cmd \in {"check", "put", "add"}
           /\ c.cmd = "check" => c.key.set \in {"shard", "current", "exec"}
           /\ c.cmd = "put" => c.key.set \in {"current", "exec"} /\ c.arg \in RecordType(c.key)
           /\ c.cmd = "add" => c.key.set \in {"htask", "histbranch"} /\ c.arg \in RecordType(c.key)
<1>1. PICK i \in 1..(pc[p] - 1) : c = Program(p)[i]
  BY DEF Executed
<1>2. i \in 1..Len(Program(p))
  BY <1>1, ProgramCommands
<1>. QED BY <1>1, <1>2, ProgramCommands

\* A thread stays where it is when somebody else takes a step, as long as the
\* step changes no record that the thread has locked and makes every read of a
\* changed record stale.
LEMMA ThreadFrame ==
    ASSUME IInv, NEW p \in Proc, Thread(p),
           req'[p] = req[p], range'[p] = range[p], pc'[p] = pc[p],
           txn'[p].reads = txn[p].reads, txn'[p].prov = txn[p].prov,
           txn[p].stale \subseteq txn'[p].stale,
           \A k \in Key : rec'[k] # rec[k] =>
               k \notin MRT!Writes(p) /\ (k \in txn[p].reads => k \in txn'[p].stale)
    PROVE  Thread(p)'
<1>1. MRT!Writes(p)' = MRT!Writes(p)
  BY DEF MRT!Writes
<1>2. CASE req[p] = Nil
  BY <1>1, <1>2 DEF Thread, Idle
<1>3. CASE req[p] # Nil
  <2>1. Program(p)' = Program(p)
    BY DEF Program
  <2>2. Executed(p)' = Executed(p)
    BY <2>1 DEF Executed
  <2>3. TypeOK /\ Doing(p)
    BY <1>3 DEF IInv, Thread
  <2>4. ASSUME NEW c \in Executed(p), c.cmd = "check" PROVE StillHolds(p, c)'
    <3>1. StillHolds(p, c) /\ c.key \in Key
      BY <1>3, <2>3, <2>4, ExecutedCommands DEF Doing
    <3>. QED BY <3>1 DEF StillHolds
  <2>5. ASSUME NEW k \in MRT!Writes(p), k.set \in {"htask", "histbranch"}
        PROVE  txn'[p].prov[k] = Entries(k)' \cup Added(p, k)'
    <3>1. k \in Key /\ txn[p].prov[k] = Entries(k) \cup Added(p, k)
      BY <2>3, <2>5, SMTT(30) DEF Doing, TypeOK
    <3>2. Entries(k)' = Entries(k)
      BY <3>1 DEF Entries
    <3>3. Added(p, k)' = Added(p, k)
      BY <2>2 DEF Added
    <3>. QED BY <3>1, <3>2, <3>3
  <2>6. Doing(p)'
    BY <1>1, <2>1, <2>2, <2>3, <2>4, <2>5 DEF Doing
  <2>. QED BY <1>3, <2>6 DEF Thread
<1>. QED BY <1>2, <1>3

\* A command outside the transactions, on a record that nobody has locked.
LEMMA PutProgress ==
    ASSUME RInv, NEW k \in Key, NEW v, MRT!Put(k, v), UNCHANGED <<req, range, pc>>
    PROVE  Progress'
<1>. SUFFICES ASSUME NEW p \in Proc PROVE Thread(p)'
  BY DEF Progress
<1>1. /\ rec' = [rec EXCEPT ![k] = v] /\ k \notin MRT!Writes(p)
      /\ txn' = [q \in Proc |-> [txn[q] EXCEPT !.stale = @ \cup (txn[q].reads \cap {k})]]
  BY DEF MRT!Put, MRT!Locked
<1>2. /\ txn'[p].reads = txn[p].reads /\ txn'[p].prov = txn[p].prov
      /\ txn'[p].stale = txn[p].stale \cup (txn[p].reads \cap {k})
  BY <1>1 DEF RInv, IInv, TypeOK
<1>3. \A x \in Key : rec'[x] # rec[x] => x = k
  BY <1>1 DEF RInv, IInv, TypeOK
<1>4. IInv /\ Thread(p)
  BY DEF RInv, Progress
<1>5. req'[p] = req[p] /\ range'[p] = range[p] /\ pc'[p] = pc[p]
  OBVIOUS
<1>6. \A x \in Key : rec'[x] # rec[x] => x \notin MRT!Writes(p) /\ (x \in txn[p].reads => x \in txn'[p].stale)
  BY <1>1, <1>2, <1>3
<1>. QED BY <1>2, <1>4, <1>5, <1>6, ThreadFrame

\* A thread that has started has executed nothing.
LEMMA BeginProgress ==
    ASSUME RInv, NEW p \in Proc, NEW h \in Host, Begin(p, h)
    PROVE  Progress'
<1>0. IInv'
  BY BeginStep DEF RInv
<1>1. /\ req[p] = Nil /\ pc' = [pc EXCEPT ![p] = 1] /\ range' = [range EXCEPT ![p] = held[h]]
      /\ UNCHANGED <<rec, txn, held>>
  BY DEF Begin
<1>2. PICK q \in Requests : req' = [req EXCEPT ![p] = q]
  BY DEF Begin
<1>3. Thread(p)'
  <2>1. pc'[p] = 1 /\ req'[p] # Nil
    BY <1>1, <1>2, RequestFacts DEF RInv, IInv, TypeOK
  <2>2. Executed(p)' = {}
    BY <2>1 DEF Executed
  <2>3. MRT!Writes(p)' = {}
    BY <1>1 DEF RInv, Progress, Thread, Idle, MRT!Writes
  <2>4. Len(Program(p))' \in Nat
    BY <1>0, <2>1, RunningProgram DEF IInv
  <2>5. Doing(p)'
    BY <2>1, <2>2, <2>3, <2>4 DEF Doing
  <2>. QED BY <2>1, <2>5 DEF Thread
<1>4. ASSUME NEW x \in Proc, x # p PROVE Thread(x)'
  <2>1. req'[x] = req[x] /\ range'[x] = range[x] /\ pc'[x] = pc[x] /\ txn'[x] = txn[x] /\ rec' = rec
    BY <1>1, <1>2, <1>4 DEF RInv, IInv, TypeOK
  <2>. QED BY <2>1, ThreadFrame DEF RInv, Progress
<1>. QED BY <1>3, <1>4 DEF Progress

\* An aborted transaction leaves nothing behind.
LEMMA AbortProgress ==
    ASSUME RInv, NEW p \in Proc, MRT!TxnAbort(p), Finish(p)
    PROVE  Progress'
<1>1. /\ txn' = [txn EXCEPT ![p] = [reads |-> {}, stale |-> {}, prov |-> <<>>]] /\ rec' = rec
      /\ req' = [req EXCEPT ![p] = Nil] /\ range' = [range EXCEPT ![p] = Nil]
      /\ pc' = [pc EXCEPT ![p] = 0]
  BY DEF MRT!TxnAbort, MRT!NoTxn, Finish
<1>2. Thread(p)'
  <2>1. req'[p] = Nil /\ txn'[p].reads = {} /\ txn'[p].prov = <<>> /\ DOMAIN <<>> = {}
    BY <1>1 DEF RInv, IInv, TypeOK
  <2>. QED BY <2>1 DEF Thread, Idle, MRT!Writes
<1>3. ASSUME NEW x \in Proc, x # p PROVE Thread(x)'
  <2>1. req'[x] = req[x] /\ range'[x] = range[x] /\ pc'[x] = pc[x] /\ txn'[x] = txn[x] /\ rec' = rec
    BY <1>1, <1>3 DEF RInv, IInv, TypeOK
  <2>. QED BY <2>1, ThreadFrame DEF RInv, Progress
<1>. QED BY <1>2, <1>3 DEF Progress

\* A commit changes records that no other transaction has locked, and makes
\* every read of them stale.
LEMMA CommitProgress ==
    ASSUME RInv, NEW p \in Proc, Commit(p)
    PROVE  Progress'
<1>1. /\ rec' = [k \in Key |-> MRT!View(p, k)]
      /\ txn' = [q \in Proc |-> IF q = p THEN [reads |-> {}, stale |-> {}, prov |-> <<>>]
                   ELSE [txn[q] EXCEPT !.stale = @ \cup (txn[q].reads \cap MRT!Writes(p))]]
      /\ req' = [req EXCEPT ![p] = Nil] /\ range' = [range EXCEPT ![p] = Nil]
      /\ pc' = [pc EXCEPT ![p] = 0]
  BY DEF Commit, MRT!TxnCommit, MRT!Invalidate, MRT!NoTxn, Finish
<1>2. Thread(p)'
  <2>1. req'[p] = Nil /\ txn'[p].reads = {} /\ txn'[p].prov = <<>> /\ DOMAIN <<>> = {}
    BY <1>1 DEF RInv, IInv, TypeOK
  <2>. QED BY <2>1 DEF Thread, Idle, MRT!Writes
<1>3. ASSUME NEW x \in Proc, x # p PROVE Thread(x)'
  <2>1. req'[x] = req[x] /\ range'[x] = range[x] /\ pc'[x] = pc[x]
    BY <1>1, <1>3 DEF RInv, IInv, TypeOK
  <2>2. /\ txn'[x].reads = txn[x].reads /\ txn'[x].prov = txn[x].prov
        /\ txn'[x].stale = txn[x].stale \cup (txn[x].reads \cap MRT!Writes(p))
    BY <1>1, <1>3 DEF RInv, IInv, TypeOK
  <2>3. \A k \in Key : rec'[k] # rec[k] => k \in MRT!Writes(p)
    BY <1>1 DEF MRT!View
  <2>4. MRT!Writes(p) \cap MRT!Writes(x) = {}
    BY <1>3 DEF RInv, IInv, LocksAreExclusive
  <2>5. \A k \in Key : rec'[k] # rec[k] => k \notin MRT!Writes(x) /\ (k \in txn[x].reads => k \in txn'[x].stale)
    BY <2>2, <2>3, <2>4
  <2>. QED BY <2>1, <2>2, <2>5, ThreadFrame DEF RInv, Progress
<1>. QED BY <1>2, <1>3 DEF Progress

\* One command further.
LEMMA AdvanceFacts ==
    ASSUME TypeOK, NEW p \in Proc, req[p] # Nil, pc[p] <= Len(Program(p)), Advance(p)
    PROVE  /\ req'[p] = req[p] /\ Program(p)' = Program(p)
           /\ Executed(p)' = Executed(p) \cup {Program(p)[pc[p]]}
           /\ pc'[p] <= Len(Program(p)) + 1
           /\ \A x \in Proc \ {p} : req'[x] = req[x] /\ range'[x] = range[x] /\ pc'[x] = pc[x]
<1>1. /\ pc' = [pc EXCEPT ![p] = pc[p] + 1] /\ req' = req /\ range' = range
  BY DEF Advance
<1>2. pc[p] \in Nat /\ pc[p] > 0 /\ Len(Program(p)) \in Nat
  BY ProgramCommands
<1>3. pc'[p] = pc[p] + 1
  BY <1>1 DEF TypeOK
<1>4. Program(p)' = Program(p)
  BY <1>1 DEF Program
<1>5. 1..(pc'[p] - 1) = 1..(pc[p] - 1) \cup {pc[p]}
  BY <1>2, <1>3
<1>6. Executed(p)' = {Program(p)[i] : i \in 1..(pc'[p] - 1)}
  BY <1>4 DEF Executed
<1>7. Executed(p)' = Executed(p) \cup {Program(p)[pc[p]]}
  <2> DEFINE P == Program(p)
             I == 1..(pc[p] - 1)
             J == 1..(pc'[p] - 1)
  <2>1. J = I \cup {pc[p]} /\ Executed(p) = {P[i] : i \in I} /\ Executed(p)' = {P[i] : i \in J}
    <3>1. J = I \cup {pc[p]}
      BY <1>5
    <3>2. Executed(p) = {P[i] : i \in I}
      BY DEF Executed
    <3>3. Executed(p)' = {P[i] : i \in J}
      BY <1>6
    <3>. QED BY <3>1, <3>2, <3>3
  <2> HIDE DEF P, I, J
  <2>2. {P[i] : i \in J} = {P[i] : i \in I} \cup {P[pc[p]]}
    BY <2>1
  <2>. QED BY <2>1, <2>2 DEF P
<1>8. pc'[p] <= Len(Program(p)) + 1
  BY <1>2, <1>3
<1>9. \A x \in Proc \ {p} : pc'[x] = pc[x]
  BY <1>1 DEF TypeOK
<1>. QED BY <1>1, <1>4, <1>7, <1>8, <1>9

\* A check reads a committed record: one that the transaction has written is
\* checked for its absence only, and then the check fails.
LEMMA CheckReadsCommitted ==
    ASSUME RInv, NEW p \in Proc, req[p] # Nil, pc[p] <= Len(Program(p)),
           Program(p)[pc[p]].cmd = "check", MRT!View(p, Program(p)[pc[p]].key) \in Program(p)[pc[p]].arg
    PROVE  Program(p)[pc[p]].key \notin MRT!Writes(p)
<1> DEFINE c == Program(p)[pc[p]]
<1>. SUFFICES ASSUME c.key \in MRT!Writes(p) PROVE FALSE
  OBVIOUS
<1>1. TypeOK /\ Doing(p)
  BY DEF RInv, IInv, Progress, Thread
<1>2. PICK i \in 1..(pc[p] - 1) : Program(p)[i].cmd # "check" /\ Program(p)[i].key = c.key
  BY <1>1 DEF Doing, Executed
<1>3. /\ WellFormed(Program(p)) /\ DOMAIN Program(p) = 1..Len(Program(p)) /\ Len(Program(p)) \in Nat
      /\ pc[p] \in Nat /\ pc[p] > 0
  BY <1>1, ProgramCommands
<1>4. i \in DOMAIN Program(p) /\ pc[p] \in DOMAIN Program(p) /\ i < pc[p]
  BY <1>2, <1>3
<1>5. c.arg = {Nil}
  BY <1>2, <1>3, <1>4, SMTT(30) DEF WellFormed
<1>6. txn[p].prov[c.key] = Nil
  BY <1>5 DEF MRT!View
<1>7. txn[p].prov[c.key] \in RecordType(c.key) /\ c.key.set \in {"shard", "current", "exec"}
  <2>1. c.key.set \in {"shard", "current", "exec"}
    BY <1>1, <1>3, <1>4, ProgramCommands, SMTT(30)
  <2>. QED BY <1>1, <2>1, SMTT(30) DEF TypeOK
<1>8. RecordType(c.key) \in {RangeID, Pointer, Execution}
  BY <1>7 DEF RecordType
<1>. QED BY <1>6, <1>7, <1>8, ConstantsAssumption

\* A check that passes holds of the committed record it has read.
LEMMA CheckProgress ==
    ASSUME RInv, NEW p \in Proc, CheckPasses(p), CallerBuilt(p)
    PROVE  Progress'
<1> DEFINE c == Program(p)[pc[p]]
<1>1. /\ req[p] # Nil /\ pc[p] <= Len(Program(p)) /\ c.cmd = "check" /\ MRT!View(p, c.key) \in c.arg
      /\ MRT!TxnRead(p, c.key) /\ Advance(p)
  BY DEF CheckPasses
<1>2. IInv /\ TypeOK /\ Doing(p)
  BY <1>1 DEF RInv, IInv, Progress, Thread
<1>3. c.key \notin MRT!Writes(p)
  BY <1>1, CheckReadsCommitted
<1>4. rec[c.key] \in c.arg /\ (c.key.set = "exec" => BuiltFromLoaded(req[p], rec[c.key]))
  BY <1>1, <1>3, SMTT(30) DEF MRT!View, CallerBuilt
<1>5. /\ req'[p] = req[p] /\ Program(p)' = Program(p) /\ Executed(p)' = Executed(p) \cup {c}
      /\ pc'[p] <= Len(Program(p)) + 1
      /\ \A x \in Proc \ {p} : req'[x] = req[x] /\ range'[x] = range[x] /\ pc'[x] = pc[x]
  BY <1>1, <1>2, AdvanceFacts
<1> HIDE DEF c
<1>6. txn' = [txn EXCEPT ![p].reads = @ \cup {c.key}] /\ rec' = rec
  BY <1>1, <1>3 DEF MRT!TxnRead
<1>7. /\ txn'[p].reads = txn[p].reads \cup {c.key} /\ txn'[p].stale = txn[p].stale /\ txn'[p].prov = txn[p].prov
      /\ \A x \in Proc \ {p} : txn'[x] = txn[x]
  BY <1>2, <1>6 DEF TypeOK
<1>8. Thread(p)'
  <2>1. MRT!Writes(p)' = MRT!Writes(p)
    BY <1>7 DEF MRT!Writes
  <2>2. ASSUME NEW d \in Executed(p), d.cmd = "check" PROVE StillHolds(p, d)'
    <3>1. StillHolds(p, d)
      BY <1>2, <2>2 DEF Doing
    <3>. QED BY <1>5, <1>6, <1>7, <3>1 DEF StillHolds
  <2>3. ASSUME NEW d, d = c PROVE StillHolds(p, d)'
    BY <1>4, <1>5, <1>6, <1>7, <2>3 DEF StillHolds
  <2>4. {d \in Executed(p)' : d.cmd # "check"} = {d \in Executed(p) : d.cmd # "check"}
    BY <1>1, <1>5
  <2>5. ASSUME NEW k \in MRT!Writes(p), k.set \in {"htask", "histbranch"}
        PROVE  txn'[p].prov[k] = Entries(k)' \cup Added(p, k)'
    <3>1. {d \in Executed(p)' : d.cmd = "add" /\ d.key = k} = {d \in Executed(p) : d.cmd = "add" /\ d.key = k}
      BY <1>1, <1>5
    <3>2. Added(p, k)' = Added(p, k)
      BY <3>1 DEF Added
    <3>3. Entries(k)' = Entries(k)
      BY <1>6 DEF Entries
    <3>. QED BY <1>2, <1>7, <2>5, <3>2, <3>3, SMTT(30) DEF Doing
  <2>6. MRT!Writes(p)' = {d.key : d \in {e \in Executed(p)' : e.cmd # "check"}}
    BY <1>2, <2>1, <2>4 DEF Doing
  <2>7. \A d \in Executed(p)' : d.cmd = "check" => StillHolds(p, d)'
    BY <1>5, <2>2, <2>3, SMTT(30)
  <2>8. \A d \in Executed(p)' : d.cmd = "put" => txn'[p].prov[d.key] = d.arg
    BY <1>1, <1>2, <1>5, <1>7, SMTT(30) DEF Doing
  <2>9. Doing(p)'
    BY <1>5, <2>1, <2>5, <2>6, <2>7, <2>8 DEF Doing
  <2>. QED BY <1>1, <1>5, <2>9 DEF Thread
<1>9. ASSUME NEW x \in Proc, x # p PROVE Thread(x)'
  <2>1. req'[x] = req[x] /\ range'[x] = range[x] /\ pc'[x] = pc[x] /\ txn'[x] = txn[x] /\ rec' = rec
    BY <1>5, <1>6, <1>7, <1>9, SMTT(30)
  <2>. QED BY <2>1, ThreadFrame DEF RInv, Progress
<1>. QED BY <1>8, <1>9 DEF Progress

\* No record is put twice: the conditions that guard the two puts cannot both
\* hold of the committed record.
LEMMA PutsOnce ==
    ASSUME RInv, NEW p \in Proc, req[p] # Nil, pc[p] <= Len(Program(p)),
           Program(p)[pc[p]].cmd = "put", Program(p)[pc[p]].key \notin txn[p].stale,
           NEW d \in Executed(p), d.cmd = "put"
    PROVE  d.key # Program(p)[pc[p]].key
<1> DEFINE j == pc[p]
           c == Program(p)[j]
<1>. SUFFICES ASSUME d.key = c.key PROVE FALSE
  OBVIOUS
<1>1. TypeOK /\ Doing(p)
  BY DEF RInv, IInv, Progress, Thread
<1>2. PICK i \in 1..(j - 1) : Program(p)[i] = d
  BY DEF Executed
<1>3. /\ WellFormed(Program(p)) /\ DOMAIN Program(p) = 1..Len(Program(p)) /\ Len(Program(p)) \in Nat
      /\ j \in Nat /\ j > 0
  BY <1>1, ProgramCommands
<1> HIDE DEF j
<1>4. i \in DOMAIN Program(p) /\ j \in DOMAIN Program(p) /\ i < j
  BY <1>2, <1>3 DEF j
<1>5. /\ i > 1 /\ Program(p)[i - 1].cmd = "check" /\ Program(p)[i - 1].key = c.key
      /\ j > 1 /\ Program(p)[j - 1].cmd = "check" /\ Program(p)[j - 1].key = c.key
  <2>0. \A x \in DOMAIN Program(p) : Program(p)[x].cmd = "put" =>
            x > 1 /\ Program(p)[x - 1].cmd = "check" /\ Program(p)[x - 1].key = Program(p)[x].key
    BY <1>3 DEF WellFormed
  <2>1. Program(p)[i].cmd = "put" /\ Program(p)[i].key = c.key /\ Program(p)[j].cmd = "put" /\ Program(p)[j].key = c.key
    BY <1>2 DEF j
  <2>2. i > 1 /\ Program(p)[i - 1].cmd = "check" /\ Program(p)[i - 1].key = Program(p)[i].key
    BY <1>4, <2>0, <2>1, Zenon
  <2>3. j > 1 /\ Program(p)[j - 1].cmd = "check" /\ Program(p)[j - 1].key = Program(p)[j].key
    BY <1>4, <2>0, <2>1, Zenon
  <2>. QED BY <2>1, <2>2, <2>3
<1>6. Program(p)[i - 1].arg \cap Program(p)[j - 1].arg = {}
  BY <1>2, <1>3, <1>4, SMTT(30) DEF WellFormed, j
<1>7. i - 1 \in 1..(j - 1) /\ j - 1 \in 1..(j - 1)
  BY <1>2, <1>3, <1>5
<1>8. Program(p)[i - 1] \in Executed(p) /\ Program(p)[j - 1] \in Executed(p)
  BY <1>7, SMTT(30) DEF Executed, j
<1>9. rec[c.key] \in Program(p)[i - 1].arg /\ rec[c.key] \in Program(p)[j - 1].arg
  BY <1>1, <1>5, <1>8 DEF Doing, StillHolds, j
<1>. QED BY <1>6, <1>9

\* A record that is added to is never absent once it is there.
LEMMA MapRecords ==
    ASSUME NEW k, k.set \in {"htask", "histbranch"}
    PROVE  Nil \notin RecordType(k)
<1> DEFINE A == SUBSET (Run \X DBVersion)
           B == SUBSET (Run \X EventID)
<1>1. RecordType(k) = A \/ RecordType(k) = B
  BY DEF RecordType
<1>2. \A S \in A \cup B : S # Nil
  BY AbsenceAssumption
<1> HIDE DEF A, B
<1>. QED BY <1>1, <1>2

\* A write enters the provisional version, on top of what it was added to.
LEMMA WriteProgress ==
    ASSUME RInv, NEW p \in Proc, WriteRecord(p)
    PROVE  Progress'
<1> DEFINE c == Program(p)[pc[p]]
           old == MRT!View(p, c.key)
           v == IF c.cmd = "put" THEN c.arg ELSE (IF old = Nil THEN {} ELSE old) \cup c.arg
<1>1. /\ req[p] # Nil /\ pc[p] <= Len(Program(p)) /\ c.cmd \in {"put", "add"}
      /\ MRT!TxnWrite(p, c.key, v) /\ Advance(p)
  BY DEF WriteRecord
<1>9. /\ c.cmd = "put" => v = c.arg
      /\ c.cmd = "add" => v = (IF old = Nil THEN {} ELSE old) \cup c.arg
      /\ old = MRT!View(p, c.key)
  OBVIOUS
<1> HIDE DEF old, v
<1>2. IInv /\ TypeOK /\ Doing(p)
  BY <1>1 DEF RInv, IInv, Progress, Thread
<1>3. /\ req'[p] = req[p] /\ Program(p)' = Program(p) /\ Executed(p)' = Executed(p) \cup {c}
      /\ pc'[p] <= Len(Program(p)) + 1
      /\ \A x \in Proc \ {p} : req'[x] = req[x] /\ range'[x] = range[x] /\ pc'[x] = pc[x]
  BY <1>1, <1>2, AdvanceFacts
<1>4. pc[p] \in 1..Len(Program(p))
  BY <1>1, <1>2, ProgramCommands, SMTT(30)
<1>5. /\ c.key \in Key
      /\ c.cmd = "put" => c.key.set \in {"current", "exec"}
      /\ c.cmd = "add" => c.key.set \in {"htask", "histbranch"}
  BY <1>1, <1>2, <1>4, ProgramCommands
<1>6. \A d \in Executed(p) : d.cmd = "put" /\ c.cmd = "put" => d.key # c.key
  BY <1>1, PutsOnce, SMTT(30) DEF MRT!TxnWrite
<1>7. \A d \in Executed(p) : /\ d.cmd \in {"check", "put", "add"}
                             /\ d.cmd = "put" => d.key.set \in {"current", "exec"}
  BY <1>1, <1>2, ExecutedCommands DEF Doing
<1> HIDE DEF c
<1>8. c.cmd = "add" => v = Entries(c.key) \cup Added(p, c.key) \cup c.arg
  <2>. SUFFICES ASSUME c.cmd = "add" PROVE (IF old = Nil THEN {} ELSE old) = Entries(c.key) \cup Added(p, c.key)
    BY <1>9
  <2>1. CASE c.key \in MRT!Writes(p)
    <3>1. old = txn[p].prov[c.key] /\ old \in RecordType(c.key)
      BY <1>2, <1>9, <2>1 DEF MRT!View, TypeOK
    <3>2. old # Nil
      BY <1>5, <3>1, MapRecords, SMTT(30)
    <3>3. txn[p].prov[c.key] = Entries(c.key) \cup Added(p, c.key)
      BY <1>2, <1>5, <2>1 DEF Doing
    <3>. QED BY <3>1, <3>2, <3>3
  <2>2. CASE c.key \notin MRT!Writes(p)
    <3>1. old = rec[c.key]
      BY <1>9, <2>2 DEF MRT!View
    <3>2. {d \in Executed(p) : d.cmd = "add" /\ d.key = c.key} = {}
      BY <1>2, <2>2 DEF Doing
    <3>3. Added(p, c.key) = {}
      BY <3>2 DEF Added
    <3>. QED BY <3>1, <3>3 DEF Entries
  <2>. QED BY <2>1, <2>2
<1>10. /\ rec' = rec
       /\ txn' = [txn EXCEPT ![p].prov =
                     [x \in MRT!Writes(p) \cup {c.key} |-> IF x = c.key THEN v ELSE txn[p].prov[x]]]
  BY <1>1 DEF MRT!TxnWrite
<1>11. /\ txn'[p].reads = txn[p].reads /\ txn'[p].stale = txn[p].stale
       /\ txn'[p].prov = [x \in MRT!Writes(p) \cup {c.key} |-> IF x = c.key THEN v ELSE txn[p].prov[x]]
       /\ \A x \in Proc \ {p} : txn'[x] = txn[x]
  BY <1>2, <1>10, SMTT(30) DEF TypeOK
<1>12. Thread(p)'
  <2>1. MRT!Writes(p)' = MRT!Writes(p) \cup {c.key}
    BY <1>11 DEF MRT!Writes
  <2>2. ASSUME NEW d \in Executed(p)', d.cmd = "check" PROVE StillHolds(p, d)'
    <3>1. d \in Executed(p)
      BY <1>1, <1>3, <2>2, SMTT(30)
    <3>2. StillHolds(p, d)
      BY <1>2, <2>2, <3>1 DEF Doing
    <3>. QED BY <1>3, <1>10, <1>11, <3>2, SMTT(30) DEF StillHolds
  <2>3. {d \in Executed(p)' : d.cmd # "check"} = {d \in Executed(p) : d.cmd # "check"} \cup {c}
    BY <1>1, <1>3
  <2>4. MRT!Writes(p)' = {d.key : d \in {e \in Executed(p)' : e.cmd # "check"}}
    BY <1>2, <2>1, <2>3 DEF Doing
  <2>5. ASSUME NEW d \in Executed(p)', d.cmd = "put" PROVE txn'[p].prov[d.key] = d.arg
    <3>1. CASE d = c
      BY <1>9, <1>11, <2>5, <3>1, SMTT(30)
    <3>2. CASE d \in Executed(p)
      <4>1. d.key # c.key
        BY <1>1, <1>5, <1>6, <1>7, <2>5, <3>2, SMTT(30)
      <4>2. d.key \in MRT!Writes(p) /\ txn[p].prov[d.key] = d.arg
        BY <1>2, <2>5, <3>2 DEF Doing
      <4>. QED BY <1>11, <4>1, <4>2
    <3>. QED BY <1>3, <3>1, <3>2
  <2>6. ASSUME NEW k \in MRT!Writes(p)', k.set \in {"htask", "histbranch"}
        PROVE  txn'[p].prov[k] = Entries(k)' \cup Added(p, k)'
    <3>1. Entries(k)' = Entries(k)
      BY <1>10 DEF Entries
    <3>2. CASE k # c.key
      <4>1. {d \in Executed(p)' : d.cmd = "add" /\ d.key = k} = {d \in Executed(p) : d.cmd = "add" /\ d.key = k}
        BY <1>3, <3>2
      <4>2. Added(p, k)' = Added(p, k)
        BY <4>1 DEF Added
      <4>3. k \in MRT!Writes(p) /\ txn'[p].prov[k] = txn[p].prov[k]
        BY <1>11, <2>1, <3>2
      <4>. QED BY <1>2, <2>6, <3>1, <4>2, <4>3 DEF Doing
    <3>3. CASE k = c.key
      <4>1. c.cmd = "add" /\ txn'[p].prov[k] = v
        BY <1>1, <1>5, <1>11, <2>6, <3>3, SMTT(30)
      <4>2. {d \in Executed(p)' : d.cmd = "add" /\ d.key = k} = {d \in Executed(p) : d.cmd = "add" /\ d.key = k} \cup {c}
        BY <1>3, <3>3, <4>1
      <4>3. Added(p, k)' = Added(p, k) \cup c.arg
        BY <4>2, SMTT(30) DEF Added
      <4>. QED BY <1>8, <3>1, <3>3, <4>1, <4>3, SMTT(30)
    <3>. QED BY <3>2, <3>3
  <2>7. Doing(p)'
    BY <1>3, <2>2, <2>4, <2>5, <2>6, SMTT(30) DEF Doing
  <2>. QED BY <1>1, <1>3, <2>7 DEF Thread
<1>13. ASSUME NEW x \in Proc, x # p PROVE Thread(x)'
  <2>1. req'[x] = req[x] /\ range'[x] = range[x] /\ pc'[x] = pc[x] /\ txn'[x] = txn[x] /\ rec' = rec
    BY <1>3, <1>10, <1>11, <1>13
  <2>. QED BY <2>1, ThreadFrame DEF RInv, Progress
<1>. QED BY <1>12, <1>13 DEF Progress

\* One case per action of Next.
LEMMA ProgressStep ==
    ASSUME RInv, [Next]_vars
    PROVE  RInv'
<1>1. IInv'
  BY NextStep DEF RInv
<1>. SUFFICES Progress'
  BY <1>1, SMTT(30) DEF RInv
<1>2. ASSUME NEW h \in Host, AcquireShard(h) \/ RenewShard(h) PROVE Progress'
  BY <1>2, PutProgress, KeyFacts DEF AcquireShard, RenewShard
<1>3. CreateShard => Progress'
  BY PutProgress, KeyFacts DEF CreateShard
<1>4. ASSUME NEW r \in Run, DeleteCurrentWorkflowExecution(r) \/ DeleteWorkflowExecution(r) PROVE Progress'
  BY <1>4, PutProgress, KeyFacts DEF DeleteCurrentWorkflowExecution, DeleteWorkflowExecution
<1>5. ASSUME NEW p \in Proc, NEW h \in Host, Begin(p, h) PROVE Progress'
  BY <1>5, BeginProgress
<1>6. ASSUME NEW p \in Proc, CheckPasses(p) /\ CallerBuilt(p) PROVE Progress'
  BY <1>6, CheckProgress
<1>7. ASSUME NEW p \in Proc, WriteRecord(p) PROVE Progress'
  BY <1>7, WriteProgress
<1>8. ASSUME NEW p \in Proc, CheckFails(p) \/ CommandFails(p) \/ CommitConflict(p) PROVE Progress'
  BY <1>8, AbortProgress DEF CheckFails, CommandFails, CommitConflict
<1>9. ASSUME NEW p \in Proc, Commit(p) PROVE Progress'
  BY <1>9, CommitProgress
<1>10. CASE UNCHANGED vars
  <2>1. ASSUME NEW x \in Proc PROVE Thread(x)'
    <3>1. req'[x] = req[x] /\ range'[x] = range[x] /\ pc'[x] = pc[x] /\ txn'[x] = txn[x] /\ rec' = rec
      BY <1>10 DEF vars
    <3>2. IInv /\ Thread(x)
      BY DEF RInv, Progress
    <3>. QED BY <3>1, <3>2, ThreadFrame
  <2>. QED BY <2>1 DEF Progress
<1>11. CASE Next
  BY <1>2, <1>3, <1>4, <1>5, <1>6, <1>7, <1>8, <1>9, <1>11, Zenon DEF Next
<1>. QED BY <1>10, <1>11

-----------------------------------------------------------------------------
\* All commands of the operation the thread executes.
CommandsOf(p) == Elements(Commands(req[p], range[p]))

\* At a commit every command has been executed, every check holds of the stored
\* record, every put is what is stored next, and no other record changes.
LEMMA CommitFacts ==
    ASSUME RInv, NEW p \in Proc, Commit(p)
    PROVE  /\ req[p] \in Requests /\ range[p] \in RangeID
           /\ Executed(p) = CommandsOf(p)
           /\ \A c \in CommandsOf(p) : c.cmd = "check" =>
                 /\ rec[c.key] \in c.arg
                 /\ c.key.set = "exec" => BuiltFromLoaded(req[p], rec[c.key])
           /\ \A c \in CommandsOf(p) : c.cmd = "put" => rec'[c.key] = c.arg
           /\ \A k \in Key : (\A c \in CommandsOf(p) : c.cmd # "check" => c.key # k) => rec'[k] = rec[k]
           /\ \A k \in Key : k.set \in {"htask", "histbranch"} => Entries(k)' = Entries(k) \cup Added(p, k)
<1>1. /\ req[p] # Nil /\ pc[p] > Len(Program(p)) /\ txn[p].stale = {}
      /\ rec' = [k \in Key |-> MRT!View(p, k)]
  BY DEF Commit, MRT!TxnCommit, MRT!TxnVerified
<1>2. TypeOK /\ Doing(p)
  BY <1>1 DEF RInv, IInv, Progress, Thread
<1>3. req[p] \in Requests /\ range[p] \in RangeID
  BY <1>1, <1>2, SMTT(30) DEF TypeOK
<1>4. DOMAIN Program(p) = 1..Len(Program(p)) /\ Len(Program(p)) \in Nat /\ pc[p] \in Nat
  BY <1>1, <1>2, ProgramCommands, Zenon
<1>5. pc[p] - 1 = Len(Program(p))
  BY <1>1, <1>2, <1>4 DEF Doing
<1>6. Executed(p) = CommandsOf(p)
  <2> DEFINE I == 1..(pc[p] - 1)
  <2>1. I = DOMAIN Program(p)
    BY <1>4, <1>5
  <2>2. Executed(p) = {Program(p)[i] : i \in I}
    BY DEF Executed
  <2> HIDE DEF I
  <2>3. Executed(p) = Elements(Program(p))
    BY <2>1, <2>2, SMTT(30) DEF Elements
  <2>. QED BY <2>3 DEF CommandsOf, Program
<1>7. \A c \in Executed(p) : c.key \in Key
  BY <1>1, <1>2, ExecutedCommands, SMTT(30) DEF Doing
<1>8. ASSUME NEW c \in Executed(p), c.cmd = "check"
      PROVE  rec[c.key] \in c.arg /\ (c.key.set = "exec" => BuiltFromLoaded(req[p], rec[c.key]))
  BY <1>1, <1>2, <1>8 DEF Doing, StillHolds
<1>9. ASSUME NEW c \in Executed(p), c.cmd = "put" PROVE rec'[c.key] = c.arg
  <2>1. c.key \in MRT!Writes(p) /\ txn[p].prov[c.key] = c.arg
    BY <1>2, <1>9 DEF Doing
  <2>. QED BY <1>1, <1>7, <2>1 DEF MRT!View
<1>10. ASSUME NEW k \in Key, \A c \in Executed(p) : c.cmd # "check" => c.key # k PROVE rec'[k] = rec[k]
  <2>1. k \notin MRT!Writes(p)
    BY <1>2, <1>10 DEF Doing
  <2>. QED BY <1>1, <2>1 DEF MRT!View
<1>11. ASSUME NEW k \in Key, k.set \in {"htask", "histbranch"}
       PROVE  Entries(k)' = Entries(k) \cup Added(p, k)
  <2>1. CASE k \in MRT!Writes(p)
    <3>1. rec'[k] = txn[p].prov[k] /\ txn[p].prov[k] \in RecordType(k)
      BY <1>1, <1>2, <2>1 DEF MRT!View, TypeOK
    <3>2. rec'[k] # Nil
      BY <1>11, <3>1, MapRecords, SMTT(30)
    <3>3. txn[p].prov[k] = Entries(k) \cup Added(p, k)
      BY <1>2, <1>11, <2>1 DEF Doing
    <3>4. Entries(k)' = rec'[k]
      BY <3>2 DEF Entries
    <3>. QED BY <3>1, <3>3, <3>4, SMTT(30)
  <2>2. CASE k \notin MRT!Writes(p)
    <3>1. {d \in Executed(p) : d.cmd = "add" /\ d.key = k} = {}
      BY <1>2, <2>2 DEF Doing
    <3>2. Added(p, k) = {}
      BY <3>1 DEF Added
    <3>3. rec'[k] = rec[k]
      BY <1>1, <2>2 DEF MRT!View
    <3>4. Entries(k)' = Entries(k)
      BY <3>3 DEF Entries
    <3>. QED BY <3>2, <3>4
  <2>. QED BY <2>1, <2>2
<1>. QED BY <1>3, <1>6, <1>8, <1>9, <1>10, <1>11
=============================================================================
