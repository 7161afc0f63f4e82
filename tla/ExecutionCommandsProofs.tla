---------------------- MODULE ExecutionCommandsProofs -----------------------
(***************************************************************************)
(* The commands of an operation as a sequence: which ones it holds, that   *)
(* each put follows the check of the same record, that no record is put    *)
(* twice under conditions that can both hold, and that what has been       *)
(* written is checked only for its absence.                                *)
(*                                                                         *)
(* These are facts about every request, in no particular state; the proofs *)
(* that the transactions implement the atomic store rest on them.          *)
(***************************************************************************)
EXTENDS ExecutionTxnProofs

(***************************************************************************)
(* The parts of a request, Nil where the operation has no such part.       *)
(***************************************************************************)
BaseOf(q) == IF q.op = "Create" THEN Nil ELSE q.base
CurOf(q)  == IF q.op = "ConflictResolve" THEN q.cur ELSE Nil
NewOf(q)  == IF q.op = "Set" THEN Nil ELSE q.new
EventBaseOf(q) == IF q.op \in {"Update", "ConflictResolve"} THEN q.base ELSE Nil

\* What an operation does to the pointer.
CreateHead(q) ==
    CASE q.mode = "BypassCurrent" -> <<>>
      [] q.mode = "UpdateCurrent" ->
           <<Check(Current, {c \in PointsTo(q.prevRun) :
                                c.lwv = q.prevLwv /\ c.state = "Completed"}),
             putCurrent(PointerTo(q.new))>>
      [] q.mode = "BrandNew" -> <<Check(Current, {Nil}), putCurrent(PointerTo(q.new))>>

UpdateHead(q) ==
    CASE q.mode = "IgnoreCurrent" -> <<>>
      [] q.mode = "BypassCurrent" -> <<assertNotCurrent(q.base.run)>>
      [] q.mode = "UpdateCurrent" ->
           <<Check(Current, PointsTo(q.base.run)),
             putCurrent(NewCurrent(q))>>

ResolveHead(q) ==
    CASE q.mode = "BypassCurrent" -> <<assertNotCurrent(q.base.run)>>
      [] q.mode = "UpdateCurrent" ->
           <<Check(Current, PointsTo(IF q.cur # Nil THEN q.cur.run ELSE q.base.run)),
             putCurrent(NewCurrent(q))>>

\* The commands on the pointer that the operation begins with.
HeadOf(q) ==
    CASE q.op = "Create"          -> CreateHead(q)
      [] q.op = "Update"          -> UpdateHead(q)
      [] q.op = "ConflictResolve" -> ResolveHead(q)
      [] q.op = "Set"             -> <<>>

\* A sequence of commands that puts a record right after it has checked it, never
\* puts one twice with conditions that can both hold, and checks a record that it
\* has written only for its absence.
WellFormed(s) ==
    /\ \A j \in DOMAIN s : s[j].cmd = "put" =>
         j > 1 /\ s[j - 1].cmd = "check" /\ s[j - 1].key = s[j].key
    /\ \A i, j \in DOMAIN s : i < j /\ s[i].key = s[j].key =>
         /\ s[i].cmd # "check" /\ s[j].cmd = "check" => s[j].arg = {Nil}
         /\ s[i].cmd = "put" /\ s[j].cmd = "put" => s[i - 1].arg \cap s[j - 1].arg = {}

\* The same, of a command of s and a later one of t.
Apart(s, t) ==
    \A i \in DOMAIN s, j \in DOMAIN t : s[i].key = t[j].key =>
         /\ s[i].cmd # "check" /\ t[j].cmd = "check" => t[j].arg = {Nil}
         /\ s[i].cmd = "put" /\ t[j].cmd = "put" => s[i - 1].arg \cap t[j - 1].arg = {}

\* The members of a sequence.
Elements(s) == {s[i] : i \in DOMAIN s}

-----------------------------------------------------------------------------
\* Sequences of commands put one after the other.
LEMMA ConcatFacts ==
    ASSUME NEW S, NEW s \in Seq(S), NEW t \in Seq(S)
    PROVE  /\ s \o t \in Seq(S)
           /\ DOMAIN (s \o t) = 1..(Len(s) + Len(t))
           /\ DOMAIN s = 1..Len(s) /\ DOMAIN t = 1..Len(t)
           /\ Len(s) \in Nat /\ Len(t) \in Nat
           /\ \A i \in 1..(Len(s) + Len(t)) :
                (s \o t)[i] = IF i <= Len(s) THEN s[i] ELSE t[i - Len(s)]
OBVIOUS

\* Two well-formed sequences that keep apart are well formed together.
LEMMA ConcatWellFormed ==
    ASSUME NEW S, NEW s \in Seq(S), NEW t \in Seq(S), WellFormed(s), WellFormed(t), Apart(s, t)
    PROVE  WellFormed(s \o t)
<1> DEFINE u == s \o t
           m == Len(s)
           n == Len(t)
<1>1. /\ DOMAIN u = 1..(m + n) /\ DOMAIN s = 1..m /\ DOMAIN t = 1..n /\ m \in Nat /\ n \in Nat
      /\ \A i \in 1..(m + n) : u[i] = IF i <= m THEN s[i] ELSE t[i - m]
  BY ConcatFacts
<1> HIDE DEF u, m, n
<1>2. ASSUME NEW j \in 1..(m + n), u[j].cmd = "put", j <= m
      PROVE  j > 1 /\ u[j] = s[j] /\ u[j - 1] = s[j - 1] /\ u[j - 1].cmd = "check" /\ u[j - 1].key = u[j].key
  <2>1. u[j] = s[j] /\ j \in DOMAIN s
    BY <1>1, <1>2
  <2>2. j > 1 /\ s[j - 1].cmd = "check" /\ s[j - 1].key = s[j].key
    BY <1>2, <2>1 DEF WellFormed
  <2>3. j - 1 \in 1..(m + n) /\ j - 1 <= m
    BY <1>1, <1>2, <2>2
  <2>4. u[j - 1] = s[j - 1]
    BY <1>1, <2>3
  <2>. QED BY <2>1, <2>2, <2>4
<1>3. ASSUME NEW j \in 1..(m + n), u[j].cmd = "put", j > m
      PROVE  j > 1 /\ u[j] = t[j - m] /\ u[j - 1] = t[(j - m) - 1] /\ u[j - 1].cmd = "check" /\ u[j - 1].key = u[j].key
  <2>1. u[j] = t[j - m] /\ j - m \in DOMAIN t
    BY <1>1, <1>3
  <2>2. j - m > 1 /\ t[(j - m) - 1].cmd = "check" /\ t[(j - m) - 1].key = t[j - m].key
    BY <1>3, <2>1 DEF WellFormed
  <2>3. j - 1 \in 1..(m + n) /\ ~(j - 1 <= m) /\ (j - 1) - m = (j - m) - 1 /\ j > 1
    BY <1>1, <1>3, <2>2
  <2>4. u[j - 1] = t[(j - m) - 1]
    BY <1>1, <2>3
  <2>. QED BY <2>1, <2>2, <2>3, <2>4
<1>4. ASSUME NEW i \in 1..(m + n), NEW j \in 1..(m + n), i < j, u[i].key = u[j].key
      PROVE  /\ u[i].cmd # "check" /\ u[j].cmd = "check" => u[j].arg = {Nil}
             /\ u[i].cmd = "put" /\ u[j].cmd = "put" => u[i - 1].arg \cap u[j - 1].arg = {}
  <2>1. CASE j <= m
    <3>1. u[i] = s[i] /\ u[j] = s[j] /\ i \in DOMAIN s /\ j \in DOMAIN s /\ i <= m
      BY <1>1, <1>4, <2>1
    <3>2. /\ s[i].cmd # "check" /\ s[j].cmd = "check" => s[j].arg = {Nil}
          /\ s[i].cmd = "put" /\ s[j].cmd = "put" => s[i - 1].arg \cap s[j - 1].arg = {}
      BY <1>4, <3>1 DEF WellFormed
    <3>. QED BY <1>2, <2>1, <3>1, <3>2
  <2>2. CASE i > m
    <3>1. /\ u[i] = t[i - m] /\ u[j] = t[j - m] /\ i - m \in DOMAIN t /\ j - m \in DOMAIN t
          /\ i - m < j - m /\ j > m
      BY <1>1, <1>4, <2>2
    <3>2. /\ t[i - m].cmd # "check" /\ t[j - m].cmd = "check" => t[j - m].arg = {Nil}
          /\ t[i - m].cmd = "put" /\ t[j - m].cmd = "put" => t[(i - m) - 1].arg \cap t[(j - m) - 1].arg = {}
      BY <1>4, <3>1 DEF WellFormed
    <3>. QED BY <1>3, <2>2, <3>1, <3>2, SMTT(30)
  <2>3. CASE i <= m /\ j > m
    <3>1. u[i] = s[i] /\ u[j] = t[j - m] /\ i \in DOMAIN s /\ j - m \in DOMAIN t
      BY <1>1, <1>4, <2>3
    <3>2. /\ s[i].cmd # "check" /\ t[j - m].cmd = "check" => t[j - m].arg = {Nil}
          /\ s[i].cmd = "put" /\ t[j - m].cmd = "put" => s[i - 1].arg \cap t[(j - m) - 1].arg = {}
      BY <1>4, <3>1 DEF Apart
    <3>. QED BY <1>2, <1>3, <2>3, <3>1, <3>2
  <2>4. j <= m \/ i > m \/ (i <= m /\ j > m)
    BY <1>1
  <2>. QED BY <2>1, <2>2, <2>3, <2>4
<1>5. \A j \in DOMAIN u : u[j].cmd = "put" => j > 1 /\ u[j - 1].cmd = "check" /\ u[j - 1].key = u[j].key
  <2>1. \A j \in 1..(m + n) : j <= m \/ j > m
    BY <1>1
  <2>. QED BY <1>1, <1>2, <1>3, <2>1
<1>6. WellFormed(u)
  BY <1>1, <1>4, <1>5 DEF WellFormed
<1>. QED BY <1>6 DEF u

\* A sequence that keeps apart from two others keeps apart from both together.
LEMMA ConcatApart ==
    ASSUME NEW S, NEW s \in Seq(S), NEW t \in Seq(S), NEW v \in Seq(S),
           WellFormed(s), WellFormed(t), Apart(s, v), Apart(t, v)
    PROVE  Apart(s \o t, v)
<1> DEFINE u == s \o t
           m == Len(s)
           n == Len(t)
<1>1. /\ DOMAIN u = 1..(m + n) /\ DOMAIN s = 1..m /\ DOMAIN t = 1..n /\ m \in Nat /\ n \in Nat
      /\ \A i \in 1..(m + n) : u[i] = IF i <= m THEN s[i] ELSE t[i - m]
  BY ConcatFacts
<1> HIDE DEF u, m, n
<1>2. ASSUME NEW i \in 1..(m + n), NEW j \in DOMAIN v, u[i].key = v[j].key
      PROVE  /\ u[i].cmd # "check" /\ v[j].cmd = "check" => v[j].arg = {Nil}
             /\ u[i].cmd = "put" /\ v[j].cmd = "put" => u[i - 1].arg \cap v[j - 1].arg = {}
  <2>1. CASE i <= m
    <3>1. u[i] = s[i] /\ i \in DOMAIN s
      BY <1>1, <2>1
    <3>2. /\ s[i].cmd # "check" /\ v[j].cmd = "check" => v[j].arg = {Nil}
          /\ s[i].cmd = "put" /\ v[j].cmd = "put" => s[i - 1].arg \cap v[j - 1].arg = {}
      BY <1>2, <3>1 DEF Apart
    <3>3. s[i].cmd = "put" => u[i - 1] = s[i - 1]
      <4>1. s[i].cmd = "put" => i - 1 \in 1..(m + n) /\ i - 1 <= m
        BY <1>1, <2>1, <3>1 DEF WellFormed
      <4>. QED BY <1>1, <4>1
    <3>. QED BY <3>1, <3>2, <3>3
  <2>2. CASE i > m
    <3>1. u[i] = t[i - m] /\ i - m \in DOMAIN t
      BY <1>1, <2>2
    <3>2. /\ t[i - m].cmd # "check" /\ v[j].cmd = "check" => v[j].arg = {Nil}
          /\ t[i - m].cmd = "put" /\ v[j].cmd = "put" => t[(i - m) - 1].arg \cap v[j - 1].arg = {}
      BY <1>2, <3>1 DEF Apart
    <3>3. t[i - m].cmd = "put" => u[i - 1] = t[(i - m) - 1]
      <4>1. t[i - m].cmd = "put" => i - m > 1
        BY <3>1 DEF WellFormed
      <4>2. t[i - m].cmd = "put" => i - 1 \in 1..(m + n) /\ ~(i - 1 <= m) /\ (i - 1) - m = (i - m) - 1
        BY <1>1, <2>2, <4>1
      <4>. QED BY <1>1, <4>2
    <3>. QED BY <3>1, <3>2, <3>3
  <2>. QED BY <1>1, <2>1, <2>2
<1>3. Apart(u, v)
  BY <1>1, <1>2 DEF Apart
<1>. QED BY <1>3 DEF u

\* The commands of two sequences put together.
LEMMA ConcatElements ==
    ASSUME NEW S, NEW s \in Seq(S), NEW t \in Seq(S)
    PROVE  Elements(s \o t) = Elements(s) \cup Elements(t)
<1> DEFINE u == s \o t
           m == Len(s)
           n == Len(t)
<1>1. /\ DOMAIN u = 1..(m + n) /\ DOMAIN s = 1..m /\ DOMAIN t = 1..n /\ m \in Nat /\ n \in Nat
      /\ \A i \in 1..(m + n) : u[i] = IF i <= m THEN s[i] ELSE t[i - m]
  BY ConcatFacts
<1> HIDE DEF u, m, n
<1>2. ASSUME NEW i \in DOMAIN u PROVE u[i] \in Elements(s) \cup Elements(t)
  <2>1. CASE i <= m
    BY <1>1, <2>1 DEF Elements
  <2>2. CASE i > m
    <3>1. i - m \in DOMAIN t /\ u[i] = t[i - m]
      BY <1>1, <2>2
    <3>. QED BY <3>1 DEF Elements
  <2>. QED BY <1>1, <2>1, <2>2
<1>3. ASSUME NEW i \in DOMAIN s PROVE s[i] \in Elements(u)
  <2>1. i \in DOMAIN u /\ u[i] = s[i]
    BY <1>1
  <2>. QED BY <2>1 DEF Elements
<1>4. ASSUME NEW i \in DOMAIN t PROVE t[i] \in Elements(u)
  <2>1. i + m \in 1..(m + n) /\ ~(i + m <= m) /\ (i + m) - m = i
    BY <1>1
  <2>2. i + m \in DOMAIN u /\ u[i + m] = t[i]
    BY <1>1, <2>1
  <2>. QED BY <2>2 DEF Elements
<1>5. Elements(u) \subseteq Elements(s) \cup Elements(t)
  BY <1>2 DEF Elements
<1>6. Elements(s) \subseteq Elements(u)
  BY <1>3 DEF Elements
<1>7. Elements(t) \subseteq Elements(u)
  BY <1>4 DEF Elements
<1>. QED BY <1>5, <1>6, <1>7 DEF u

-----------------------------------------------------------------------------
\* The records of different kinds, and of different runs, are different.
LEMMA KeysDiffer ==
    /\ \A r \in Run : /\ Exec(r) # Shard /\ Exec(r) # Current /\ Exec(r) # TaskMap
                      /\ Branch(r) # Shard /\ Branch(r) # Current /\ Branch(r) # TaskMap
    /\ \A r, x \in Run : Exec(r) # Branch(x) /\ (Exec(r) = Exec(x) => r = x) /\ (Branch(r) = Branch(x) => r = x)
    /\ TaskMap # Shard /\ TaskMap # Current /\ Current # Shard
    /\ Shard.set = "shard" /\ Current.set = "current" /\ TaskMap.set = "htask"
    /\ \A r \in Run : Exec(r).set = "exec" /\ Branch(r).set = "histbranch"
BY DEF Shard, Current, TaskMap, Exec, Branch, Rec

\* The parts of a request are snapshots, of different runs where two are rewritten.
LEMMA PartFacts ==
    ASSUME NEW q \in Requests
    PROVE  /\ BaseOf(q) \in Snapshot \cup {Nil} /\ CurOf(q) \in Snapshot \cup {Nil}
           /\ NewOf(q) \in Snapshot \cup {Nil} /\ EventBaseOf(q) \in {Nil, BaseOf(q)}
           /\ BaseOf(q) # Nil /\ CurOf(q) # Nil => CurOf(q).run # BaseOf(q).run
<1>1. q.op = "ConflictResolve" => (q.cur # Nil => q.cur.run # q.base.run)
  <2>1. q \in CreateRequest \/ q \in UpdateRequest \/ q \in SetRequest
          \/ (q \in ConflictResolveRequest /\ DistinctRuns(q))
    BY TxnRequestsAssumption DEF Request
  <2>2. q \in CreateRequest \/ q \in UpdateRequest \/ q \in SetRequest => q.op # "ConflictResolve"
    BY DEF CreateRequest, UpdateRequest, SetRequest
  <2>. QED BY <2>1, <2>2 DEF DistinctRuns
<1>. QED BY <1>1, RequestFacts DEF BaseOf, CurOf, NewOf, EventBaseOf

\* The commands on the pointer: none, a check, or a check and a put.
LEMMA HeadShape ==
    ASSUME NEW q \in Requests
    PROVE  \/ HeadOf(q) = <<>>
           \/ \E V \in SUBSET (Pointer \cup {Nil}) : HeadOf(q) = <<Check(Current, V)>>
           \/ \E V \in SUBSET (Pointer \cup {Nil}), c \in Pointer : HeadOf(q) = <<Check(Current, V), putCurrent(c)>>
<1>1. CASE q.op = "Create"
  <2>1. q.new \in Snapshot /\ q.mode \in {"BrandNew", "UpdateCurrent", "BypassCurrent"}
    BY <1>1, RequestFacts
  <2>2. PointerTo(q.new) \in Pointer
    BY <2>1, SnapshotFacts
  <2>3. {c \in PointsTo(q.prevRun) : c.lwv = q.prevLwv /\ c.state = "Completed"} \in SUBSET (Pointer \cup {Nil})
    BY DEF PointsTo
  <2>4. HeadOf(q) = CreateHead(q)
    BY <1>1 DEF HeadOf
  <2>. QED BY <2>1, <2>2, <2>3, <2>4, Zenon DEF CreateHead
<1>2. CASE q.op = "Update"
  <2>1. q.base \in Snapshot /\ q.new \in Snapshot \cup {Nil}
           /\ q.mode \in {"IgnoreCurrent", "UpdateCurrent", "BypassCurrent"}
    BY <1>2, RequestFacts
  <2>2. NewCurrent(q) \in Pointer
    BY <2>1, SnapshotFacts DEF NewCurrent
  <2>3. PointsTo(q.base.run) \in SUBSET (Pointer \cup {Nil})
    BY DEF PointsTo
  <2>4. HeadOf(q) = UpdateHead(q)
    BY <1>2 DEF HeadOf
  <2>. QED BY <2>1, <2>2, <2>3, <2>4 DEF UpdateHead, assertNotCurrent
<1>3. CASE q.op = "ConflictResolve"
  <2>1. q.base \in Snapshot /\ q.cur \in Snapshot \cup {Nil} /\ q.new \in Snapshot \cup {Nil}
           /\ q.mode \in {"UpdateCurrent", "BypassCurrent"}
    BY <1>3, RequestFacts
  <2>2. NewCurrent(q) \in Pointer
    BY <2>1, SnapshotFacts DEF NewCurrent
  <2>3. \A r : PointsTo(r) \in SUBSET (Pointer \cup {Nil})
    BY DEF PointsTo
  <2>4. HeadOf(q) = ResolveHead(q)
    BY <1>3 DEF HeadOf
  <2>. QED BY <2>1, <2>2, <2>3, <2>4 DEF ResolveHead, assertNotCurrent
<1>4. CASE q.op = "Set"
  BY <1>4 DEF HeadOf
<1>. QED BY <1>1, <1>2, <1>3, <1>4, RequestFacts

\* They are commands that ExecutionTxn executes.
LEMMA HeadType ==
    ASSUME NEW q \in Requests
    PROVE  HeadOf(q) \in Seq(OtherCommand)
<1>1. \A V \in SUBSET (Pointer \cup {Nil}) : <<Check(Current, V)>> \in Seq(OtherCommand)
  BY SingleCommands
<1>2. \A V \in SUBSET (Pointer \cup {Nil}), c \in Pointer : <<Check(Current, V), putCurrent(c)>> \in Seq(OtherCommand)
  BY SingleCommands
<1>3. <<>> \in Seq(OtherCommand)
  OBVIOUS
<1>. QED BY <1>1, <1>2, <1>3, HeadShape, Zenon

\* Every operation is a put-together of the same pieces, some of them empty.
LEMMA OperationPieces ==
    ASSUME NEW q \in Requests
    PROVE  Operation(q) = HeadOf(q) \o rewriteRun(BaseOf(q)) \o rewriteRun(CurOf(q)) \o createRun(NewOf(q))
                            \o eventsIf(EventBaseOf(q)) \o eventsIf(NewOf(q)) \o eventsIf(CurOf(q))
<1>0. \A s \in Seq(OtherCommand) : s \o <<>> = s /\ <<>> \o s = s
  OBVIOUS
<1>1. \A s, t \in Seq(OtherCommand) : s \o t \in Seq(OtherCommand)
  OBVIOUS
<1>2. rewriteRun(Nil) = <<>> /\ createRun(Nil) = <<>> /\ eventsIf(Nil) = <<>> /\ <<>> \in Seq(OtherCommand)
  BY DEF rewriteRun, createRun, eventsIf
<1>3. HeadOf(q) \in Seq(OtherCommand)
  BY HeadType
<1>4. CASE q.op = "Create"
  <2>1. q.new \in Snapshot
    BY <1>4, RequestFacts
  <2>2. createRun(q.new) \in Seq(OtherCommand) /\ eventsIf(q.new) \in Seq(OtherCommand)
    BY <2>1, Pieces
  <2>3. BaseOf(q) = Nil /\ CurOf(q) = Nil /\ NewOf(q) = q.new /\ EventBaseOf(q) = Nil
    BY <1>4 DEF BaseOf, CurOf, NewOf, EventBaseOf
  <2>4. Operation(q) = HeadOf(q) \o createRun(q.new) \o eventsIf(q.new)
    <3>1. Operation(q) = CreateWorkflowExecution(q) /\ HeadOf(q) = CreateHead(q)
      BY <1>4 DEF Operation, HeadOf
    <3>. QED BY <3>1 DEF CreateWorkflowExecution, CreateHead
  <2>. QED BY <1>0, <1>1, <1>2, <1>3, <2>2, <2>3, <2>4
<1>5. CASE q.op = "Update"
  <2>1. q.base \in Snapshot /\ q.new \in Snapshot \cup {Nil}
    BY <1>5, RequestFacts
  <2>2. /\ rewriteRun(q.base) \in Seq(OtherCommand) /\ createRun(q.new) \in Seq(OtherCommand)
        /\ eventsIf(q.base) \in Seq(OtherCommand) /\ eventsIf(q.new) \in Seq(OtherCommand)
    BY <2>1, Pieces
  <2>3. BaseOf(q) = q.base /\ CurOf(q) = Nil /\ NewOf(q) = q.new /\ EventBaseOf(q) = q.base
    BY <1>5 DEF BaseOf, CurOf, NewOf, EventBaseOf
  <2>4. Operation(q) = HeadOf(q) \o rewriteRun(q.base) \o createRun(q.new) \o eventsIf(q.base) \o eventsIf(q.new)
    <3>1. Operation(q) = UpdateWorkflowExecution(q) /\ HeadOf(q) = UpdateHead(q)
      BY <1>5 DEF Operation, HeadOf
    <3>. QED BY <3>1 DEF UpdateWorkflowExecution, UpdateHead
  <2>. QED BY <1>0, <1>1, <1>2, <1>3, <2>2, <2>3, <2>4, SMTT(30)
<1>6. CASE q.op = "ConflictResolve"
  <2>1. BaseOf(q) = q.base /\ CurOf(q) = q.cur /\ NewOf(q) = q.new /\ EventBaseOf(q) = q.base
    BY <1>6 DEF BaseOf, CurOf, NewOf, EventBaseOf
  <2>2. Operation(q) = ConflictResolveWorkflowExecution(q) /\ HeadOf(q) = ResolveHead(q)
    BY <1>6 DEF Operation, HeadOf
  <2>. QED BY <2>1, <2>2 DEF ConflictResolveWorkflowExecution, ResolveHead
<1>7. CASE q.op = "Set"
  <2>1. q.base \in Snapshot
    BY <1>7, RequestFacts
  <2>2. rewriteRun(q.base) \in Seq(OtherCommand)
    BY <2>1, Pieces
  <2>3. BaseOf(q) = q.base /\ CurOf(q) = Nil /\ NewOf(q) = Nil /\ EventBaseOf(q) = Nil /\ HeadOf(q) = <<>>
    BY <1>7 DEF BaseOf, CurOf, NewOf, EventBaseOf, HeadOf
  <2>4. Operation(q) = rewriteRun(q.base)
    BY <1>7 DEF Operation, SetWorkflowExecution
  <2>. QED BY <1>0, <1>1, <1>2, <2>2, <2>3, <2>4
<1>. QED BY <1>4, <1>5, <1>6, <1>7, RequestFacts

-----------------------------------------------------------------------------
\* The commands, field by field.
LEMMA CommandFields ==
    /\ \A k, V : Check(k, V).cmd = "check" /\ Check(k, V).key = k /\ Check(k, V).arg = V
    /\ \A c : putCurrent(c).cmd = "put" /\ putCurrent(c).key = Current /\ putCurrent(c).arg = c
    /\ \A s : /\ assertExecutionCondition(s).cmd = "check" /\ assertExecutionCondition(s).key = Exec(s.run)
              /\ assertExecutionCondition(s).arg = {e \in Execution : ConditionHolds(s, e)}
              /\ assertNotExists(s).cmd = "check" /\ assertNotExists(s).key = Exec(s.run)
              /\ assertNotExists(s).arg = {Nil}
              /\ putExecution(s).cmd = "put" /\ putExecution(s).key = Exec(s.run)
              /\ putExecution(s).arg = ExecutionOf(s)
              /\ writeTasks(s).cmd = "add" /\ writeTasks(s).key = TaskMap /\ writeTasks(s).arg = {TaskOf(s)}
              /\ appendEvents(s).cmd = "add" /\ appendEvents(s).key = Branch(s.run)
              /\ appendEvents(s).arg = {EventsOf(s)}
BY DEF Check, Write, Add, putCurrent, assertExecutionCondition, assertNotExists, putExecution,
       writeTasks, appendEvents

\* The pieces, command by command.
LEMMA RunPieces ==
    ASSUME NEW s \in Snapshot
    PROVE  /\ rewriteRun(s) = <<assertExecutionCondition(s), putExecution(s), writeTasks(s)>>
           /\ createRun(s) = <<assertNotExists(s), putExecution(s), writeTasks(s)>>
           /\ eventsIf(s) = <<appendEvents(s)>>
BY SnapshotFacts DEF rewriteRun, createRun, eventsIf

\* A part that the request does not have gives no commands.
LEMMA NoPieces == rewriteRun(Nil) = <<>> /\ createRun(Nil) = <<>> /\ eventsIf(Nil) = <<>>
BY DEF rewriteRun, createRun, eventsIf

\* What needs no look at the pieces: sequences of checks, of additions, and empty ones.
LEMMA TriviallyApart ==
    /\ \A t : Apart(<<>>, t)
    /\ \A s : Apart(s, <<>>)
    /\ WellFormed(<<>>)
BY DEF Apart, WellFormed

\* A check, a put of the same record and an addition.
LEMMA TripleWellFormed ==
    ASSUME NEW a, NEW b, NEW c, a.cmd = "check", b.cmd = "put", c.cmd = "add", a.key = b.key
    PROVE  WellFormed(<<a, b, c>>)
BY DEF WellFormed

\* What rewrites a run, creates one or appends its events is well formed.
LEMMA PiecesWellFormed ==
    ASSUME NEW s \in Snapshot \cup {Nil}
    PROVE  WellFormed(rewriteRun(s)) /\ WellFormed(createRun(s)) /\ WellFormed(eventsIf(s))
<1>1. CASE s = Nil
  BY <1>1, NoPieces, TriviallyApart
<1>2. CASE s \in Snapshot
  <2> DEFINE a == assertExecutionCondition(s)
             d == assertNotExists(s)
             b == putExecution(s)
             c == writeTasks(s)
             e == appendEvents(s)
  <2>1. /\ a.cmd = "check" /\ d.cmd = "check" /\ b.cmd = "put" /\ c.cmd = "add" /\ e.cmd = "add"
        /\ a.key = b.key /\ d.key = b.key
    BY CommandFields
  <2>2. rewriteRun(s) = <<a, b, c>> /\ createRun(s) = <<d, b, c>> /\ eventsIf(s) = <<e>>
    BY <1>2, RunPieces
  <2> HIDE DEF a, b, c, d, e
  <2>3. WellFormed(<<a, b, c>>)
    BY <2>1, TripleWellFormed
  <2>4. WellFormed(<<d, b, c>>)
    BY <2>1, TripleWellFormed
  <2>5. WellFormed(<<e>>)
    BY <2>1 DEF WellFormed
  <2>. QED BY <2>2, <2>3, <2>4, <2>5
<1>. QED BY <1>1, <1>2

\* So are the commands on the pointer.
LEMMA HeadWellFormed ==
    ASSUME NEW q \in Requests
    PROVE  /\ WellFormed(HeadOf(q))
           /\ \A i \in DOMAIN HeadOf(q) : HeadOf(q)[i].key = Current
<1>1. CASE HeadOf(q) = <<>>
  BY <1>1, TriviallyApart
<1>2. ASSUME NEW V, HeadOf(q) = <<Check(Current, V)>>
      PROVE  WellFormed(HeadOf(q)) /\ \A i \in DOMAIN HeadOf(q) : HeadOf(q)[i].key = Current
  <2> DEFINE a == Check(Current, V)
  <2>1. a.cmd = "check" /\ a.key = Current /\ HeadOf(q) = <<a>>
    BY <1>2, CommandFields
  <2> HIDE DEF a
  <2>. QED BY <2>1 DEF WellFormed
<1>3. ASSUME NEW V, NEW c, HeadOf(q) = <<Check(Current, V), putCurrent(c)>>
      PROVE  WellFormed(HeadOf(q)) /\ \A i \in DOMAIN HeadOf(q) : HeadOf(q)[i].key = Current
  <2> DEFINE a == Check(Current, V)
             b == putCurrent(c)
  <2>1. a.cmd = "check" /\ a.key = Current /\ b.cmd = "put" /\ b.key = Current /\ HeadOf(q) = <<a, b>>
    BY <1>3, CommandFields
  <2> HIDE DEF a, b
  <2>2. WellFormed(<<a, b>>)
    BY <2>1 DEF WellFormed
  <2>3. \A i \in DOMAIN <<a, b>> : <<a, b>>[i].key = Current
    BY <2>1
  <2>. QED BY <2>1, <2>2, <2>3
<1>. QED BY <1>1, <1>2, <1>3, HeadShape

\* The pointer is touched by no other piece, a run that is created is checked
\* for its absence only, and the two runs that are rewritten are different.
LEMMA PiecesApart ==
    ASSUME NEW q \in Requests, NEW s \in Snapshot \cup {Nil}, NEW t \in Snapshot \cup {Nil}
    PROVE  /\ Apart(HeadOf(q), rewriteRun(s)) /\ Apart(HeadOf(q), createRun(s))
           /\ Apart(rewriteRun(s), createRun(t))
           /\ (s # Nil /\ t # Nil => s.run # t.run) => Apart(rewriteRun(s), rewriteRun(t))
<1>1. ASSUME NEW a, NEW b, NEW c, a.key # Current, b.key # Current, c.key # Current
      PROVE  Apart(HeadOf(q), <<a, b, c>>)
  <2>1. \A i \in DOMAIN <<a, b, c>> : <<a, b, c>>[i].key # Current
    BY <1>1
  <2>. QED BY <2>1, HeadWellFormed DEF Apart
<1>2. ASSUME NEW x \in Snapshot
      PROVE  Apart(HeadOf(q), rewriteRun(x)) /\ Apart(HeadOf(q), createRun(x))
  <2> DEFINE a == assertExecutionCondition(x)
             d == assertNotExists(x)
             b == putExecution(x)
             c == writeTasks(x)
  <2>1. Exec(x.run) # Current /\ TaskMap # Current
    BY KeysDiffer, SnapshotFacts
  <2>2. /\ a.key # Current /\ d.key # Current /\ b.key # Current /\ c.key # Current
    BY <2>1, CommandFields, Zenon
  <2>3. rewriteRun(x) = <<a, b, c>> /\ createRun(x) = <<d, b, c>>
    BY RunPieces
  <2> HIDE DEF a, b, c, d
  <2>4. Apart(HeadOf(q), <<a, b, c>>)
    BY <1>1, <2>2
  <2>5. Apart(HeadOf(q), <<d, b, c>>)
    BY <1>1, <2>2
  <2>. QED BY <2>3, <2>4, <2>5
<1>3. ASSUME NEW x \in Snapshot, NEW y \in Snapshot
      PROVE  Apart(rewriteRun(x), createRun(y))
  <2> DEFINE a == assertExecutionCondition(x)
             b == putExecution(x)
             c == writeTasks(x)
             d == assertNotExists(y)
             e == putExecution(y)
             f == writeTasks(y)
  <2>1. Nil \notin {z \in Execution : ConditionHolds(x, z)}
    BY ConstantsAssumption
  <2>2. /\ a.cmd = "check" /\ b.cmd = "put" /\ c.cmd = "add"
        /\ d.cmd = "check" /\ e.cmd = "put" /\ f.cmd = "add"
        /\ d.arg = {Nil} /\ Nil \notin a.arg
    BY <2>1, CommandFields, Zenon
  <2>3. rewriteRun(x) = <<a, b, c>> /\ createRun(y) = <<d, e, f>>
    BY RunPieces
  <2> HIDE DEF a, b, c, d, e, f
  <2>4. Apart(<<a, b, c>>, <<d, e, f>>)
    BY <2>2 DEF Apart
  <2>. QED BY <2>3, <2>4
<1>4. ASSUME NEW x \in Snapshot, NEW y \in Snapshot, x.run # y.run
      PROVE  Apart(rewriteRun(x), rewriteRun(y))
  <2> DEFINE a == assertExecutionCondition(x)
             b == putExecution(x)
             c == writeTasks(x)
             d == assertExecutionCondition(y)
             e == putExecution(y)
             f == writeTasks(y)
  <2>1. Exec(x.run) # Exec(y.run) /\ Exec(x.run) # TaskMap /\ Exec(y.run) # TaskMap
    BY <1>4, KeysDiffer, SnapshotFacts
  <2>2. /\ a.cmd = "check" /\ b.cmd = "put" /\ c.cmd = "add"
        /\ d.cmd = "check" /\ e.cmd = "put" /\ f.cmd = "add"
        /\ b.key # d.key /\ b.key # e.key /\ c.key # d.key
    <3>1. /\ a.cmd = "check" /\ b.cmd = "put" /\ c.cmd = "add"
          /\ d.cmd = "check" /\ e.cmd = "put" /\ f.cmd = "add"
      BY CommandFields, Zenon
    <3>2. b.key = Exec(x.run) /\ c.key = TaskMap /\ d.key = Exec(y.run) /\ e.key = Exec(y.run)
      BY CommandFields, Zenon
    <3>. QED BY <2>1, <3>1, <3>2
  <2>3. rewriteRun(x) = <<a, b, c>> /\ rewriteRun(y) = <<d, e, f>>
    BY RunPieces
  <2> HIDE DEF a, b, c, d, e, f
  <2>4. Apart(<<a, b, c>>, <<d, e, f>>)
    BY <2>2 DEF Apart
  <2>. QED BY <2>3, <2>4
<1>5. Nil \notin Snapshot
  BY ConstantsAssumption
<1>. QED BY <1>2, <1>3, <1>4, <1>5, NoPieces, TriviallyApart

\* Appending events keeps apart from all that comes before it.
LEMMA EventsApart ==
    ASSUME NEW s \in Snapshot \cup {Nil}, NEW t
    PROVE  Apart(t, eventsIf(s))
<1>1. CASE s = Nil
  BY <1>1, NoPieces, TriviallyApart
<1>2. CASE s \in Snapshot
  <2> DEFINE a == appendEvents(s)
  <2>1. a.cmd = "add" /\ eventsIf(s) = <<a>>
    BY <1>2, RunPieces, CommandFields
  <2> HIDE DEF a
  <2>2. Apart(t, <<a>>)
    BY <2>1 DEF Apart
  <2>. QED BY <2>1, <2>2
<1>. QED BY <1>1, <1>2

\* Every operation is well formed as a whole.
LEMMA OperationWellFormed ==
    ASSUME NEW q \in Requests, NEW rangeID \in RangeID
    PROVE  WellFormed(Commands(q, rangeID))
<1> DEFINE S  == OtherCommand
           h  == HeadOf(q)
           b  == rewriteRun(BaseOf(q))
           c  == rewriteRun(CurOf(q))
           n  == createRun(NewOf(q))
           eb == eventsIf(EventBaseOf(q))
           en == eventsIf(NewOf(q))
           ec == eventsIf(CurOf(q))
           first == assertShardOwnership(rangeID)
<1>1. BaseOf(q) \in Snapshot \cup {Nil} /\ CurOf(q) \in Snapshot \cup {Nil}
        /\ NewOf(q) \in Snapshot \cup {Nil} /\ EventBaseOf(q) \in Snapshot \cup {Nil}
        /\ (BaseOf(q) # Nil /\ CurOf(q) # Nil => BaseOf(q).run # CurOf(q).run)
  BY PartFacts
<1>2. /\ h \in Seq(S) /\ b \in Seq(S) /\ c \in Seq(S) /\ n \in Seq(S)
      /\ eb \in Seq(S) /\ en \in Seq(S) /\ ec \in Seq(S)
  BY <1>1, HeadType, Pieces
<1>3. /\ WellFormed(h) /\ WellFormed(b) /\ WellFormed(c) /\ WellFormed(n)
      /\ WellFormed(eb) /\ WellFormed(en) /\ WellFormed(ec)
  BY <1>1, HeadWellFormed, PiecesWellFormed
<1>4. Apart(h, b) /\ Apart(h, c) /\ Apart(h, n) /\ Apart(b, c) /\ Apart(b, n) /\ Apart(c, n)
  BY <1>1, PiecesApart
<1>5. \A t : Apart(t, eb) /\ Apart(t, en) /\ Apart(t, ec)
  BY <1>1, EventsApart
<1>6. Operation(q) = h \o b \o c \o n \o eb \o en \o ec
  BY OperationPieces
<1>7. first.cmd = "check"
  BY CommandFields DEF assertShardOwnership
<1> HIDE DEF S, h, b, c, n, eb, en, ec, first
<1>8. WellFormed(<<first>>) /\ \A t : Apart(<<first>>, t)
  BY <1>7 DEF WellFormed, Apart
<1>9. \A s, t \in Seq(S) : s \o t \in Seq(S)
  OBVIOUS
<1>10. h \o b \in Seq(S) /\ WellFormed(h \o b) /\ Apart(h \o b, c) /\ Apart(h \o b, n)
  BY <1>2, <1>3, <1>4, <1>9, ConcatWellFormed, ConcatApart
<1>11. h \o b \o c \in Seq(S) /\ WellFormed(h \o b \o c) /\ Apart(h \o b \o c, n)
  BY <1>2, <1>3, <1>4, <1>9, <1>10, ConcatWellFormed, ConcatApart, Zenon
<1>12. h \o b \o c \o n \in Seq(S) /\ WellFormed(h \o b \o c \o n)
  BY <1>2, <1>3, <1>9, <1>11, ConcatWellFormed, Zenon
<1>13. h \o b \o c \o n \o eb \in Seq(S) /\ WellFormed(h \o b \o c \o n \o eb)
  BY <1>2, <1>3, <1>5, <1>9, <1>12, ConcatWellFormed, Zenon
<1>14. h \o b \o c \o n \o eb \o en \in Seq(S) /\ WellFormed(h \o b \o c \o n \o eb \o en)
  BY <1>2, <1>3, <1>5, <1>9, <1>13, ConcatWellFormed, Zenon
<1>15. Operation(q) \in Seq(S) /\ WellFormed(Operation(q))
  <2>1. h \o b \o c \o n \o eb \o en \o ec \in Seq(S) /\ WellFormed(h \o b \o c \o n \o eb \o en \o ec)
    BY <1>2, <1>3, <1>5, <1>9, <1>14, ConcatWellFormed, Zenon
  <2>. QED BY <1>6, <2>1
<1>16. <<first>> \in Seq(S \cup {first}) /\ Operation(q) \in Seq(S \cup {first})
  BY <1>15
<1>17. WellFormed(<<first>> \o Operation(q))
  BY <1>8, <1>15, <1>16, ConcatWellFormed, Zenon
<1>. QED BY <1>17 DEF Commands, first

\* The runs an operation rewrites and creates, and those it appends events to.
Rewritten(q) == {BaseOf(q), CurOf(q)} \ {Nil}
Created(q)   == {NewOf(q)} \ {Nil}
Evented(q)   == {EventBaseOf(q), NewOf(q), CurOf(q)} \ {Nil}

\* The members of sequences of up to three commands.
LEMMA SmallElements ==
    /\ Elements(<<>>) = {}
    /\ \A x : Elements(<<x>>) = {x}
    /\ \A x, y : Elements(<<x, y>>) = {x, y}
    /\ \A x, y, z : Elements(<<x, y, z>>) = {x, y, z}
<1>1. Elements(<<>>) = {}
  BY DEF Elements
<1>2. ASSUME NEW x PROVE Elements(<<x>>) = {x}
  <2>1. DOMAIN <<x>> = {1} /\ <<x>>[1] = x
    OBVIOUS
  <2>. QED BY <2>1 DEF Elements
<1>3. ASSUME NEW x, NEW y PROVE Elements(<<x, y>>) = {x, y}
  <2>1. DOMAIN <<x, y>> = {1, 2} /\ <<x, y>>[1] = x /\ <<x, y>>[2] = y
    OBVIOUS
  <2>. QED BY <2>1 DEF Elements
<1>4. ASSUME NEW x, NEW y, NEW z PROVE Elements(<<x, y, z>>) = {x, y, z}
  <2>1. DOMAIN <<x, y, z>> = {1, 2, 3} /\ <<x, y, z>>[1] = x /\ <<x, y, z>>[2] = y /\ <<x, y, z>>[3] = z
    OBVIOUS
  <2>. QED BY <2>1 DEF Elements
<1>. QED BY <1>1, <1>2, <1>3, <1>4

\* All the commands of an operation.
LEMMA OperationElements ==
    ASSUME NEW q \in Requests, NEW rangeID \in RangeID
    PROVE  Elements(Commands(q, rangeID)) =
              {Check(Shard, {rangeID})} \cup Elements(HeadOf(q))
                \cup {assertExecutionCondition(s) : s \in Rewritten(q)}
                \cup {assertNotExists(s) : s \in Created(q)}
                \cup {putExecution(s) : s \in Rewritten(q) \cup Created(q)}
                \cup {writeTasks(s) : s \in Rewritten(q) \cup Created(q)}
                \cup {appendEvents(s) : s \in Evented(q)}
<1> DEFINE S  == OtherCommand
           h  == HeadOf(q)
           b  == rewriteRun(BaseOf(q))
           c  == rewriteRun(CurOf(q))
           n  == createRun(NewOf(q))
           eb == eventsIf(EventBaseOf(q))
           en == eventsIf(NewOf(q))
           ec == eventsIf(CurOf(q))
           first == assertShardOwnership(rangeID)
           One(s) == {s} \ {Nil}
<1>1. BaseOf(q) \in Snapshot \cup {Nil} /\ CurOf(q) \in Snapshot \cup {Nil}
        /\ NewOf(q) \in Snapshot \cup {Nil} /\ EventBaseOf(q) \in Snapshot \cup {Nil}
  BY PartFacts
<1>2. /\ h \in Seq(S) /\ b \in Seq(S) /\ c \in Seq(S) /\ n \in Seq(S)
      /\ eb \in Seq(S) /\ en \in Seq(S) /\ ec \in Seq(S)
  BY <1>1, HeadType, Pieces
<1>3. Operation(q) = h \o b \o c \o n \o eb \o en \o ec
  BY OperationPieces
<1>4. Elements(<<>>) = {} /\ (\A x : Elements(<<x>>) = {x}) /\ \A x, y, z : Elements(<<x, y, z>>) = {x, y, z}
  BY SmallElements
<1>5. ASSUME NEW s \in Snapshot \cup {Nil}
      PROVE  /\ Elements(rewriteRun(s)) = {assertExecutionCondition(x) : x \in One(s)}
                   \cup {putExecution(x) : x \in One(s)} \cup {writeTasks(x) : x \in One(s)}
             /\ Elements(createRun(s)) = {assertNotExists(x) : x \in One(s)}
                   \cup {putExecution(x) : x \in One(s)} \cup {writeTasks(x) : x \in One(s)}
             /\ Elements(eventsIf(s)) = {appendEvents(x) : x \in One(s)}
  <2>1. CASE s = Nil
    BY <1>4, <2>1, NoPieces
  <2>2. CASE s \in Snapshot
    <3>1. One(s) = {s}
      BY <2>2, SnapshotFacts
    <3>2. /\ Elements(rewriteRun(s)) = {assertExecutionCondition(s), putExecution(s), writeTasks(s)}
          /\ Elements(createRun(s)) = {assertNotExists(s), putExecution(s), writeTasks(s)}
          /\ Elements(eventsIf(s)) = {appendEvents(s)}
      BY <1>4, <2>2, RunPieces
    <3> HIDE DEF One
    <3>. QED BY <3>1, <3>2
  <2>. QED BY <2>1, <2>2
<1>6. Rewritten(q) = One(BaseOf(q)) \cup One(CurOf(q)) /\ Created(q) = One(NewOf(q))
        /\ Evented(q) = One(EventBaseOf(q)) \cup One(NewOf(q)) \cup One(CurOf(q))
  BY DEF Rewritten, Created, Evented
<1> HIDE DEF S, h, b, c, n, eb, en, ec, first, One
<1>7. \A s, t \in Seq(S) : s \o t \in Seq(S) /\ Elements(s \o t) = Elements(s) \cup Elements(t)
  BY ConcatElements
<1>8. /\ Operation(q) \in Seq(S)
      /\ Elements(Operation(q)) = Elements(h) \cup Elements(b) \cup Elements(c) \cup Elements(n)
            \cup Elements(eb) \cup Elements(en) \cup Elements(ec)
  <2>1. h \o b \in Seq(S) /\ Elements(h \o b) = Elements(h) \cup Elements(b)
    BY <1>2, <1>7
  <2>2. h \o b \o c \in Seq(S) /\ Elements(h \o b \o c) = Elements(h \o b) \cup Elements(c)
    BY <1>2, <1>7, <2>1, Zenon
  <2>3. h \o b \o c \o n \in Seq(S) /\ Elements(h \o b \o c \o n) = Elements(h \o b \o c) \cup Elements(n)
    BY <1>2, <1>7, <2>2, Zenon
  <2>4. /\ h \o b \o c \o n \o eb \in Seq(S)
        /\ Elements(h \o b \o c \o n \o eb) = Elements(h \o b \o c \o n) \cup Elements(eb)
    BY <1>2, <1>7, <2>3, Zenon
  <2>5. /\ h \o b \o c \o n \o eb \o en \in Seq(S)
        /\ Elements(h \o b \o c \o n \o eb \o en) = Elements(h \o b \o c \o n \o eb) \cup Elements(en)
    BY <1>2, <1>7, <2>4, Zenon
  <2>6. /\ h \o b \o c \o n \o eb \o en \o ec \in Seq(S)
        /\ Elements(h \o b \o c \o n \o eb \o en \o ec) = Elements(h \o b \o c \o n \o eb \o en) \cup Elements(ec)
    BY <1>2, <1>7, <2>5, Zenon
  <2>. QED BY <1>3, <2>1, <2>2, <2>3, <2>4, <2>5, <2>6
<1> DEFINE T == S \cup {first}
<1>9. <<first>> \in Seq(T) /\ Operation(q) \in Seq(T)
  BY <1>8
<1>10. Elements(Commands(q, rangeID)) = {first} \cup Elements(Operation(q))
  <2> HIDE DEF T
  <2>1. Elements(<<first>> \o Operation(q)) = Elements(<<first>>) \cup Elements(Operation(q))
    BY <1>9, ConcatElements, ZenonT(30)
  <2>2. Elements(<<first>>) = {first}
    BY <1>4
  <2>. QED BY <2>1, <2>2 DEF Commands, first
<1>11. first = Check(Shard, {rangeID})
  BY DEF first, assertShardOwnership
<1>12. /\ Elements(b) \cup Elements(c) = {assertExecutionCondition(s) : s \in Rewritten(q)}
            \cup {putExecution(s) : s \in Rewritten(q)} \cup {writeTasks(s) : s \in Rewritten(q)}
       /\ Elements(n) = {assertNotExists(s) : s \in Created(q)}
            \cup {putExecution(s) : s \in Created(q)} \cup {writeTasks(s) : s \in Created(q)}
       /\ Elements(eb) \cup Elements(en) \cup Elements(ec) = {appendEvents(s) : s \in Evented(q)}
  BY <1>1, <1>5, <1>6 DEF b, c, n, eb, en, ec
<1>. QED BY <1>8, <1>10, <1>11, <1>12 DEF h

\* The commands of an operation, kind by kind.
LEMMA OperationMembers ==
    ASSUME NEW q \in Requests, NEW r \in RangeID
    PROVE  /\ Check(Shard, {r}) \in Elements(Commands(q, r))
           /\ Elements(HeadOf(q)) \subseteq Elements(Commands(q, r))
           /\ \A s \in Rewritten(q) : assertExecutionCondition(s) \in Elements(Commands(q, r))
           /\ \A s \in Created(q) : assertNotExists(s) \in Elements(Commands(q, r))
           /\ \A s \in Rewritten(q) \cup Created(q) : putExecution(s) \in Elements(Commands(q, r))
           /\ \A s \in Rewritten(q) \cup Created(q) : writeTasks(s) \in Elements(Commands(q, r))
           /\ \A s \in Evented(q) : appendEvents(s) \in Elements(Commands(q, r))
<1> DEFINE W == Rewritten(q) \cup Created(q)
           A == {assertExecutionCondition(s) : s \in Rewritten(q)}
           B == {assertNotExists(s) : s \in Created(q)}
           C == {putExecution(s) : s \in W}
           D == {writeTasks(s) : s \in W}
           F == {appendEvents(s) : s \in Evented(q)}
<1>1. Elements(Commands(q, r)) = {Check(Shard, {r})} \cup Elements(HeadOf(q)) \cup A \cup B \cup C \cup D \cup F
  BY OperationElements
<1>2. \A s \in Rewritten(q) : assertExecutionCondition(s) \in A
  OBVIOUS
<1>3. \A s \in Created(q) : assertNotExists(s) \in B
  OBVIOUS
<1>4. \A s \in W : putExecution(s) \in C
  OBVIOUS
<1>5. \A s \in W : writeTasks(s) \in D
  OBVIOUS
<1>6. \A s \in Evented(q) : appendEvents(s) \in F
  OBVIOUS
<1> HIDE DEF A, B, C, D, F
<1>. QED BY <1>1, <1>2, <1>3, <1>4, <1>5, <1>6

\* Which commands of an operation write which record.
LEMMA CommandKinds ==
    ASSUME NEW q \in Requests, NEW r \in RangeID, NEW c \in Elements(Commands(q, r)), c.cmd # "check"
    PROVE  \/ c \in Elements(HeadOf(q)) /\ c.key = Current
           \/ \E s \in Rewritten(q) \cup Created(q) : c = putExecution(s)
           \/ \E s \in Rewritten(q) \cup Created(q) : c = writeTasks(s)
           \/ \E s \in Evented(q) : c = appendEvents(s)
<1>1. \A s : assertExecutionCondition(s).cmd = "check" /\ assertNotExists(s).cmd = "check"
  BY DEF assertExecutionCondition, assertNotExists, Check
<1>2. Check(Shard, {r}).cmd = "check"
  BY DEF Check
<1>3. c \in Elements(HeadOf(q)) => c.key = Current
  BY HeadWellFormed DEF Elements
<1>. QED BY <1>1, <1>2, <1>3, OperationElements

\* Which records it writes.
LEMMA WrittenKeys ==
    ASSUME NEW q \in Requests, NEW r \in RangeID, NEW c \in Elements(Commands(q, r)), c.cmd # "check"
    PROVE  \/ c \in Elements(HeadOf(q)) /\ c.key = Current
           \/ \E s \in Rewritten(q) \cup Created(q) : c.key = Exec(s.run)
           \/ c.key = TaskMap
           \/ \E s \in Evented(q) : c.key = Branch(s.run)
<1>1. ASSUME NEW s, c = putExecution(s) PROVE c.key = Exec(s.run)
  BY <1>1 DEF putExecution, Write
<1>2. ASSUME NEW s, c = writeTasks(s) PROVE c.key = TaskMap
  BY <1>2 DEF writeTasks, Add
<1>3. ASSUME NEW s, c = appendEvents(s) PROVE c.key = Branch(s.run)
  BY <1>3 DEF appendEvents, Add
<1>. QED BY <1>1, <1>2, <1>3, CommandKinds

\* The runs an operation is about are given by snapshots.
LEMMA PartTypes ==
    ASSUME NEW q \in Requests
    PROVE  Rewritten(q) \subseteq Snapshot /\ Created(q) \subseteq Snapshot /\ Evented(q) \subseteq Snapshot
BY PartFacts DEF Rewritten, Created, Evented
=============================================================================
