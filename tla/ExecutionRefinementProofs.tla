--------------------- MODULE ExecutionRefinementProofs ----------------------
(***************************************************************************)
(* The transactions implement the atomic store: for any number of hosts,   *)
(* threads, runs and requests, whatever the command-by-command execution   *)
(* of ExecutionTxn does is a behaviour of ExecutionStore.                  *)
(*                                                                         *)
(* A commit is the operation of its request, at one instant; every other   *)
(* step changes no record, or changes the lease, or deletes one record.    *)
(***************************************************************************)
EXTENDS ExecutionProgressProofs

\* What a commit finds and leaves in the records.
LEMMA CommitEffect ==
    ASSUME RInv, NEW p \in Proc, Commit(p), NEW q \in Requests, q = req[p]
    PROVE  /\ rec[Shard] = range[p] /\ rec'[Shard] = rec[Shard]
           /\ HeadOf(q) = <<>> => rec'[Current] = rec[Current]
           /\ \A V : HeadOf(q) = <<Check(Current, V)>> => rec[Current] \in V /\ rec'[Current] = rec[Current]
           /\ \A V, c : HeadOf(q) = <<Check(Current, V), putCurrent(c)>> => rec[Current] \in V /\ rec'[Current] = c
           /\ \A s \in Rewritten(q) :
                 ConditionHolds(s, rec[Exec(s.run)]) /\ BuiltFromLoaded(q, rec[Exec(s.run)])
           /\ \A s \in Created(q) : rec[Exec(s.run)] = Nil
           /\ \A s \in Rewritten(q) \cup Created(q) : rec'[Exec(s.run)] = ExecutionOf(s)
           /\ \A r \in Run : (\A s \in Rewritten(q) \cup Created(q) : s.run # r) => rec'[Exec(r)] = rec[Exec(r)]
<1> DEFINE E == CommandsOf(p)
<1>1. /\ range[p] \in RangeID
      /\ \A c \in E : c.cmd = "check" =>
           rec[c.key] \in c.arg /\ (c.key.set = "exec" => BuiltFromLoaded(q, rec[c.key]))
      /\ \A c \in E : c.cmd = "put" => rec'[c.key] = c.arg
      /\ \A k \in Key : (\A c \in E : c.cmd # "check" => c.key # k) => rec'[k] = rec[k]
  BY CommitFacts
<1>2. E = Elements(Commands(q, range[p]))
  BY DEF CommandsOf
<1> HIDE DEF E
<1>3. ASSUME NEW c \in E, c.cmd # "check"
      PROVE  \/ c \in Elements(HeadOf(q)) /\ c.key = Current
             \/ \E s \in Rewritten(q) \cup Created(q) : c.key = Exec(s.run)
             \/ c.key = TaskMap
             \/ \E s \in Evented(q) : c.key = Branch(s.run)
  BY <1>1, <1>2, <1>3, WrittenKeys
<1>4. /\ Check(Shard, {range[p]}) \in E
      /\ Elements(HeadOf(q)) \subseteq E
      /\ \A s \in Rewritten(q) : assertExecutionCondition(s) \in E
      /\ \A s \in Created(q) : assertNotExists(s) \in E
      /\ \A s \in Rewritten(q) \cup Created(q) : putExecution(s) \in E
  <2>1. range[p] \in RangeID
    BY <1>1
  <2>. QED BY <1>2, <2>1, OperationMembers
<1>5. \A s \in Rewritten(q) \cup Created(q) \cup Evented(q) : s \in Snapshot /\ s.run \in Run
  BY PartTypes, SnapshotFacts
<1>6. rec[Shard] = range[p]
  <2>1. Check(Shard, {range[p]}) \in E
    BY <1>4
  <2>2. /\ Check(Shard, {range[p]}).cmd = "check" /\ Check(Shard, {range[p]}).key = Shard
        /\ Check(Shard, {range[p]}).arg = {range[p]}
    BY DEF Check
  <2>3. rec[Shard] \in {range[p]}
    BY <1>1, <2>1, <2>2
  <2>. QED BY <2>3
<1>7. rec'[Shard] = rec[Shard]
  <2>1. \A c \in E : c.cmd # "check" => c.key # Shard
    BY <1>3, <1>5, KeysDiffer
  <2>. QED BY <1>1, <2>1, KeyFacts
<1>8. ASSUME \A c \in Elements(HeadOf(q)) : c.cmd = "check" PROVE rec'[Current] = rec[Current]
  <2>1. \A c \in E : c.cmd # "check" => c.key # Current
    BY <1>3, <1>5, <1>8, KeysDiffer
  <2>. QED BY <1>1, <2>1, KeyFacts
<1>9. Elements(HeadOf(q)) \subseteq E
  BY <1>4
<1>10. HeadOf(q) = <<>> => rec'[Current] = rec[Current]
  BY <1>8, SmallElements
<1>11. ASSUME NEW V, HeadOf(q) = <<Check(Current, V)>>
       PROVE  rec[Current] \in V /\ rec'[Current] = rec[Current]
  <2> DEFINE a == Check(Current, V)
  <2>1. a.cmd = "check" /\ a.key = Current /\ a.arg = V
    BY DEF Check
  <2>2. Elements(HeadOf(q)) = {a}
    BY <1>11, SmallElements
  <2> HIDE DEF a
  <2>3. rec[Current] \in V
    BY <1>1, <1>9, <2>1, <2>2
  <2>. QED BY <1>8, <2>1, <2>2, <2>3
<1>12. ASSUME NEW V, NEW c, HeadOf(q) = <<Check(Current, V), putCurrent(c)>>
       PROVE  rec[Current] \in V /\ rec'[Current] = c
  <2> DEFINE a == Check(Current, V)
             b == putCurrent(c)
  <2>1. a.cmd = "check" /\ a.key = Current /\ a.arg = V /\ b.cmd = "put" /\ b.key = Current /\ b.arg = c
    BY DEF Check, putCurrent, Write
  <2>2. Elements(HeadOf(q)) = {a, b}
    BY <1>12, SmallElements
  <2> HIDE DEF a, b
  <2>. QED BY <1>1, <1>9, <2>1, <2>2
<1>13. ASSUME NEW s \in Rewritten(q)
       PROVE  ConditionHolds(s, rec[Exec(s.run)]) /\ BuiltFromLoaded(q, rec[Exec(s.run)])
  <2> DEFINE a == assertExecutionCondition(s)
  <2>1. a.cmd = "check" /\ a.key = Exec(s.run) /\ a.arg = {e \in Execution : ConditionHolds(s, e)}
    BY DEF assertExecutionCondition, Check
  <2>2. a \in E
    BY <1>4
  <2>3. a.key.set = "exec"
    BY <1>5, <2>1, KeysDiffer
  <2> HIDE DEF a
  <2>4. rec[Exec(s.run)] \in {e \in Execution : ConditionHolds(s, e)} /\ BuiltFromLoaded(q, rec[Exec(s.run)])
    BY <1>1, <2>1, <2>2, <2>3
  <2>. QED BY <2>4
<1>14. ASSUME NEW s \in Created(q) PROVE rec[Exec(s.run)] = Nil
  <2> DEFINE a == assertNotExists(s)
  <2>1. a.cmd = "check" /\ a.key = Exec(s.run) /\ a.arg = {Nil}
    BY DEF assertNotExists, Check
  <2>2. a \in E
    BY <1>4
  <2> HIDE DEF a
  <2>3. rec[Exec(s.run)] \in {Nil}
    BY <1>1, <2>1, <2>2
  <2>. QED BY <2>3
<1>15. ASSUME NEW s \in Rewritten(q) \cup Created(q) PROVE rec'[Exec(s.run)] = ExecutionOf(s)
  <2> DEFINE a == putExecution(s)
  <2>1. a.cmd = "put" /\ a.key = Exec(s.run) /\ a.arg = ExecutionOf(s)
    BY DEF putExecution, Write
  <2>2. a \in E
    BY <1>4
  <2> HIDE DEF a
  <2>. QED BY <1>1, <2>1, <2>2
<1>16. ASSUME NEW r \in Run, \A s \in Rewritten(q) \cup Created(q) : s.run # r PROVE rec'[Exec(r)] = rec[Exec(r)]
  <2>1. ASSUME NEW c \in E, c.cmd # "check" PROVE c.key # Exec(r)
    BY <1>3, <1>5, <1>16, <2>1, KeysDiffer
  <2>. QED BY <1>1, <2>1, KeyFacts
<1>. QED BY <1>6, <1>7, <1>10, <1>11, <1>12, <1>13, <1>14, <1>15, <1>16, SMTT(30)

\* The tasks and the events it leaves.
LEMMA CommitAdds ==
    ASSUME RInv, NEW p \in Proc, Commit(p), NEW q \in Requests, q = req[p]
    PROVE  /\ Entries(TaskMap)' = Entries(TaskMap) \cup {TaskOf(s) : s \in Rewritten(q) \cup Created(q)}
           /\ UNION {Entries(Branch(r))' : r \in Run} =
                 (UNION {Entries(Branch(r)) : r \in Run}) \cup {EventsOf(s) : s \in Evented(q)}
<1> DEFINE E == CommandsOf(p)
           W == Rewritten(q) \cup Created(q)
<1>1. /\ range[p] \in RangeID /\ Executed(p) = E
      /\ \A k \in Key : k.set \in {"htask", "histbranch"} => Entries(k)' = Entries(k) \cup Added(p, k)
  BY CommitFacts
<1>2. E = Elements(Commands(q, range[p]))
  BY DEF CommandsOf
<1>3. (\A s \in W : writeTasks(s) \in E) /\ (\A s \in Evented(q) : appendEvents(s) \in E)
  <2>1. range[p] \in RangeID
    BY <1>1
  <2> HIDE DEF E, W
  <2>2. \A s \in W : writeTasks(s) \in Elements(Commands(q, range[p]))
    BY <2>1, OperationMembers, Zenon DEF W
  <2>3. \A s \in Evented(q) : appendEvents(s) \in Elements(Commands(q, range[p]))
    BY <2>1, OperationMembers, Zenon
  <2>. QED BY <1>2, <2>2, <2>3
<1>4. \A s : /\ putExecution(s).cmd = "put"
             /\ writeTasks(s).cmd = "add" /\ writeTasks(s).key = TaskMap /\ writeTasks(s).arg = {TaskOf(s)}
             /\ appendEvents(s).cmd = "add" /\ appendEvents(s).key = Branch(s.run) /\ appendEvents(s).arg = {EventsOf(s)}
  BY DEF putExecution, writeTasks, appendEvents, Write, Add
<1>5. \A s \in W \cup Evented(q) : s \in Snapshot /\ s.run \in Run
  BY PartTypes, SnapshotFacts
<1> HIDE DEF E
<1>6. ASSUME NEW c \in E, c.cmd = "add"
      PROVE  (\E s \in W : c = writeTasks(s)) \/ (\E s \in Evented(q) : c = appendEvents(s))
  <2>1. c \in Elements(HeadOf(q)) => c.cmd # "add"
    <3>1. \A V, x : Check(Current, V).cmd = "check" /\ putCurrent(x).cmd = "put"
      BY DEF Check, putCurrent, Write
    <3>2. ASSUME HeadOf(q) = <<>> PROVE Elements(HeadOf(q)) = {}
      BY <3>2, SmallElements
    <3>3. ASSUME NEW V, HeadOf(q) = <<Check(Current, V)>> PROVE Elements(HeadOf(q)) = {Check(Current, V)}
      BY <3>3, SmallElements
    <3>4. ASSUME NEW V, NEW x, HeadOf(q) = <<Check(Current, V), putCurrent(x)>>
          PROVE  Elements(HeadOf(q)) = {Check(Current, V), putCurrent(x)}
      BY <3>4, SmallElements
    <3>. QED BY <3>1, <3>2, <3>3, <3>4, HeadShape
  <2>2. c.cmd # "check"
    BY <1>6
  <2>. QED BY <1>1, <1>2, <1>4, <1>6, <2>1, <2>2, CommandKinds
<1> HIDE DEF W
<1>7. \A k, e : e \in Added(p, k) <=> \E c \in E : c.cmd = "add" /\ c.key = k /\ e \in c.arg
  BY <1>1 DEF Added
<1>8. ASSUME NEW e PROVE e \in Added(p, TaskMap) <=> \E s \in W : e = TaskOf(s)
  <2>1. ASSUME NEW c \in E, c.cmd = "add", c.key = TaskMap, e \in c.arg PROVE \E s \in W : e = TaskOf(s)
    <3>1. ASSUME NEW s \in Evented(q), c = appendEvents(s) PROVE FALSE
      BY <1>4, <1>5, <2>1, <3>1, KeysDiffer, SMTT(30)
    <3>2. PICK s \in W : c = writeTasks(s)
      BY <1>6, <2>1, <3>1
    <3>3. c.arg = {TaskOf(s)}
      BY <1>4, <3>2
    <3>. QED BY <2>1, <3>3
  <2>2. ASSUME NEW s \in W, e = TaskOf(s) PROVE \E c \in E : c.cmd = "add" /\ c.key = TaskMap /\ e \in c.arg
    <3>1. writeTasks(s).arg = {TaskOf(s)}
      BY <1>4
    <3>2. e \in writeTasks(s).arg
      BY <2>2, <3>1
    <3>. QED BY <1>3, <1>4, <3>2
  <2>. QED BY <1>7, <2>1, <2>2
<1>81. ASSUME NEW r \in Run, NEW e PROVE e \in Added(p, Branch(r)) <=> \E s \in Evented(q) : s.run = r /\ e = EventsOf(s)
  <2>1. ASSUME NEW c \in E, c.cmd = "add", c.key = Branch(r), e \in c.arg
        PROVE  \E s \in Evented(q) : s.run = r /\ e = EventsOf(s)
    <3>1. ASSUME NEW s \in W, c = writeTasks(s) PROVE FALSE
      BY <1>4, <2>1, <3>1, KeysDiffer
    <3>2. PICK s \in Evented(q) : c = appendEvents(s)
      BY <1>6, <2>1, <3>1, SMTT(30)
    <3>3. c.arg = {EventsOf(s)} /\ c.key = Branch(s.run)
      BY <1>4, <3>2
    <3>4. s.run = r
      <4>1. Branch(s.run) = Branch(r)
        BY <2>1, <3>3
      <4>. QED BY <4>1 DEF Branch, Rec
    <3>. QED BY <2>1, <3>3, <3>4
  <2>2. ASSUME NEW s \in Evented(q), s.run = r, e = EventsOf(s)
        PROVE  \E c \in E : c.cmd = "add" /\ c.key = Branch(r) /\ e \in c.arg
    <3>1. appendEvents(s).arg = {EventsOf(s)} /\ appendEvents(s).key = Branch(r)
      BY <1>4, <2>2
    <3>2. e \in appendEvents(s).arg
      BY <2>2, <3>1
    <3>. QED BY <1>3, <1>4, <3>1, <3>2
  <2>. QED BY <1>7, <2>1, <2>2
<1>9. Entries(TaskMap)' = Entries(TaskMap) \cup {TaskOf(s) : s \in W}
  <2>1. Entries(TaskMap)' = Entries(TaskMap) \cup Added(p, TaskMap)
    BY <1>1, KeyFacts
  <2>2. Added(p, TaskMap) = {TaskOf(s) : s \in W}
    BY <1>8
  <2>. QED BY <2>1, <2>2
<1>10. \A r \in Run : Entries(Branch(r))' = Entries(Branch(r)) \cup Added(p, Branch(r))
  BY <1>1, KeyFacts
<1>11. UNION {Entries(Branch(r))' : r \in Run} =
          (UNION {Entries(Branch(r)) : r \in Run}) \cup {EventsOf(s) : s \in Evented(q)}
  <2> DEFINE X == UNION {Entries(Branch(r))' : r \in Run}
             Y == UNION {Entries(Branch(r)) : r \in Run}
             Z == {EventsOf(s) : s \in Evented(q)}
  <2> SUFFICES X = Y \cup Z
    OBVIOUS
  <2>1. ASSUME NEW e \in X PROVE e \in Y \cup Z
    <3>1. PICK r \in Run : e \in Entries(Branch(r))'
      OBVIOUS
    <3>2. e \in Entries(Branch(r)) \/ e \in Added(p, Branch(r))
      BY <1>10, <3>1
    <3>3. e \in Added(p, Branch(r)) => e \in Z
      BY <1>81
    <3>4. e \in Entries(Branch(r)) => e \in Y
      OBVIOUS
    <3>. QED BY <3>2, <3>3, <3>4
  <2>2. ASSUME NEW e \in Y PROVE e \in X
    <3>1. PICK r \in Run : e \in Entries(Branch(r))
      OBVIOUS
    <3>2. e \in Entries(Branch(r))'
      BY <1>10, <3>1
    <3>. QED BY <3>2
  <2>3. ASSUME NEW s \in Evented(q) PROVE EventsOf(s) \in X
    <3>1. s.run \in Run
      BY <1>5
    <3>2. EventsOf(s) \in Added(p, Branch(s.run))
      BY <1>81, <3>1
    <3>3. EventsOf(s) \in Entries(Branch(s.run))'
      BY <1>10, <3>1, <3>2
    <3>. QED BY <3>1, <3>3
  <2>4. \A e \in Z : e \in X
    BY <2>3
  <2> HIDE DEF X, Y, Z
  <2>. QED BY <2>1, <2>2, <2>4
<1>. QED BY <1>9, <1>11 DEF W

-----------------------------------------------------------------------------
\* The operators of the requests mean the same in the atomic store: what a run's
\* record and the pointer hold,
LEMMA StoreRecords ==
    /\ \A s : Store!ExecutionOf(s) = ExecutionOf(s) /\ Store!PointerTo(s) = PointerTo(s)
    /\ \A q : Store!NewCurrent(q) = NewCurrent(q)
<1>1. \A s : Store!ExecutionOf(s) = ExecutionOf(s) /\ Store!PointerTo(s) = PointerTo(s)
  BY DEF Store!ExecutionOf, ExecutionOf, Store!PointerTo, PointerTo
<1>2. \A q : Store!NewCurrent(q) = NewCurrent(q)
  BY <1>1 DEF Store!NewCurrent, NewCurrent
<1>. QED BY <1>1, <1>2

\* what is added to the tasks and the events,
LEMMA StoreEntries ==
    \A s : Store!TaskOf(s) = TaskOf(s) /\ Store!EventsOf(s) = EventsOf(s)
BY DEF Store!TaskOf, TaskOf, Store!EventsOf, EventsOf

\* and the conditions on a run's record.
LEMMA StoreConditions ==
    /\ \A s, e : Store!ConditionHolds(s, e) <=> ConditionHolds(s, e)
    /\ \A q, e : Store!BuiltFromLoaded(q, e) <=> BuiltFromLoaded(q, e)
<1>1. \A s, e : Store!ConditionHolds(s, e) <=> ConditionHolds(s, e)
  BY DEF Store!ConditionHolds, ConditionHolds
<1>2. \A q, e : Store!BuiltFromLoaded(q, e) <=> BuiltFromLoaded(q, e)
  BY DEF Store!BuiltFromLoaded, BuiltFromLoaded
<1>. QED BY <1>1, <1>2

\* A step that changes no record is a stutter of the atomic store.
LEMMA NoRecordChanges ==
    ASSUME rec' = rec
    PROVE  UNCHANGED Store!vars
BY SMTT(30) DEF Store!vars, Entries

\* What a commit does to the pointer, by operation and mode.
LEMMA CommitPointer ==
    ASSUME RInv, NEW p \in Proc, Commit(p), NEW q \in Requests, q = req[p]
    PROVE  /\ q.op = "Create" =>
                \/ q.mode = "BypassCurrent" /\ rec'[Current] = rec[Current]
                \/ /\ q.mode = "UpdateCurrent" /\ rec[Current] \in PointsTo(q.prevRun)
                   /\ rec[Current].lwv = q.prevLwv /\ rec[Current].state = "Completed"
                   /\ rec'[Current] = PointerTo(q.new)
                \/ q.mode = "BrandNew" /\ rec[Current] = Nil /\ rec'[Current] = PointerTo(q.new)
           /\ q.op = "Update" =>
                \/ q.mode = "IgnoreCurrent" /\ rec'[Current] = rec[Current]
                \/ /\ q.mode = "BypassCurrent" /\ rec[Current] \in (Pointer \ PointsTo(q.base.run)) \cup {Nil}
                   /\ rec'[Current] = rec[Current]
                \/ /\ q.mode = "UpdateCurrent" /\ rec[Current] \in PointsTo(q.base.run)
                   /\ rec'[Current] = NewCurrent(q)
           /\ q.op = "ConflictResolve" =>
                \/ /\ q.mode = "BypassCurrent" /\ rec[Current] \in (Pointer \ PointsTo(q.base.run)) \cup {Nil}
                   /\ rec'[Current] = rec[Current]
                \/ /\ q.mode = "UpdateCurrent"
                   /\ rec[Current] \in PointsTo(IF q.cur # Nil THEN q.cur.run ELSE q.base.run)
                   /\ rec'[Current] = NewCurrent(q)
           /\ q.op = "Set" => rec'[Current] = rec[Current]
<1>1. /\ HeadOf(q) = <<>> => rec'[Current] = rec[Current]
      /\ \A V : HeadOf(q) = <<Check(Current, V)>> => rec[Current] \in V /\ rec'[Current] = rec[Current]
      /\ \A V, c : HeadOf(q) = <<Check(Current, V), putCurrent(c)>> => rec[Current] \in V /\ rec'[Current] = c
  BY CommitEffect, Zenon
<1>2. CASE q.op = "Create"
  <2> DEFINE V == {c \in PointsTo(q.prevRun) : c.lwv = q.prevLwv /\ c.state = "Completed"}
  <2>1. q.mode \in {"BrandNew", "UpdateCurrent", "BypassCurrent"}
    BY <1>2, RequestFacts
  <2>2. HeadOf(q) = CreateHead(q)
    BY <1>2 DEF HeadOf
  <2>3. /\ q.mode = "BypassCurrent" => HeadOf(q) = <<>>
        /\ q.mode = "UpdateCurrent" => HeadOf(q) = <<Check(Current, V), putCurrent(PointerTo(q.new))>>
        /\ q.mode = "BrandNew" => HeadOf(q) = <<Check(Current, {Nil}), putCurrent(PointerTo(q.new))>>
    <3> DEFINE a == Check(Current, V)
               b == Check(Current, {Nil})
               c == putCurrent(PointerTo(q.new))
    <3>1. CreateHead(q) = CASE q.mode = "BypassCurrent" -> <<>>
                            [] q.mode = "UpdateCurrent" -> <<a, c>>
                            [] q.mode = "BrandNew" -> <<b, c>>
      BY DEF CreateHead
    <3> HIDE DEF a, b, c
    <3>2. /\ q.mode = "BypassCurrent" => HeadOf(q) = <<>>
          /\ q.mode = "UpdateCurrent" => HeadOf(q) = <<a, c>>
          /\ q.mode = "BrandNew" => HeadOf(q) = <<b, c>>
      BY <2>2, <3>1
    <3>. QED BY <3>2 DEF a, b, c
  <2>4. rec[Current] \in V =>
          /\ rec[Current] \in PointsTo(q.prevRun)
          /\ rec[Current].lwv = q.prevLwv /\ rec[Current].state = "Completed"
    OBVIOUS
  <2> HIDE DEF V
  <2>. QED BY <1>1, <1>2, <2>1, <2>3, <2>4
<1>3. CASE q.op = "Update"
  <2>1. q.mode \in {"UpdateCurrent", "BypassCurrent", "IgnoreCurrent"}
    BY <1>3, RequestFacts
  <2>2. HeadOf(q) = UpdateHead(q)
    BY <1>3 DEF HeadOf
  <2>3. /\ q.mode = "IgnoreCurrent" => HeadOf(q) = <<>>
        /\ q.mode = "BypassCurrent" => HeadOf(q) = <<Check(Current, (Pointer \ PointsTo(q.base.run)) \cup {Nil})>>
        /\ q.mode = "UpdateCurrent" => HeadOf(q) = <<Check(Current, PointsTo(q.base.run)), putCurrent(NewCurrent(q))>>
    BY <2>2 DEF UpdateHead, assertNotCurrent
  <2>. QED BY <1>1, <1>3, <2>1, <2>3
<1>4. CASE q.op = "ConflictResolve"
  <2> DEFINE run == IF q.cur # Nil THEN q.cur.run ELSE q.base.run
  <2>1. q.mode \in {"UpdateCurrent", "BypassCurrent"}
    BY <1>4, RequestFacts
  <2>2. HeadOf(q) = ResolveHead(q)
    BY <1>4 DEF HeadOf
  <2>3. /\ q.mode = "BypassCurrent" => HeadOf(q) = <<Check(Current, (Pointer \ PointsTo(q.base.run)) \cup {Nil})>>
        /\ q.mode = "UpdateCurrent" => HeadOf(q) = <<Check(Current, PointsTo(run)), putCurrent(NewCurrent(q))>>
    BY <2>2 DEF ResolveHead, assertNotCurrent
  <2> HIDE DEF run
  <2>4. \/ /\ q.mode = "BypassCurrent" /\ rec[Current] \in (Pointer \ PointsTo(q.base.run)) \cup {Nil}
           /\ rec'[Current] = rec[Current]
        \/ q.mode = "UpdateCurrent" /\ rec[Current] \in PointsTo(run) /\ rec'[Current] = NewCurrent(q)
    BY <1>1, <2>1, <2>3
  <2>. QED BY <1>4, <2>4 DEF run
<1>5. CASE q.op = "Set"
  BY <1>1, <1>5 DEF HeadOf
<1>6. q.op \in {"Create", "Update", "ConflictResolve", "Set"}
  BY RequestFacts
<1>. QED BY <1>2, <1>3, <1>4, <1>5, <1>6, Zenon

\* The tasks and the events, in the terms of the atomic store.
LEMMA CommitWrites ==
    ASSUME RInv, NEW p \in Proc, Commit(p), NEW q \in Requests, q = req[p]
    PROVE  Store!WriteTasks(Rewritten(q) \cup Created(q)) /\ Store!AppendEvents(Evented(q))
<1>1. {Store!TaskOf(s) : s \in Rewritten(q) \cup Created(q)} = {TaskOf(s) : s \in Rewritten(q) \cup Created(q)}
  BY StoreEntries
<1>2. {Store!EventsOf(s) : s \in Evented(q)} = {EventsOf(s) : s \in Evented(q)}
  BY StoreEntries
<1>. QED BY <1>1, <1>2, CommitAdds DEF Store!WriteTasks, Store!AppendEvents

\* A function that differs from another one at one argument.
LEMMA ExceptOne ==
    ASSUME NEW D, NEW f, NEW g, NEW x \in D, NEW v, f = [r \in D |-> f[r]], g = [r \in D |-> g[r]],
           g[x] = v, \A r \in D : r # x => g[r] = f[r]
    PROVE  g = [f EXCEPT ![x] = v]
OBVIOUS

\* What the conditions on the pointer say of it.
LEMMA PointerConditions ==
    /\ \A c, r : c \in PointsTo(r) => c # Nil /\ c.run = r
    /\ \A c, r : c \in (Pointer \ PointsTo(r)) \cup {Nil} => (c # Nil => c.run # r)
BY ConstantsAssumption DEF PointsTo

\* What a commit finds and leaves in the records of the runs.
LEMMA CommitRecords ==
    ASSUME RInv, NEW p \in Proc, Commit(p), NEW q \in Requests, q = req[p]
    PROVE  /\ rec[Shard] = range[p] /\ rec'[Shard] = rec[Shard]
           /\ \A s \in Rewritten(q) :
                 ConditionHolds(s, rec[Exec(s.run)]) /\ BuiltFromLoaded(q, rec[Exec(s.run)])
           /\ \A s \in Created(q) : rec[Exec(s.run)] = Nil
           /\ \A s \in Rewritten(q) \cup Created(q) : rec'[Exec(s.run)] = ExecutionOf(s)
           /\ \A r \in Run : (\A s \in Rewritten(q) \cup Created(q) : s.run # r) => rec'[Exec(r)] = rec[Exec(r)]
BY CommitEffect, Zenon

\* The commit of a create is the create of the atomic store, at one instant.
LEMMA CreateIsAtomic ==
    ASSUME RInv, NEW p \in Proc, Commit(p), NEW q \in Requests, q = req[p], q.op = "Create"
    PROVE  Store!CallerBuilt(q) /\ Store!Execute(q, range[p])
<1> DEFINE exec == [r \in Run |-> rec[Exec(r)]]
           after == [r \in Run |-> rec'[Exec(r)]]
<1>1. q.new \in Snapshot /\ q.new # Nil /\ q.new.run \in Run
  BY RequestFacts, SnapshotFacts
<1>2. Rewritten(q) = {} /\ Created(q) = {q.new} /\ Evented(q) = {q.new}
  BY <1>1 DEF Rewritten, Created, Evented, BaseOf, CurOf, NewOf, EventBaseOf
<1>3. /\ rec[Shard] = range[p] /\ rec'[Shard] = rec[Shard]
      /\ rec[Exec(q.new.run)] = Nil
      /\ rec'[Exec(q.new.run)] = ExecutionOf(q.new)
      /\ \A r \in Run : r # q.new.run => rec'[Exec(r)] = rec[Exec(r)]
  BY <1>2, CommitRecords
<1>4. Store!WriteTasks({q.new}) /\ Store!AppendEvents({q.new})
  BY <1>2, CommitWrites, SMTT(30)
<1>5. \/ q.mode = "BypassCurrent" /\ rec'[Current] = rec[Current]
      \/ /\ q.mode = "UpdateCurrent" /\ rec[Current] # Nil /\ rec[Current].run = q.prevRun
         /\ rec[Current].lwv = q.prevLwv /\ rec[Current].state = "Completed"
         /\ rec'[Current] = Store!PointerTo(q.new)
      \/ q.mode = "BrandNew" /\ rec[Current] = Nil /\ rec'[Current] = Store!PointerTo(q.new)
  BY PointerConditions, CommitPointer, StoreRecords
<1>6. exec[q.new.run] = Nil /\ after = [exec EXCEPT ![q.new.run] = Store!ExecutionOf(q.new)]
  <2>1. exec = [r \in Run |-> exec[r]] /\ after = [r \in Run |-> after[r]]
    OBVIOUS
  <2>2. exec[q.new.run] = Nil /\ after[q.new.run] = Store!ExecutionOf(q.new)
    BY <1>1, <1>3, StoreRecords
  <2>3. \A r \in Run : r # q.new.run => after[r] = exec[r]
    BY <1>3, SMTT(30)
  <2> HIDE DEF exec, after
  <2>. QED BY <1>1, <2>1, <2>2, <2>3, ExceptOne
<1>7. Store!CreateWorkflowExecution(q, range[p])
  BY <1>3, <1>4, <1>5, <1>6, SMTT(30) DEF Store!CreateWorkflowExecution
<1>. QED BY <1>7 DEF Store!Execute, Store!CallerBuilt

\* The same of an update, with the new run of a continue-as-new.
LEMMA UpdateIsAtomic ==
    ASSUME RInv, NEW p \in Proc, Commit(p), NEW q \in Requests, q = req[p], q.op = "Update"
    PROVE  Store!CallerBuilt(q) /\ Store!Execute(q, range[p])
<1> DEFINE exec == [r \in Run |-> rec[Exec(r)]]
           after == [r \in Run |-> rec'[Exec(r)]]
           S == Store!NonNil({q.base, q.new})
<1>1. q.base # Nil /\ q.base.run \in Run /\ (q.new # Nil => q.new.run \in Run)
  BY RequestFacts, SnapshotFacts
<1>2. Rewritten(q) = {q.base} /\ Created(q) = {q.new} \ {Nil} /\ Evented(q) = S /\ Rewritten(q) \cup Created(q) = S
  BY <1>1, SMTT(30) DEF Rewritten, Created, Evented, BaseOf, CurOf, NewOf, EventBaseOf, Store!NonNil
<1>3. /\ rec[Shard] = range[p] /\ rec'[Shard] = rec[Shard]
      /\ ConditionHolds(q.base, rec[Exec(q.base.run)]) /\ BuiltFromLoaded(q, rec[Exec(q.base.run)])
      /\ q.new # Nil => rec[Exec(q.new.run)] = Nil /\ rec'[Exec(q.new.run)] = ExecutionOf(q.new)
      /\ rec'[Exec(q.base.run)] = ExecutionOf(q.base)
      /\ \A r \in Run : r # q.base.run /\ (q.new # Nil => r # q.new.run) => rec'[Exec(r)] = rec[Exec(r)]
  BY <1>2, CommitRecords
<1>4. Store!WriteTasks(S) /\ Store!AppendEvents(S)
  BY <1>2, CommitWrites
<1>5. \/ q.mode = "IgnoreCurrent" /\ rec'[Current] = rec[Current]
      \/ /\ q.mode = "BypassCurrent" /\ (rec[Current] # Nil => rec[Current].run # q.base.run)
         /\ rec'[Current] = rec[Current]
      \/ /\ q.mode = "UpdateCurrent" /\ rec[Current] # Nil /\ rec[Current].run = q.base.run
         /\ rec'[Current] = Store!NewCurrent(q)
  BY PointerConditions, CommitPointer, StoreRecords
<1>6. after = [r \in Run |-> IF q.new # Nil /\ r = q.new.run THEN Store!ExecutionOf(q.new)
                             ELSE IF r = q.base.run THEN Store!ExecutionOf(q.base)
                             ELSE exec[r]]
  <2>1. ASSUME NEW r \in Run
        PROVE  rec'[Exec(r)] = IF q.new # Nil /\ r = q.new.run THEN Store!ExecutionOf(q.new)
                               ELSE IF r = q.base.run THEN Store!ExecutionOf(q.base)
                               ELSE rec[Exec(r)]
    BY <1>3, StoreRecords, SMTT(30)
  <2>. QED BY <2>1, SMTT(30)
<1>7. Store!ConditionHolds(q.base, exec[q.base.run]) /\ Store!NewRunIsFresh(q)
  BY <1>1, <1>3, StoreConditions DEF Store!NewRunIsFresh
<1>8. Store!UpdateWorkflowExecution(q, range[p])
  BY <1>3, <1>4, <1>5, <1>6, <1>7, ZenonT(30) DEF Store!UpdateWorkflowExecution
<1>9. Store!CallerBuilt(q)
  BY <1>1, <1>3, StoreConditions DEF Store!CallerBuilt
<1>. QED BY <1>8, <1>9 DEF Store!Execute

\* The same of a conflict resolution, which concerns up to three runs.
LEMMA ResolveIsAtomic ==
    ASSUME RInv, NEW p \in Proc, Commit(p), NEW q \in Requests, q = req[p], q.op = "ConflictResolve"
    PROVE  Store!CallerBuilt(q) /\ Store!Execute(q, range[p])
<1> DEFINE exec == [r \in Run |-> rec[Exec(r)]]
           after == [r \in Run |-> rec'[Exec(r)]]
           S == Store!NonNil({q.base, q.cur, q.new})
<1>1. /\ q.base # Nil /\ q.base.run \in Run /\ (q.new # Nil => q.new.run \in Run)
      /\ q.cur # Nil => q.cur.run \in Run
  BY RequestFacts, SnapshotFacts
<1>2. /\ Rewritten(q) = {q.base, q.cur} \ {Nil} /\ Created(q) = {q.new} \ {Nil}
      /\ Evented(q) = S /\ Rewritten(q) \cup Created(q) = S
  BY <1>1 DEF Rewritten, Created, Evented, BaseOf, CurOf, NewOf, EventBaseOf, Store!NonNil
<1>3. /\ q.base \in Rewritten(q) /\ (q.cur # Nil => q.cur \in Rewritten(q)) /\ (q.new # Nil => q.new \in Created(q))
      /\ \A s \in Rewritten(q) \cup Created(q) : s = q.base \/ (q.cur # Nil /\ s = q.cur) \/ (q.new # Nil /\ s = q.new)
  BY <1>1, <1>2, SMTT(30)
<1>4. /\ rec[Shard] = range[p] /\ rec'[Shard] = rec[Shard]
      /\ ConditionHolds(q.base, rec[Exec(q.base.run)])
      /\ q.cur # Nil => ConditionHolds(q.cur, rec[Exec(q.cur.run)]) /\ rec'[Exec(q.cur.run)] = ExecutionOf(q.cur)
      /\ q.new # Nil => rec[Exec(q.new.run)] = Nil /\ rec'[Exec(q.new.run)] = ExecutionOf(q.new)
      /\ rec'[Exec(q.base.run)] = ExecutionOf(q.base)
      /\ \A r \in Run : r # q.base.run /\ (q.cur # Nil => r # q.cur.run) /\ (q.new # Nil => r # q.new.run)
           => rec'[Exec(r)] = rec[Exec(r)]
  BY <1>3, CommitRecords
<1>5. Store!WriteTasks(S) /\ Store!AppendEvents(S)
  BY <1>2, CommitWrites, SMTT(30)
<1>6. \/ /\ q.mode = "BypassCurrent" /\ (rec[Current] # Nil => rec[Current].run # q.base.run)
         /\ rec'[Current] = rec[Current]
      \/ /\ q.mode = "UpdateCurrent" /\ rec[Current] # Nil
         /\ rec[Current].run = (IF q.cur # Nil THEN q.cur.run ELSE q.base.run)
         /\ rec'[Current] = Store!NewCurrent(q)
  BY PointerConditions, CommitPointer, StoreRecords, SMTT(30)
<1>7. after = [r \in Run |-> IF q.new # Nil /\ r = q.new.run THEN Store!ExecutionOf(q.new)
                             ELSE IF q.cur # Nil /\ r = q.cur.run THEN Store!ExecutionOf(q.cur)
                             ELSE IF r = q.base.run THEN Store!ExecutionOf(q.base)
                             ELSE exec[r]]
  <2>1. ASSUME NEW r \in Run
        PROVE  rec'[Exec(r)] = IF q.new # Nil /\ r = q.new.run THEN Store!ExecutionOf(q.new)
                               ELSE IF q.cur # Nil /\ r = q.cur.run THEN Store!ExecutionOf(q.cur)
                               ELSE IF r = q.base.run THEN Store!ExecutionOf(q.base)
                               ELSE rec[Exec(r)]
    BY <1>4, StoreRecords, SMTT(30)
  <2>. QED BY <2>1, SMTT(30)
<1>8. /\ Store!ConditionHolds(q.base, exec[q.base.run]) /\ Store!NewRunIsFresh(q)
      /\ q.cur # Nil => Store!ConditionHolds(q.cur, exec[q.cur.run])
  BY <1>1, <1>4, StoreConditions DEF Store!NewRunIsFresh
<1>9. Store!ConflictResolveWorkflowExecution(q, range[p])
  BY <1>4, <1>5, <1>6, <1>7, <1>8, ZenonT(30) DEF Store!ConflictResolveWorkflowExecution
<1>. QED BY <1>9 DEF Store!Execute, Store!CallerBuilt

\* The same of a rewrite that leaves pointer and events alone.
LEMMA SetIsAtomic ==
    ASSUME RInv, NEW p \in Proc, Commit(p), NEW q \in Requests, q = req[p], q.op = "Set"
    PROVE  Store!CallerBuilt(q) /\ Store!Execute(q, range[p])
<1> DEFINE exec == [r \in Run |-> rec[Exec(r)]]
           after == [r \in Run |-> rec'[Exec(r)]]
<1>1. q.base # Nil /\ q.base.run \in Run
  BY RequestFacts, SnapshotFacts
<1>2. Rewritten(q) = {q.base} /\ Created(q) = {} /\ Evented(q) = {}
  BY <1>1, SMTT(30) DEF Rewritten, Created, Evented, BaseOf, CurOf, NewOf, EventBaseOf
<1>3. /\ rec[Shard] = range[p] /\ rec'[Shard] = rec[Shard]
      /\ ConditionHolds(q.base, rec[Exec(q.base.run)]) /\ BuiltFromLoaded(q, rec[Exec(q.base.run)])
      /\ rec'[Exec(q.base.run)] = ExecutionOf(q.base)
      /\ \A r \in Run : r # q.base.run => rec'[Exec(r)] = rec[Exec(r)]
  BY <1>2, CommitRecords
<1>4. Store!WriteTasks({q.base}) /\ Store!AppendEvents({})
  BY <1>2, CommitWrites, SMTT(30)
<1>5. (UNION {Entries(Branch(r)) : r \in Run})' = UNION {Entries(Branch(r)) : r \in Run}
  BY <1>4 DEF Store!AppendEvents
<1>6. rec'[Current] = rec[Current]
  BY CommitPointer
<1>7. after = [exec EXCEPT ![q.base.run] = Store!ExecutionOf(q.base)]
  <2>1. exec = [r \in Run |-> exec[r]] /\ after = [r \in Run |-> after[r]]
    OBVIOUS
  <2>2. after[q.base.run] = Store!ExecutionOf(q.base)
    BY <1>1, <1>3, StoreRecords
  <2>3. \A r \in Run : r # q.base.run => after[r] = exec[r]
    BY <1>3
  <2> HIDE DEF exec, after
  <2>. QED BY <1>1, <2>1, <2>2, <2>3, ExceptOne
<1>8. Store!ConditionHolds(q.base, exec[q.base.run])
  <2>1. exec[q.base.run] = rec[Exec(q.base.run)]
    BY <1>1, Zenon
  <2>. QED BY <1>3, <2>1, StoreConditions, Zenon
<1>9. Store!SetWorkflowExecution(q, range[p])
  BY <1>3, <1>4, <1>5, <1>6, <1>7, <1>8, ZenonT(30) DEF Store!SetWorkflowExecution
<1>10. Store!CallerBuilt(q)
  BY <1>1, <1>3, StoreConditions DEF Store!CallerBuilt
<1>. QED BY <1>9, <1>10 DEF Store!Execute

\* Whatever the request, a commit is its operation.
LEMMA CommitIsAtomic ==
    ASSUME RInv, NEW p \in Proc, Commit(p)
    PROVE  Store!Next
<1>1. req[p] # Nil
  BY DEF Commit
<1>2. req[p] \in Requests /\ range[p] \in RangeID
  BY <1>1 DEF RInv, IInv, TypeOK
<1>3. PICK q \in Requests : q = req[p]
  BY <1>2, SMTT(30)
<1>4. Store!CallerBuilt(q) /\ Store!Execute(q, range[p])
  BY <1>3, RequestFacts, CreateIsAtomic, UpdateIsAtomic, ResolveIsAtomic, SetIsAtomic, SMTT(30)
<1>. QED BY <1>2, <1>4 DEF Store!Next

-----------------------------------------------------------------------------
\* A command outside the transactions changes the record it names and no other.
LEMMA PutRecord ==
    ASSUME RInv, NEW k \in Key, NEW v, MRT!Put(k, v)
    PROVE  rec'[k] = v /\ \A x \in Key : x # k => rec'[x] = rec[x]
BY DEF MRT!Put, RInv, IInv, TypeOK

\* What stays as it was when neither the tasks nor the events are written.
LEMMA EntriesKept ==
    ASSUME rec'[TaskMap] = rec[TaskMap], \A r \in Run : rec'[Branch(r)] = rec[Branch(r)]
    PROVE  /\ Entries(TaskMap)' = Entries(TaskMap)
           /\ (UNION {Entries(Branch(r)) : r \in Run})' = UNION {Entries(Branch(r)) : r \in Run}
<1>1. Entries(TaskMap)' = Entries(TaskMap)
  BY DEF Entries
<1>2. \A r \in Run : Entries(Branch(r))' = Entries(Branch(r))
  BY DEF Entries
<1>. QED BY <1>1, <1>2

\* Creating the lease, taking it over and renewing it.
LEMMA LeaseIsAtomic ==
    ASSUME RInv, CreateShard \/ \E h \in Host : AcquireShard(h) \/ RenewShard(h)
    PROVE  Store!Next
<1> DEFINE exec == [r \in Run |-> rec[Exec(r)]]
           after == [r \in Run |-> rec'[Exec(r)]]
<1>1. \E v \in RangeID : /\ MRT!Put(Shard, v)
                         /\ rec[Shard] = Nil \/ (rec[Shard] \in RangeID /\ v >= rec[Shard])
  <2>1. rec[Shard] \in RangeID \cup {Nil}
    BY KeyFacts DEF RInv, IInv, TypeOK
  <2>2. \A v \in RangeID : v + 1 >= v /\ v >= v
    BY ConstantsAssumption
  <2>3. CASE CreateShard
    BY <2>3 DEF CreateShard
  <2>4. ASSUME NEW h \in Host, AcquireShard(h)
        PROVE  /\ rec[Shard] \in RangeID /\ rec[Shard] + 1 \in RangeID
               /\ MRT!Put(Shard, rec[Shard] + 1) /\ rec[Shard] + 1 >= rec[Shard]
    <3>1. rec[Shard] # Nil /\ rec[Shard] + 1 \in RangeID /\ MRT!Put(Shard, rec[Shard] + 1)
      BY <2>4 DEF AcquireShard
    <3>. QED BY <2>1, <2>2, <3>1
  <2>5. ASSUME NEW h \in Host, RenewShard(h)
        PROVE  rec[Shard] \in RangeID /\ MRT!Put(Shard, rec[Shard]) /\ rec[Shard] >= rec[Shard]
    <3>1. held[h] # Nil /\ rec[Shard] = held[h] /\ MRT!Put(Shard, held[h])
      BY <2>5 DEF RenewShard
    <3>. QED BY <2>1, <2>2, <3>1
  <2>. QED BY <2>3, <2>4, <2>5, SMTT(30)
<1>2. PICK v \in RangeID : /\ MRT!Put(Shard, v)
                           /\ rec[Shard] = Nil \/ (rec[Shard] \in RangeID /\ v >= rec[Shard])
  BY <1>1
<1>3. rec'[Shard] = v /\ \A x \in Key : x # Shard => rec'[x] = rec[x]
  BY <1>2, PutRecord, KeyFacts
<1>4. /\ rec'[Current] = rec[Current] /\ rec'[TaskMap] = rec[TaskMap]
      /\ \A r \in Run : rec'[Exec(r)] = rec[Exec(r)] /\ rec'[Branch(r)] = rec[Branch(r)]
  BY <1>3, KeyFacts
<1>5. after = exec
  BY <1>4
<1>6. /\ Entries(TaskMap)' = Entries(TaskMap)
      /\ (UNION {Entries(Branch(r)) : r \in Run})' = UNION {Entries(Branch(r)) : r \in Run}
  BY <1>4, EntriesKept
<1>7. rec[Shard] = Nil => Store!GetOrCreateShard(v)
  BY <1>3, <1>4, <1>5, <1>6, SMTT(30) DEF Store!GetOrCreateShard
<1>8. Store!UpdateShard(rec[Shard], v)
  BY <1>3, <1>4, <1>5, <1>6 DEF Store!UpdateShard
<1>. QED BY <1>2, <1>7, <1>8 DEF Store!Next

\* The two deletes.
LEMMA DeleteIsAtomic ==
    ASSUME RInv, NEW run \in Run, IsClosed(run),
           \/ DeleteCurrentWorkflowExecution(run)
           \/ rec[Current] \notin PointsTo(run) /\ DeleteWorkflowExecution(run)
    PROVE  Store!Next
<1> DEFINE exec == [r \in Run |-> rec[Exec(r)]]
           after == [r \in Run |-> rec'[Exec(r)]]
<1>1. Store!IsClosed(run)
  BY DEF Store!IsClosed, IsClosed
<1>2. CASE DeleteCurrentWorkflowExecution(run)
  <2>1. rec[Current] \in PointsTo(run) /\ MRT!Put(Current, Nil)
    BY <1>2 DEF DeleteCurrentWorkflowExecution
  <2>2. rec'[Current] = Nil /\ \A x \in Key : x # Current => rec'[x] = rec[x]
    BY <2>1, PutRecord, KeyFacts, Zenon
  <2>3. /\ rec'[Shard] = rec[Shard] /\ rec'[TaskMap] = rec[TaskMap]
        /\ \A r \in Run : rec'[Exec(r)] = rec[Exec(r)] /\ rec'[Branch(r)] = rec[Branch(r)]
    BY <2>2, KeyFacts, KeysDiffer, SMTT(30)
  <2>4. after = exec
    BY <2>3
  <2>5. /\ Entries(TaskMap)' = Entries(TaskMap)
        /\ (UNION {Entries(Branch(r)) : r \in Run})' = UNION {Entries(Branch(r)) : r \in Run}
    BY <2>3, EntriesKept
  <2>6. rec[Current] # Nil /\ rec[Current].run = run
    BY <2>1, PointerConditions, Zenon
  <2>7. Store!DeleteCurrentWorkflowExecution(run)
    BY <2>2, <2>3, <2>4, <2>5, <2>6, SMTT(30) DEF Store!DeleteCurrentWorkflowExecution
  <2>. QED BY <1>1, <2>7 DEF Store!Next
<1>3. CASE rec[Current] \notin PointsTo(run) /\ DeleteWorkflowExecution(run)
  <2>1. rec[Exec(run)] # Nil /\ MRT!Put(Exec(run), Nil)
    BY <1>3 DEF DeleteWorkflowExecution
  <2>2. rec'[Exec(run)] = Nil /\ \A x \in Key : x # Exec(run) => rec'[x] = rec[x]
    BY <2>1, PutRecord, KeyFacts, Zenon
  <2>3. /\ rec'[Shard] = rec[Shard] /\ rec'[Current] = rec[Current] /\ rec'[TaskMap] = rec[TaskMap]
        /\ \A r \in Run : rec'[Branch(r)] = rec[Branch(r)] /\ (r # run => rec'[Exec(r)] = rec[Exec(r)])
    BY <2>2, KeyFacts, KeysDiffer
  <2>4. after = [exec EXCEPT ![run] = Nil] /\ exec[run] # Nil
    <3>1. exec = [r \in Run |-> exec[r]] /\ after = [r \in Run |-> after[r]]
      OBVIOUS
    <3>2. after[run] = Nil /\ exec[run] # Nil
      BY <2>1, <2>2
    <3>3. \A r \in Run : r # run => after[r] = exec[r]
      BY <2>3
    <3> HIDE DEF exec, after
    <3>. QED BY <3>1, <3>2, <3>3, ExceptOne, SMTT(30)
  <2>5. /\ Entries(TaskMap)' = Entries(TaskMap)
        /\ (UNION {Entries(Branch(r)) : r \in Run})' = UNION {Entries(Branch(r)) : r \in Run}
    BY <2>3, EntriesKept
  <2>6. ~Store!IsCurrent(run)
    <3>1. rec[Current] \in Pointer \cup {Nil}
      BY KeyFacts, SMTT(30) DEF RInv, IInv, TypeOK
    <3>. QED BY <1>3, <3>1, SMTT(30) DEF Store!IsCurrent, PointsTo
  <2>7. Store!DeleteWorkflowExecution(run)
    BY <2>3, <2>4, <2>5 DEF Store!DeleteWorkflowExecution
  <2>. QED BY <1>1, <2>6, <2>7 DEF Store!Next
<1>. QED BY <1>2, <1>3

-----------------------------------------------------------------------------
\* Every step is a step of the atomic store or changes nothing in it.
LEMMA StepRefines ==
    ASSUME RInv, [Next]_vars
    PROVE  [Store!Next]_(Store!vars)
<1>1. CASE CreateShard \/ \E h \in Host : AcquireShard(h) \/ RenewShard(h)
  BY <1>1, LeaseIsAtomic
<1>2. ASSUME NEW p \in Proc, NEW h \in Host, Begin(p, h) PROVE rec' = rec
  BY <1>2 DEF Begin
<1>3. ASSUME NEW p \in Proc, CheckPasses(p) PROVE rec' = rec
  BY <1>3, Zenon DEF CheckPasses, MRT!TxnRead
<1>4. ASSUME NEW p \in Proc, WriteRecord(p) PROVE rec' = rec
  BY <1>4, Zenon DEF WriteRecord, MRT!TxnWrite
<1>5. ASSUME NEW p \in Proc, CheckFails(p) \/ CommandFails(p) \/ CommitConflict(p) PROVE rec' = rec
  BY <1>5 DEF CheckFails, CommandFails, CommitConflict, MRT!TxnAbort
<1>6. ASSUME NEW p \in Proc, Commit(p) PROVE Store!Next
  BY <1>6, CommitIsAtomic
<1>7. ASSUME NEW r \in Run, IsClosed(r),
             \/ DeleteCurrentWorkflowExecution(r)
             \/ rec[Current] \notin PointsTo(r) /\ DeleteWorkflowExecution(r)
      PROVE  Store!Next
  BY <1>7, DeleteIsAtomic
<1>8. CASE UNCHANGED vars
  <2>1. rec' = rec
    BY <1>8 DEF vars
  <2>. QED BY <2>1, NoRecordChanges
<1>. QED BY <1>1, <1>2, <1>3, <1>4, <1>5, <1>6, <1>7, <1>8, NoRecordChanges, SMTT(30) DEF Next

\* Nothing is stored and no thread has begun.
LEMMA InitRefines ==
    ASSUME Init
    PROVE  Store!Init /\ RInv
<1>1. /\ rec = [k \in Key |-> Nil] /\ txn = [p \in Proc |-> MRT!NoTxn]
      /\ req = [p \in Proc |-> Nil]
  BY DEF Init, MRT!MRTInit
<1>2. rec[Shard] = Nil /\ rec[Current] = Nil /\ rec[TaskMap] = Nil
  BY <1>1, KeyFacts
<1>3. \A r \in Run : rec[Exec(r)] = Nil /\ rec[Branch(r)] = Nil
  BY <1>1, KeyFacts
<1>4. Entries(TaskMap) = {} /\ \A r \in Run : Entries(Branch(r)) = {}
  BY <1>2, <1>3 DEF Entries
<1>5. Store!Init
  BY <1>2, <1>3, <1>4 DEF Store!Init
<1>6. ASSUME NEW p \in Proc PROVE Thread(p)
  <2>1. req[p] = Nil /\ txn[p].reads = {} /\ DOMAIN txn[p].prov = {}
    BY <1>1 DEF MRT!NoTxn
  <2>. QED BY <2>1 DEF Thread, Idle, MRT!Writes
<1>. QED BY <1>5, <1>6, InitStep DEF RInv, Progress

\* For any number of hosts, threads, runs and requests: each operation of the
\* execution store, sent command by command while leases move, records are
\* deleted and other transactions run, takes effect at one instant at which all
\* of its conditions hold, or not at all.
THEOREM RefinementTheorem == Spec => ImplementsStore
<1>1. Init => RInv /\ Store!Init
  BY InitRefines
<1>2. RInv /\ [Next]_vars => RInv'
  BY ProgressStep
<1>3. RInv /\ [Next]_vars => [Store!Next]_(Store!vars)
  BY StepRefines
<1>. QED BY <1>1, <1>2, <1>3, PTL DEF Spec, ImplementsStore, Store!Spec
=============================================================================
