---------------------------- MODULE CatalogProofs ----------------------------
(***************************************************************************)
(* The stores that keep records by name: the schema version, task queue    *)
(* user data, namespaces.  Their records are independent, so the           *)
(* specifications are too; each section has its own inductive invariant.   *)
(***************************************************************************)
EXTENDS Namespaces, UserData, SchemaVersion, TLAPS

-----------------------------------------------------------------------------
(***************************************************************************)
(* The schema version, for any number of services and builds.              *)
(***************************************************************************)
SchemaInv ==
    /\ schema \in Build \cup {Nil}
    /\ build \in [Service -> Build]
    /\ DOMAIN boot = Service
    /\ \A s \in Service : boot[s] = "reread" => schema # Nil
    /\ RunningBuildsAreAdmitted

\* However services of different builds race at boot and are restarted, the
\* version record admits every service that runs: the stamp never changes, and
\* the loser of the race is held against it.
THEOREM SchemaTheorem == SchemaSpec => []RunningBuildsAreAdmitted
<1> USE SchemaAssumption
<1>1. SchemaInit => SchemaInv
  BY DEF SchemaInit, SchemaInv, RunningBuildsAreAdmitted
<1>2. SchemaInv /\ [SchemaNext]_svvars => SchemaInv'
  <2> SUFFICES ASSUME SchemaInv, [SchemaNext]_svvars PROVE SchemaInv'
    OBVIOUS
  <2>1. ASSUME NEW s \in Service, schema # Nil, Validate(s), UNCHANGED <<schema, build>> PROVE SchemaInv'
    BY <2>1 DEF Validate, SchemaInv, RunningBuildsAreAdmitted, Admits
  <2>2. ASSUME NEW s \in Service, ReadSchema(s) PROVE SchemaInv'
    <3>1. CASE schema = Nil
      BY <2>2, <3>1 DEF ReadSchema, SchemaInv, RunningBuildsAreAdmitted
    <3>. QED BY <2>1, <2>2, <3>1 DEF ReadSchema
  <2>3. ASSUME NEW s \in Service, StampSchema(s) PROVE SchemaInv'
    <3>1. CASE schema = Nil
      <4>1. \A x \in Service : boot[x] # "ready"
        BY <3>1 DEF SchemaInv, RunningBuildsAreAdmitted
      <4>2. /\ schema' = build[s] /\ build' = build /\ build[s] \in Build
            /\ DOMAIN boot' = Service /\ \A x \in Service : boot'[x] = "ready" => x = s
        BY <2>3, <3>1, <4>1 DEF StampSchema, SchemaInv
      <4>3. Admits(build[s], build[s])
        BY <4>2 DEF Admits
      <4>. QED BY <4>2, <4>3 DEF SchemaInv, RunningBuildsAreAdmitted
    <3>2. CASE schema # Nil
      BY <2>3, <3>2 DEF StampSchema, SchemaInv, RunningBuildsAreAdmitted
    <3>. QED BY <3>1, <3>2
  <2>4. ASSUME NEW s \in Service, RereadSchema(s) PROVE SchemaInv'
    BY <2>1, <2>4 DEF RereadSchema, SchemaInv
  <2>5. ASSUME NEW s \in Service, NEW b \in Build, Restart(s, b) PROVE SchemaInv'
    BY <2>5 DEF Restart, SchemaInv, RunningBuildsAreAdmitted
  <2>6. CASE UNCHANGED svvars
    BY <2>6 DEF svvars, SchemaInv, RunningBuildsAreAdmitted
  <2>. QED BY <2>2, <2>3, <2>4, <2>5, <2>6 DEF SchemaNext
<1>3. SchemaInv => RunningBuildsAreAdmitted
  BY DEF SchemaInv
<1>. QED BY <1>1, <1>2, <1>3, PTL DEF SchemaSpec

-----------------------------------------------------------------------------
(***************************************************************************)
(* Task queue user data, for any number of queues, build ids and writers.  *)
(* A writer changes the index by what it read, so the index stays in step  *)
(* only because an unchanged version vouches for that read (ReadsVouched). *)
(***************************************************************************)
QueueData == [version : Nat, builds : SUBSET BuildID]

UserDataTypeOK ==
    /\ udata \in [UserDataQueue -> QueueData]
    /\ DOMAIN buildidx = BuildID
    /\ DOMAIN batch = DataWriter /\ DOMAIN applied = DataWriter
    /\ DOMAIN conflict = DataWriter /\ DOMAIN effected = DataWriter
    /\ \A w \in DataWriter : conflict[w] \subseteq UserDataQueue

\* What a writer has read of a queue is not newer than the record, and is the
\* record if the version is.
ReadsVouched(w) ==
    /\ DOMAIN batch[w] \subseteq UserDataQueue
    /\ \A q \in DOMAIN batch[w] :
         /\ batch[w][q] \in QueueData
         /\ batch[w][q].version <= udata[q].version
         /\ batch[w][q].version = udata[q].version => batch[w][q] = udata[q]

UserDataInv ==
    /\ UserDataTypeOK
    /\ IndexInStep
    /\ FlagsAreTrue
    /\ \A w \in DataWriter : batch[w] # Nil => ReadsVouched(w)

\* There is no user data and no writer has begun.
LEMMA UserDataInitInv == UserDataInit => UserDataInv
<1> SUFFICES ASSUME UserDataInit PROVE UserDataInv
  OBVIOUS
<1>1. UserDataTypeOK
  BY DEF UserDataInit, UserDataTypeOK, QueueData
<1>2. IndexInStep /\ FlagsAreTrue
  BY DEF UserDataInit, IndexInStep, FlagsAreTrue
<1>3. \A w \in DataWriter : batch[w] = Nil
  BY DEF UserDataInit
<1>. QED BY <1>1, <1>2, <1>3 DEF UserDataInv

\* Steps that change neither the records nor the index, of one writer.
LEMMA WriterStep ==
    ASSUME UserDataInv, NEW w \in DataWriter, UNCHANGED <<udata, buildidx>>,
           NEW b, batch' = [batch EXCEPT ![w] = b],
           b # Nil => ReadsVouched(w)',
           DOMAIN applied' = DataWriter, DOMAIN conflict' = DataWriter, DOMAIN effected' = DataWriter,
           \A v \in DataWriter \ {w} : applied'[v] = applied[v] /\ conflict'[v] = conflict[v] /\ effected'[v] = effected[v],
           conflict'[w] \subseteq UserDataQueue, applied'[w] \in {{}, effected'[w]}, conflict'[w] \cap effected'[w] = {},
           \A q \in conflict'[w] : udata[q].version > 0
    PROVE  UserDataInv'
<1>1. UserDataTypeOK'
  BY DEF UserDataInv, UserDataTypeOK
<1>2. IndexInStep'
  BY DEF UserDataInv, IndexInStep
<1>3. FlagsAreTrue'
  BY DEF UserDataInv, FlagsAreTrue
<1>4. ASSUME NEW v \in DataWriter, batch'[v] # Nil PROVE ReadsVouched(v)'
  <2>1. CASE v = w
    BY <1>4, <2>1 DEF UserDataInv, UserDataTypeOK
  <2>2. CASE v # w
    <3>1. batch'[v] = batch[v]
      BY <2>2 DEF UserDataInv, UserDataTypeOK
    <3>2. ReadsVouched(v)
      BY <1>4, <3>1 DEF UserDataInv
    <3>. QED BY <3>1, <3>2 DEF ReadsVouched
  <2>. QED BY <2>1, <2>2
<1>. QED BY <1>1, <1>2, <1>3, <1>4 DEF UserDataInv

\* A commit: the versions it has checked vouch for what the writer read, so the
\* index is changed by what really changes; the reads of others fall behind.
LEMMA UpdateUserDataStep ==
    ASSUME UserDataInv, NEW w \in DataWriter, NEW builds \in [UserDataQueue -> SUBSET BuildID],
           NEW told \in BOOLEAN, UpdateTaskQueueUserData(w, builds, told)
    PROVE  UserDataInv'
<1> DEFINE D == DOMAIN batch[w]
<1>1. /\ D \subseteq UserDataQueue
      /\ \A q \in D : batch[w][q] = udata[q] /\ udata[q] \in QueueData
  BY DEF UserDataInv, UserDataTypeOK, ReadsVouched, UpdateTaskQueueUserData, Matches
<1>2. /\ udata' = [q \in UserDataQueue |->
                     IF q \in D THEN [version |-> batch[w][q].version + 1, builds |-> builds[q]] ELSE udata[q]]
      /\ buildidx' = IndexAfter(w, builds)
      /\ applied' = [applied EXCEPT ![w] = IF told THEN D ELSE {}]
      /\ conflict' = [conflict EXCEPT ![w] = {}]
      /\ effected' = [effected EXCEPT ![w] = D]
      /\ batch' = [batch EXCEPT ![w] = Nil]
  BY DEF UpdateTaskQueueUserData
<1>3. /\ \A q \in D : udata'[q].version = udata[q].version + 1 /\ udata'[q].builds = builds[q]
      /\ \A q \in UserDataQueue \ D : udata'[q] = udata[q]
  BY <1>1, <1>2
<1>4. \A q \in UserDataQueue : udata[q].version \in Nat /\ udata[q].builds \subseteq BuildID
  BY SMTT(30) DEF UserDataInv, UserDataTypeOK, QueueData
<1>5. udata' \in [UserDataQueue -> QueueData]
  BY <1>1, <1>2, <1>4 DEF UserDataInv, UserDataTypeOK, QueueData
<1>6. UserDataTypeOK'
  BY <1>2, <1>5 DEF UserDataInv, UserDataTypeOK, IndexAfter
<1>7. IndexInStep'
  <2>1. ASSUME NEW b \in BuildID PROVE buildidx'[b] = {q \in UserDataQueue : b \in udata'[q].builds}
    <3>1. buildidx'[b] = (buildidx[b] \cup {q \in D : b \in builds[q] \ batch[w][q].builds})
                           \ {q \in D : b \in batch[w][q].builds \ builds[q]}
      BY <1>2 DEF IndexAfter
    <3>2. buildidx[b] = {q \in UserDataQueue : b \in udata[q].builds}
      BY DEF UserDataInv, IndexInStep
    <3> HIDE DEF D
    <3>. QED BY <1>1, <1>3, <3>1, <3>2
  <2>. QED BY <2>1 DEF IndexInStep
<1>8. FlagsAreTrue'
  <2>1. ASSUME NEW v \in DataWriter
        PROVE  /\ applied'[v] \in {{}, effected'[v]} /\ conflict'[v] \cap effected'[v] = {}
               /\ conflict'[v] \subseteq UserDataQueue /\ \A q \in conflict'[v] : udata[q].version > 0
    BY <1>2 DEF UserDataInv, UserDataTypeOK, FlagsAreTrue
  <2>2. \A q \in UserDataQueue : udata[q].version > 0 => udata'[q].version > 0
    BY <1>3, <1>4
  <2>. QED BY <2>1, <2>2 DEF FlagsAreTrue
<1>9. ASSUME NEW v \in DataWriter, batch'[v] # Nil PROVE ReadsVouched(v)'
  <2>1. v # w /\ batch'[v] = batch[v]
    BY <1>2, <1>9 DEF UserDataInv, UserDataTypeOK
  <2>2. ReadsVouched(v)
    BY <1>9, <2>1 DEF UserDataInv
  <2>3. ASSUME NEW q \in DOMAIN batch[v]
        PROVE  /\ batch[v][q] \in QueueData /\ batch[v][q].version <= udata'[q].version
               /\ batch[v][q].version = udata'[q].version => batch[v][q] = udata'[q]
    <3>1. q \in UserDataQueue /\ batch[v][q] \in QueueData /\ batch[v][q].version \in Nat
          /\ batch[v][q].version <= udata[q].version
          /\ (batch[v][q].version = udata[q].version => batch[v][q] = udata[q])
      BY <2>2, SMTT(30) DEF ReadsVouched, QueueData
    <3> HIDE DEF D
    <3>. QED BY <1>3, <1>4, <3>1
  <2>. QED BY <2>1, <2>2, <2>3 DEF ReadsVouched
<1>. QED BY <1>6, <1>7, <1>8, <1>9 DEF UserDataInv

\* One case per action of UserDataNext.
LEMMA UserDataStep == UserDataInv /\ [UserDataNext]_udvars => UserDataInv'
<1> SUFFICES ASSUME UserDataInv, [UserDataNext]_udvars PROVE UserDataInv'
  OBVIOUS
<1>0. UserDataTypeOK /\ FlagsAreTrue
  BY DEF UserDataInv
<1>1. ASSUME NEW w \in DataWriter, StartBatch(w) PROVE UserDataInv'
  <2> DEFINE b == [q \in {} |-> Nil]
  <2>1. batch' = [batch EXCEPT ![w] = b] /\ UNCHANGED <<udata, buildidx, applied, conflict, effected>>
    BY <1>1 DEF StartBatch
  <2>2. batch'[w] = b /\ DOMAIN b = {}
    BY <1>0, <2>1 DEF UserDataTypeOK
  <2>3. ReadsVouched(w)'
    BY <2>2 DEF ReadsVouched
  <2> HIDE DEF b
  <2>. QED BY <1>0, <2>1, <2>3, WriterStep, Zenon DEF UserDataTypeOK, FlagsAreTrue
<1>2. ASSUME NEW w \in DataWriter, NEW q \in UserDataQueue, GetTaskQueueUserData(w, q) PROVE UserDataInv'
  <2> DEFINE b == [r \in DOMAIN batch[w] \cup {q} |-> IF r = q THEN udata[q] ELSE batch[w][r]]
  <2>1. batch' = [batch EXCEPT ![w] = b] /\ UNCHANGED <<udata, buildidx, applied, conflict, effected>>
    BY <1>0, <1>2 DEF GetTaskQueueUserData, UserDataTypeOK
  <2>2. batch'[w] = b
    BY <1>0, <2>1 DEF UserDataTypeOK
  <2>3. ReadsVouched(w) /\ udata[q] \in QueueData
    BY <1>0, <1>2 DEF GetTaskQueueUserData, UserDataInv, UserDataTypeOK
  <2>4. ReadsVouched(w)'
    BY <2>1, <2>2, <2>3 DEF ReadsVouched, QueueData
  <2> HIDE DEF b
  <2>. QED BY <1>0, <2>1, <2>4, WriterStep, Zenon DEF UserDataTypeOK, FlagsAreTrue
<1>3. ASSUME NEW w \in DataWriter, NEW q \in UserDataQueue, markConflict(w, q) PROVE UserDataInv'
  <2>1. /\ batch[w] # Nil /\ q \in DOMAIN batch[w] /\ ~Matches(w, q)
        /\ applied' = [applied EXCEPT ![w] = {}] /\ conflict' = [conflict EXCEPT ![w] = {q}]
        /\ effected' = [effected EXCEPT ![w] = {}] /\ batch' = [batch EXCEPT ![w] = Nil]
        /\ UNCHANGED <<udata, buildidx>>
    BY <1>3 DEF markConflict
  <2>2. batch[w][q].version \in Nat /\ udata[q].version \in Nat /\ batch[w][q].version <= udata[q].version
    BY <1>0, <2>1 DEF UserDataInv, UserDataTypeOK, ReadsVouched, QueueData
  <2>3. udata[q].version > 0
    BY <2>1, <2>2 DEF Matches
  <2>. QED BY <1>0, <2>1, <2>3, WriterStep, Zenon DEF UserDataTypeOK
<1>4. ASSUME NEW w \in DataWriter, UpdateUserDataFails(w) PROVE UserDataInv'
  BY <1>0, <1>4, WriterStep, Zenon DEF UpdateUserDataFails, UserDataTypeOK
<1>5. CASE UNCHANGED udvars
  BY <1>5 DEF udvars, UserDataInv, UserDataTypeOK, IndexInStep, FlagsAreTrue, ReadsVouched
<1>. QED BY <1>1, <1>2, <1>3, <1>4, <1>5, UpdateUserDataStep DEF UserDataNext

\* UpdateTaskQueueUserData keeps the build-id index in step with the user data,
\* however many writers read and update batches of queues at the same time.
THEOREM BuildIndexTheorem == UserDataSpec => []IndexInStep
<1>1. UserDataInv => IndexInStep
  BY DEF UserDataInv
<1>. QED BY <1>1, UserDataInitInv, UserDataStep, PTL DEF UserDataSpec

\* The Applied and Conflicting flags say what the call did.
THEOREM FlagsTheorem == UserDataSpec => []FlagsAreTrue
<1>1. UserDataInv => FlagsAreTrue
  BY DEF UserDataInv
<1>. QED BY <1>1, UserDataInitInv, UserDataStep, PTL DEF UserDataSpec

-----------------------------------------------------------------------------
(***************************************************************************)
(* Namespace mutations, for any number of clients, names and ids.          *)
(*                                                                         *)
(* Neither theorem is inductive alone: an update writes an id that it read *)
(* earlier, so it keeps the records together only because its notification *)
(* version vouches for that read (Progress).                               *)
(***************************************************************************)
Op == [kind : OpKind, id : NamespaceID \cup {Nil}, name : NamespaceName \cup {Nil},
       new : NamespaceName \cup {Nil}, version : Nat, at : Nat]

NameRec == [id : NamespaceID, version : Nat]

NamespaceTypeOK ==
    /\ nsName \in [NamespaceName -> NameRec \cup {Nil}]
    /\ nsID \in [NamespaceID -> NamespaceName \cup {Nil}]
    /\ nsVersion \in Nat
    /\ nsOp \in [Admin -> Op \cup {Nil}]
    /\ overtaken \in BOOLEAN

\* How far a client has got: what it has read by then is there, and as long as
\* nobody has bumped the version an update or a rename has the right id.
Progress(c) ==
    LET op == nsOp[c] IN
    /\ op.kind \in OpKind /\ op.at \in 1..4 /\ op.version <= nsVersion
    /\ op.kind = "create" => op.at <= 2 /\ op.id # Nil /\ op.name # Nil
    /\ op.kind \in {"update", "rename"} =>
         /\ op.id # Nil
         /\ op.kind = "rename" => op.new # Nil
         /\ op.at >= 3 => op.name # Nil
         /\ op.at = 4 /\ op.version = nsVersion =>
              nsName[op.name] # Nil /\ nsName[op.name].id = op.id
    /\ op.kind = "delete" => op.at <= 3 /\ op.id # Nil /\ (op.at >= 2 => op.name # Nil)
    /\ op.kind = "deleteByName" => op.at <= 3 /\ op.name # Nil /\ (op.at >= 2 => op.id # Nil)

IInv ==
    /\ NamespaceTypeOK
    /\ VersionsAreUnique
    /\ AgreeUnlessOvertaken
    /\ \A c \in Admin : nsOp[c] # Nil => Progress(c)

\* What each kind of operation does at each point.
LEMMA ReadsByKind ==
    /\ \A i \in 1..2 : OpReads("create")[i] = "version" => i = 1
    /\ \A i \in 1..2 : OpReads("create")[i] \notin {"id", "name"}
    /\ \A i \in 1..2 : OpReads("create")[i] = "commit" => i = 2
    /\ \A kind \in {"update", "rename"} : \A i \in 1..4 :
         /\ OpReads(kind)[i] = "version" => i = 1
         /\ OpReads(kind)[i] = "id" => i = 2
         /\ OpReads(kind)[i] = "name" => i = 3
         /\ OpReads(kind)[i] = "commit" => i = 4
    /\ \A i \in 1..3 :
         /\ OpReads("delete")[i] = "id" => i = 1
         /\ OpReads("delete")[i] = "version" => i = 2
         /\ OpReads("delete")[i] = "commit" => i = 3
         /\ OpReads("delete")[i] # "name"
         /\ OpReads("deleteByName")[i] = "name" => i = 1
         /\ OpReads("deleteByName")[i] = "version" => i = 2
         /\ OpReads("deleteByName")[i] = "commit" => i = 3
         /\ OpReads("deleteByName")[i] # "id"
BY DEF OpReads

\* Nil is none of the records that stand for something.
LEMMA NilIsNoRecord == Nil \notin Op /\ Nil \notin NameRec
BY NamespaceAssumption DEF Op, NameRec

\* A commit bumps the version, so it leaves every other client where it was, and
\* out of date.
LEMMA OthersKeepProgress ==
    ASSUME IInv, NEW c \in Admin, nsOp' = [nsOp EXCEPT ![c] = Nil], nsVersion' = nsVersion + 1,
           NEW d \in Admin, nsOp'[d] # Nil
    PROVE  Progress(d)'
<1>1. d # c /\ nsOp'[d] = nsOp[d] /\ nsOp[d] \in Op /\ nsVersion \in Nat
  BY DEF IInv, NamespaceTypeOK
<1>2. Progress(d)
  BY <1>1 DEF IInv
<1>3. nsOp[d].version \in Nat /\ nsOp[d].version < nsVersion'
  BY <1>1, <1>2 DEF Progress, Op
<1>. QED BY <1>1, <1>2, <1>3 DEF Progress

LEMMA InitIInv == NamespaceInit => IInv
<1>1. ASSUME NamespaceInit PROVE NamespaceTypeOK
  BY <1>1, Zenon DEF NamespaceInit, NamespaceTypeOK
<1>2. ASSUME NamespaceInit PROVE VersionsAreUnique /\ NamesAndIDsAgree /\ \A c \in Admin : nsOp[c] = Nil
  BY <1>2 DEF NamespaceInit, VersionsAreUnique, NamesAndIDsAgree
<1>. QED BY <1>1, <1>2 DEF IInv, AgreeUnlessOvertaken

\* A step that changes the operation of one client only.
LEMMA ReadStep ==
    ASSUME IInv, NEW c \in Admin, NEW op \in Op \cup {Nil}, nsOp' = [nsOp EXCEPT ![c] = op],
           UNCHANGED <<nsName, nsID, nsVersion, overtaken>>, op # Nil => Progress(c)'
    PROVE  IInv'
<1>1. NamespaceTypeOK'
  BY DEF IInv, NamespaceTypeOK
<1>2. VersionsAreUnique' /\ AgreeUnlessOvertaken'
  BY DEF IInv, VersionsAreUnique, AgreeUnlessOvertaken, NamesAndIDsAgree
<1>3. ASSUME NEW d \in Admin, nsOp'[d] # Nil PROVE Progress(d)'
  <2>1. CASE d = c
    BY <1>3, <2>1 DEF IInv, NamespaceTypeOK
  <2>2. CASE d # c
    BY <1>3, <2>2 DEF IInv, NamespaceTypeOK, Progress
  <2>. QED BY <2>1, <2>2
<1>. QED BY <1>1, <1>2, <1>3 DEF IInv

\* The steps that read.
LEMMA BeginStep ==
    ASSUME IInv, NEW c \in Admin, NEW kind \in OpKind, NEW id \in NamespaceID \cup {Nil},
           NEW name \in NamespaceName \cup {Nil}, NEW new \in NamespaceName \cup {Nil},
           kind \in {"create", "update", "rename", "delete"} => id # Nil,
           kind \in {"create", "deleteByName"} => name # Nil,
           kind = "rename" => new # Nil,
           BeginOp(c, kind, id, name, new)
    PROVE  IInv'
<1> DEFINE op == [kind |-> kind, id |-> id, name |-> name, new |-> new, version |-> 0, at |-> 1]
<1>1. op \in Op
  BY DEF Op, OpKind
<1>2. nsOp' = [nsOp EXCEPT ![c] = op] /\ UNCHANGED <<nsName, nsID, nsVersion, overtaken>>
  BY DEF BeginOp
<1>3. nsOp'[c] = op /\ nsVersion' \in Nat
  BY <1>2 DEF IInv, NamespaceTypeOK
<1>4. Progress(c)'
  BY <1>3 DEF Progress, OpKind
<1>. QED BY <1>1, <1>2, <1>4, ReadStep, Zenon

LEMMA GetMetadataStep ==
    ASSUME IInv, NEW c \in Admin, GetMetadata(c)
    PROVE  IInv'
<1>0. nsOp[c] \in Op /\ nsOp[c] # Nil /\ Progress(c) /\ nsVersion \in Nat
  BY DEF GetMetadata, AtRead, IInv, NamespaceTypeOK
<1> DEFINE op == [nsOp[c] EXCEPT !.version = nsVersion, !.at = @ + 1]
<1>1. op \in Op
  <2>1. ASSUME NEW o \in Op, NEW v \in Nat, NEW n \in Nat PROVE [o EXCEPT !.version = v, !.at = n] \in Op
    BY Zenon DEF Op
  <2>2. nsOp[c].at + 1 \in Nat
    BY <1>0 DEF Op
  <2>. QED BY <1>0, <2>1, <2>2, Zenon
<1>2. nsOp' = [nsOp EXCEPT ![c] = op] /\ UNCHANGED <<nsName, nsID, nsVersion, overtaken>>
  BY <1>0, Zenon DEF GetMetadata
<1>3. nsOp'[c] = op
  BY <1>2 DEF IInv, NamespaceTypeOK
<1>4. /\ nsOp[c].kind \in {"create", "update", "rename"} => nsOp[c].at = 1
      /\ nsOp[c].kind \in {"delete", "deleteByName"} => nsOp[c].at = 2
  <2>1. nsOp[c].kind \in OpKind /\ nsOp[c].at \in 1..4 /\ OpReads(nsOp[c].kind)[nsOp[c].at] = "version"
    BY <1>0 DEF Progress, GetMetadata, AtRead
  <2>. QED BY <1>0, <2>1, ReadsByKind DEF Progress, OpKind
<1>5. Progress(c)'
  BY <1>0, <1>2, <1>3, <1>4 DEF Progress, Op, OpKind
<1>. QED BY <1>1, <1>2, <1>5, ReadStep, Zenon

\* An operation that ends early.
LEMMA EndStep ==
    ASSUME IInv, NEW c \in Admin, EndOp(c), UNCHANGED <<nsName, nsID, nsVersion, overtaken>>
    PROVE  IInv'
<1>1. nsOp' = [nsOp EXCEPT ![c] = Nil]
  BY DEF EndOp
<1>. QED BY <1>1, ReadStep, Zenon

LEMMA ReadNamespaceIDStep ==
    ASSUME IInv, NEW c \in Admin, ReadNamespaceID(c)
    PROVE  IInv'
<1>0. nsOp[c] \in Op /\ nsOp[c] # Nil /\ Progress(c)
  BY DEF ReadNamespaceID, AtRead, IInv, NamespaceTypeOK
<1>1. CASE nsID[nsOp[c].id] = Nil
  BY <1>1, EndStep DEF ReadNamespaceID
<1>2. CASE nsID[nsOp[c].id] # Nil
  <2> DEFINE op == [nsOp[c] EXCEPT !.name = nsID[nsOp[c].id], !.at = @ + 1]
  <2>1. /\ nsOp[c].kind \in {"update", "rename"} => nsOp[c].at = 2
        /\ nsOp[c].kind \notin {"update", "rename"} => nsOp[c].kind = "delete" /\ nsOp[c].at = 1
    <3>1. nsOp[c].kind \in OpKind /\ nsOp[c].at \in 1..4 /\ OpReads(nsOp[c].kind)[nsOp[c].at] = "id"
      BY <1>0 DEF Progress, ReadNamespaceID, AtRead
    <3>. QED BY <1>0, <3>1, ReadsByKind DEF Progress, OpKind
  <2>2. nsOp[c].id \in NamespaceID /\ nsID[nsOp[c].id] \in NamespaceName
    BY <1>0, <1>2, <2>1, SMTT(30) DEF Progress, Op, IInv, NamespaceTypeOK
  <2>3. op \in Op
    <3>1. ASSUME NEW o \in Op, NEW v \in NamespaceName, NEW n \in Nat PROVE [o EXCEPT !.name = v, !.at = n] \in Op
      BY Zenon DEF Op
    <3>2. nsOp[c].at + 1 \in Nat
      BY <1>0 DEF Op
    <3>. QED BY <1>0, <2>2, <3>1, <3>2, Zenon
  <2>4. nsOp' = [nsOp EXCEPT ![c] = op] /\ UNCHANGED <<nsName, nsID, nsVersion, overtaken>>
    BY <1>0, <1>2, Zenon DEF ReadNamespaceID
  <2>5. nsOp'[c] = op
    BY <2>4 DEF IInv, NamespaceTypeOK
  <2>6. Progress(c)'
    BY <1>0, <2>1, <2>2, <2>4, <2>5, NamespaceAssumption DEF Progress, Op, OpKind
  <2>. QED BY <2>3, <2>4, <2>6, ReadStep, Zenon
<1>. QED BY <1>1, <1>2

LEMMA ReadNamespaceNameStep ==
    ASSUME IInv, NEW c \in Admin, ReadNamespaceName(c)
    PROVE  IInv'
<1>0. nsOp[c] \in Op /\ nsOp[c] # Nil /\ Progress(c)
  BY DEF ReadNamespaceName, AtRead, IInv, NamespaceTypeOK
<1>1. CASE nsName[nsOp[c].name] = Nil
  BY <1>1, EndStep DEF ReadNamespaceName
<1>2. CASE nsName[nsOp[c].name] # Nil
  <2> DEFINE op == [nsOp[c] EXCEPT !.id = nsName[nsOp[c].name].id, !.at = @ + 1]
  <2>1. /\ nsOp[c].kind \in {"update", "rename"} => nsOp[c].at = 3
        /\ nsOp[c].kind \notin {"update", "rename"} => nsOp[c].kind = "deleteByName" /\ nsOp[c].at = 1
    <3>1. nsOp[c].kind \in OpKind /\ nsOp[c].at \in 1..4 /\ OpReads(nsOp[c].kind)[nsOp[c].at] = "name"
      BY <1>0 DEF Progress, ReadNamespaceName, AtRead
    <3>. QED BY <1>0, <3>1, ReadsByKind DEF Progress, OpKind
  <2>2. nsOp[c].name \in NamespaceName /\ nsName[nsOp[c].name].id \in NamespaceID
    BY <1>0, <1>2, <2>1 DEF Progress, Op, IInv, NamespaceTypeOK, NameRec
  <2>3. op \in Op
    <3>1. ASSUME NEW o \in Op, NEW v \in NamespaceID, NEW n \in Nat PROVE [o EXCEPT !.id = v, !.at = n] \in Op
      BY Zenon DEF Op
    <3>2. nsOp[c].at + 1 \in Nat
      BY <1>0 DEF Op
    <3>. QED BY <1>0, <2>2, <3>1, <3>2, Zenon
  <2>4. nsOp' = [nsOp EXCEPT ![c] = op] /\ UNCHANGED <<nsName, nsID, nsVersion, overtaken>>
    BY <1>0, <1>2, Zenon DEF ReadNamespaceName
  <2>5. nsOp'[c] = op
    BY <2>4 DEF IInv, NamespaceTypeOK
  <2>6. Progress(c)'
    BY <1>0, <1>2, <2>1, <2>2, <2>4, <2>5, NamespaceAssumption DEF Progress, Op, OpKind
  <2>. QED BY <2>3, <2>4, <2>6, ReadStep, Zenon
<1>. QED BY <1>1, <1>2

-----------------------------------------------------------------------------
\* A commit of a client whose version is the current one.
Committing(c) ==
    /\ nsOp[c] # Nil
    /\ nsOp[c].version = nsVersion
    /\ nsVersion' = nsVersion + 1
    /\ nsOp' = [nsOp EXCEPT ![c] = Nil]

\* The parts of the invariant that a commit keeps whatever it writes, if the name
\* records it leaves are old ones or carry its version, all but one.
LEMMA CommitStep ==
    ASSUME IInv, NEW c \in Admin, Committing(c), NEW n \in NamespaceName,
           nsName' \in [NamespaceName -> NameRec \cup {Nil}],
           nsID' \in [NamespaceID -> NamespaceName \cup {Nil}],
           overtaken' \in BOOLEAN,
           \A m \in NamespaceName \ {n} : nsName'[m] \in {nsName[m], Nil},
           nsName'[n] # Nil => nsName'[n].version = nsVersion,
           AgreeUnlessOvertaken'
    PROVE  IInv'
<1>1. NamespaceTypeOK'
  BY DEF IInv, NamespaceTypeOK, Committing
<1>2. VersionsAreUnique'
  <2>1. nsVersion \in Nat /\ nsVersion' = nsVersion + 1
    BY DEF IInv, NamespaceTypeOK, Committing
  <2>2. ASSUME NEW m \in NamespaceName \ {n}, nsName'[m] # Nil
        PROVE  nsName'[m] = nsName[m] /\ nsName[m].version \in Nat /\ nsName[m].version < nsVersion
    BY <2>2 DEF IInv, NamespaceTypeOK, VersionsAreUnique, NameRec
  <2>3. ASSUME NEW m \in NamespaceName, nsName'[m] # Nil PROVE nsName'[m].version < nsVersion'
    BY <2>1, <2>2, <2>3
  <2>4. ASSUME NEW m \in NamespaceName, NEW k \in NamespaceName, m # k, nsName'[m] # Nil, nsName'[k] # Nil
        PROVE  nsName'[m].version # nsName'[k].version
    <3>1. CASE m # n /\ k # n
      BY <2>2, <2>4, <3>1 DEF IInv, VersionsAreUnique
    <3>2. CASE m = n \/ k = n
      BY <2>1, <2>2, <2>4, <3>2
    <3>. QED BY <3>1, <3>2
  <2>. QED BY <2>3, <2>4 DEF VersionsAreUnique
<1>3. \A d \in Admin : nsOp'[d] # Nil => Progress(d)'
  BY OthersKeepProgress, Zenon DEF Committing
<1>. QED BY <1>1, <1>2, <1>3 DEF IInv

\* What a client at its transaction has read.
LEMMA AtCommit ==
    ASSUME IInv, NEW c \in Admin, AtRead(c, "commit"),
           bumpNotificationVersion(nsOp[c].version), EndOp(c)
    PROVE  /\ Committing(c)
           /\ nsOp[c].id \in NamespaceID /\ nsOp[c].name \in NamespaceName
           /\ NameRecord(c) \in NameRec /\ NameRecord(c).version = nsVersion
           /\ nsOp[c].kind = "rename" => nsOp[c].new \in NamespaceName
           /\ nsOp[c].kind \in {"update", "rename"} =>
                nsName[nsOp[c].name] # Nil /\ nsName[nsOp[c].name].id = nsOp[c].id
<1>1. nsOp[c] # Nil /\ nsOp[c] \in Op /\ Progress(c)
  BY DEF AtRead, IInv, NamespaceTypeOK
<1>2. Committing(c)
  BY <1>1 DEF Committing, bumpNotificationVersion, EndOp
<1>3. /\ nsOp[c].kind \in {"update", "rename"} => nsOp[c].at = 4
      /\ nsOp[c].kind \in {"delete", "deleteByName"} => nsOp[c].at = 3
  <2>1. nsOp[c].kind \in OpKind /\ nsOp[c].at \in 1..4 /\ OpReads(nsOp[c].kind)[nsOp[c].at] = "commit"
    BY <1>1 DEF Progress, AtRead
  <2>. QED BY <1>1, <2>1, ReadsByKind DEF Progress
<1>4. /\ nsOp[c].id # Nil /\ nsOp[c].name # Nil
      /\ nsOp[c].kind = "rename" => nsOp[c].new # Nil
  BY <1>1, <1>3 DEF Progress, OpKind
<1>5. /\ nsOp[c].id \in NamespaceID /\ nsOp[c].name \in NamespaceName /\ nsOp[c].version \in Nat
      /\ nsOp[c].kind = "rename" => nsOp[c].new \in NamespaceName
  BY <1>1, <1>4 DEF Op
<1>6. NameRecord(c) \in NameRec /\ NameRecord(c).version = nsVersion
  BY <1>2, <1>5 DEF NameRecord, NameRec, Committing
<1>7. nsOp[c].kind \in {"update", "rename"} =>
        nsName[nsOp[c].name] # Nil /\ nsName[nsOp[c].name].id = nsOp[c].id
  BY <1>1, <1>2, <1>3 DEF Progress, Committing
<1>. QED BY <1>2, <1>5, <1>6, <1>7

\* The four transactions.
LEMMA CreateStep ==
    ASSUME IInv, NEW c \in Admin, CreateNamespace(c)
    PROVE  IInv'
<1> DEFINE id == nsOp[c].id
           name == nsOp[c].name
<1>1. /\ nsName[name] = Nil /\ nsID[id] = Nil
      /\ nsName' = [nsName EXCEPT ![name] = NameRecord(c)]
      /\ nsID' = [nsID EXCEPT ![id] = name]
      /\ overtaken' = overtaken
      /\ AtRead(c, "commit") /\ bumpNotificationVersion(nsOp[c].version) /\ EndOp(c)
  BY DEF CreateNamespace
<1>2. /\ Committing(c) /\ id \in NamespaceID /\ name \in NamespaceName
      /\ NameRecord(c) \in NameRec /\ NameRecord(c).version = nsVersion
  BY <1>1, AtCommit
<1>3. /\ nsName \in [NamespaceName -> NameRec \cup {Nil}]
      /\ nsID \in [NamespaceID -> NamespaceName \cup {Nil}]
      /\ overtaken \in BOOLEAN
  BY DEF IInv, NamespaceTypeOK
<1>4. /\ nsName' \in [NamespaceName -> NameRec \cup {Nil}]
      /\ nsID' \in [NamespaceID -> NamespaceName \cup {Nil}]
  BY <1>1, <1>2, <1>3
<1>5. ASSUME NamesAndIDsAgree PROVE NamesAndIDsAgree'
  <2>1. name # Nil /\ NameRecord(c) # Nil /\ NameRecord(c).id = id
    BY <1>2, NilIsNoRecord, NamespaceAssumption DEF NameRecord
  <2>2. ASSUME NEW n \in NamespaceName, nsName'[n] # Nil PROVE nsID'[nsName'[n].id] = n
    <3>1. CASE n = name
      BY <1>1, <1>2, <1>3, <2>1, <3>1
    <3>2. CASE n # name
      <4>1. nsName'[n] = nsName[n] /\ nsName[n] \in NameRec
        BY <1>1, <1>3, <2>2, <3>2
      <4>2. nsName[n].id \in NamespaceID /\ nsID[nsName[n].id] = n /\ n # Nil
        BY <1>5, <2>2, <4>1, NamespaceAssumption DEF NamesAndIDsAgree, NameRec
      <4>. QED BY <1>1, <1>3, <4>1, <4>2
    <3>. QED BY <3>1, <3>2
  <2>3. ASSUME NEW i \in NamespaceID, nsID'[i] # Nil
        PROVE  nsName'[nsID'[i]] # Nil /\ nsName'[nsID'[i]].id = i
    BY <1>1, <1>2, <1>3, <1>5, <2>1, <2>3 DEF NamesAndIDsAgree
  <2>. QED BY <2>2, <2>3 DEF NamesAndIDsAgree
<1>6. AgreeUnlessOvertaken'
  BY <1>1, <1>5 DEF IInv, AgreeUnlessOvertaken
<1>7. /\ \A m \in NamespaceName \ {name} : nsName'[m] \in {nsName[m], Nil}
      /\ nsName'[name].version = nsVersion
      /\ overtaken' \in BOOLEAN
  BY <1>1, <1>2, <1>3
<1>. QED BY <1>2, <1>4, <1>6, <1>7, CommitStep

LEMMA UpdateStep ==
    ASSUME IInv, NEW c \in Admin, UpdateNamespace(c)
    PROVE  IInv'
<1> DEFINE id == nsOp[c].id
           name == nsOp[c].name
<1>1. /\ nsName' = [nsName EXCEPT ![name] = NameRecord(c)]
      /\ nsID' = nsID /\ overtaken' = overtaken /\ nsOp[c].kind = "update"
      /\ AtRead(c, "commit") /\ bumpNotificationVersion(nsOp[c].version) /\ EndOp(c)
  BY DEF UpdateNamespace
<1>2. /\ Committing(c) /\ id \in NamespaceID /\ name \in NamespaceName
      /\ NameRecord(c) \in NameRec /\ NameRecord(c).version = nsVersion
      /\ nsName[name] # Nil /\ nsName[name].id = id
  BY <1>1, AtCommit
<1>3. /\ nsName \in [NamespaceName -> NameRec \cup {Nil}]
      /\ nsID \in [NamespaceID -> NamespaceName \cup {Nil}]
      /\ overtaken \in BOOLEAN
  BY DEF IInv, NamespaceTypeOK
<1>4. nsName' \in [NamespaceName -> NameRec \cup {Nil}]
  BY <1>1, <1>2, <1>3
<1>5. ASSUME NamesAndIDsAgree PROVE NamesAndIDsAgree'
  <2>1. NameRecord(c) # Nil /\ NameRecord(c).id = id
    BY <1>2, NilIsNoRecord DEF NameRecord
  <2>2. \A n \in NamespaceName :
          (nsName'[n] # Nil <=> nsName[n] # Nil) /\ (nsName[n] # Nil => nsName'[n].id = nsName[n].id)
    BY <1>1, <1>2, <1>3, <2>1
  <2>. QED BY <1>1, <1>3, <1>5, <2>2 DEF NamesAndIDsAgree
<1>6. AgreeUnlessOvertaken'
  BY <1>1, <1>5 DEF IInv, AgreeUnlessOvertaken
<1>7. /\ \A m \in NamespaceName \ {name} : nsName'[m] \in {nsName[m], Nil}
      /\ nsName'[name].version = nsVersion
      /\ overtaken' \in BOOLEAN
  BY <1>1, <1>2, <1>3
<1>. QED BY <1>1, <1>2, <1>3, <1>4, <1>6, <1>7, CommitStep

\* The new name is free, so it is not the old one.
LEMMA RenameStep ==
    ASSUME IInv, NEW c \in Admin, RenameNamespace(c)
    PROVE  IInv'
<1> DEFINE id == nsOp[c].id
           name == nsOp[c].name
           new == nsOp[c].new
<1>1. /\ nsName[new] = Nil
      /\ nsName' = [nsName EXCEPT ![new] = NameRecord(c), ![name] = Nil]
      /\ nsID' = [nsID EXCEPT ![id] = new]
      /\ overtaken' = overtaken /\ nsOp[c].kind = "rename"
      /\ AtRead(c, "commit") /\ bumpNotificationVersion(nsOp[c].version) /\ EndOp(c)
  BY DEF RenameNamespace
<1>2. /\ Committing(c) /\ id \in NamespaceID /\ name \in NamespaceName /\ new \in NamespaceName
      /\ NameRecord(c) \in NameRec /\ NameRecord(c).version = nsVersion
      /\ nsName[name] # Nil /\ nsName[name].id = id
  BY <1>1, AtCommit
<1>3. /\ nsName \in [NamespaceName -> NameRec \cup {Nil}]
      /\ nsID \in [NamespaceID -> NamespaceName \cup {Nil}]
      /\ overtaken \in BOOLEAN /\ name # new
  BY <1>1, <1>2 DEF IInv, NamespaceTypeOK
<1>4. /\ nsName' \in [NamespaceName -> NameRec \cup {Nil}]
      /\ nsID' \in [NamespaceID -> NamespaceName \cup {Nil}]
  BY <1>1, <1>2, <1>3
<1>5. ASSUME NamesAndIDsAgree PROVE NamesAndIDsAgree'
  <2>1. new # Nil /\ NameRecord(c) # Nil /\ NameRecord(c).id = id /\ nsID[id] = name
    BY <1>2, <1>5, NilIsNoRecord, NamespaceAssumption DEF NameRecord, NamesAndIDsAgree
  <2>2. /\ nsName'[new] = NameRecord(c) /\ nsName'[name] = Nil
        /\ \A n \in NamespaceName \ {name, new} : nsName'[n] = nsName[n]
        /\ nsID'[id] = new /\ \A i \in NamespaceID \ {id} : nsID'[i] = nsID[i]
    BY <1>1, <1>2, <1>3
  <2>3. ASSUME NEW n \in NamespaceName, nsName'[n] # Nil PROVE nsID'[nsName'[n].id] = n
    <3>1. CASE n = new
      BY <2>1, <2>2, <3>1
    <3>2. CASE n # new
      <4>1. n # name /\ nsName'[n] = nsName[n] /\ nsName[n] \in NameRec
        BY <1>3, <2>2, <2>3, <3>2
      <4>2. nsName[n].id \in NamespaceID /\ nsID[nsName[n].id] = n
        BY <1>5, <2>3, <4>1 DEF NamesAndIDsAgree, NameRec
      <4>. QED BY <2>1, <2>2, <4>1, <4>2
    <3>. QED BY <3>1, <3>2
  <2>4. ASSUME NEW i \in NamespaceID, nsID'[i] # Nil
        PROVE  nsName'[nsID'[i]] # Nil /\ nsName'[nsID'[i]].id = i
    <3>1. CASE i = id
      BY <2>1, <2>2, <3>1
    <3>2. CASE i # id
      <4>1. nsID'[i] = nsID[i] /\ nsName[nsID[i]] # Nil /\ nsName[nsID[i]].id = i /\ nsID[i] \in NamespaceName
        BY <1>3, <1>5, <2>2, <2>4, <3>2 DEF NamesAndIDsAgree
      <4>2. nsID[i] # name /\ nsID[i] # new
        BY <1>1, <1>2, <3>2, <4>1
      <4>. QED BY <2>2, <4>1, <4>2
    <3>. QED BY <3>1, <3>2
  <2>. QED BY <2>3, <2>4 DEF NamesAndIDsAgree
<1>6. AgreeUnlessOvertaken'
  BY <1>1, <1>5 DEF IInv, AgreeUnlessOvertaken
<1>7. /\ \A m \in NamespaceName \ {new} : nsName'[m] \in {nsName[m], Nil}
      /\ nsName'[new].version = nsVersion
      /\ overtaken' \in BOOLEAN
  BY <1>1, <1>2, <1>3
<1>. QED BY <1>2, <1>4, <1>6, <1>7, CommitStep

\* A delete that was not overtaken removes a pair.
LEMMA DeleteStep ==
    ASSUME IInv, NEW c \in Admin, deleteNamespace(c)
    PROVE  IInv'
<1> DEFINE id == nsOp[c].id
           name == nsOp[c].name
<1>1. /\ nsName' = [nsName EXCEPT ![name] = Nil]
      /\ nsID' = [nsID EXCEPT ![id] = Nil]
      /\ AtRead(c, "commit") /\ bumpNotificationVersion(nsOp[c].version) /\ EndOp(c)
  BY DEF deleteNamespace
<1>2. Committing(c) /\ id \in NamespaceID /\ name \in NamespaceName
  BY <1>1, AtCommit
<1>3. /\ nsName \in [NamespaceName -> NameRec \cup {Nil}]
      /\ nsID \in [NamespaceID -> NamespaceName \cup {Nil}]
  BY DEF IInv, NamespaceTypeOK
<1>4. /\ nsName' \in [NamespaceName -> NameRec \cup {Nil}]
      /\ nsID' \in [NamespaceID -> NamespaceName \cup {Nil}]
      /\ nsName'[name] = Nil /\ \A n \in NamespaceName \ {name} : nsName'[n] = nsName[n]
      /\ nsID'[id] = Nil /\ \A i \in NamespaceID \ {id} : nsID'[i] = nsID[i]
  BY <1>1, <1>2, <1>3
<1>5. overtaken' \in BOOLEAN
  BY DEF deleteNamespace, IInv, NamespaceTypeOK
<1>6. ASSUME ~overtaken' PROVE NamesAndIDsAgree'
  <2>1. /\ NamesAndIDsAgree /\ nsID[id] \in {Nil, name}
        /\ nsName[name] # Nil => nsName[name].id = id
    BY <1>6, Zenon DEF deleteNamespace, IInv, AgreeUnlessOvertaken
  <2>2. ASSUME NEW n \in NamespaceName, nsName'[n] # Nil PROVE nsID'[nsName'[n].id] = n
    <3>1. n # name /\ nsName'[n] = nsName[n] /\ nsName[n] \in NameRec
      BY <1>3, <1>4, <2>2
    <3>2. nsName[n].id \in NamespaceID /\ nsID[nsName[n].id] = n /\ n # Nil
      BY <2>1, <2>2, <3>1, NamespaceAssumption DEF NamesAndIDsAgree, NameRec
    <3>. QED BY <1>4, <2>1, <3>1, <3>2
  <2>3. ASSUME NEW i \in NamespaceID, nsID'[i] # Nil
        PROVE  nsName'[nsID'[i]] # Nil /\ nsName'[nsID'[i]].id = i
    <3>1. i # id /\ nsID'[i] = nsID[i] /\ nsID[i] \in NamespaceName
      BY <1>3, <1>4, <2>3
    <3>2. nsName[nsID[i]] # Nil /\ nsName[nsID[i]].id = i
      BY <2>1, <2>3, <3>1 DEF NamesAndIDsAgree
    <3>. QED BY <1>4, <2>1, <3>1, <3>2
  <2>. QED BY <2>2, <2>3 DEF NamesAndIDsAgree
<1>7. AgreeUnlessOvertaken'
  BY <1>6 DEF AgreeUnlessOvertaken
<1>8. /\ \A m \in NamespaceName \ {name} : nsName'[m] \in {nsName[m], Nil}
      /\ nsName'[name] # Nil => nsName'[name].version = nsVersion
  BY <1>4
<1>. QED BY <1>2, <1>4, <1>5, <1>7, <1>8, CommitStep

-----------------------------------------------------------------------------
LEMMA NextIInv == IInv /\ [NamespaceNext]_nsvars => IInv'
<1> SUFFICES ASSUME IInv, [NamespaceNext]_nsvars PROVE IInv'
  OBVIOUS
<1>1. CASE UNCHANGED nsvars
  <2>1. NamespaceTypeOK' /\ VersionsAreUnique' /\ AgreeUnlessOvertaken'
    BY <1>1 DEF IInv, NamespaceTypeOK, VersionsAreUnique, AgreeUnlessOvertaken, NamesAndIDsAgree, nsvars
  <2>2. ASSUME NEW c \in Admin, nsOp'[c] # Nil PROVE Progress(c)'
    BY <1>1, <2>2 DEF IInv, Progress, nsvars
  <2>. QED BY <2>1, <2>2 DEF IInv
<1>2. CASE NamespaceNext
  <2> PICK c \in Admin :
        \/ \E i \in NamespaceID, n \in NamespaceName : BeginOp(c, "create", i, n, n)
        \/ \E i \in NamespaceID : BeginOp(c, "update", i, Nil, Nil)
        \/ \E i \in NamespaceID, n \in NamespaceName : BeginOp(c, "rename", i, Nil, n)
        \/ \E i \in NamespaceID : BeginOp(c, "delete", i, Nil, Nil)
        \/ \E n \in NamespaceName : BeginOp(c, "deleteByName", Nil, n, Nil)
        \/ GetMetadata(c) \/ ReadNamespaceID(c) \/ ReadNamespaceName(c)
        \/ CreateNamespace(c) \/ UpdateNamespace(c) \/ RenameNamespace(c) \/ deleteNamespace(c)
        \/ NamespaceOpFails(c)
    BY <1>2 DEF NamespaceNext
  <2>0. /\ \A i \in NamespaceID : i # Nil
        /\ \A n \in NamespaceName : n # Nil
    BY NamespaceAssumption
  <2>1. ASSUME NEW i \in NamespaceID, NEW n \in NamespaceName, BeginOp(c, "create", i, n, n) PROVE IInv'
    BY <2>0, <2>1, BeginStep DEF OpKind
  <2>2. ASSUME NEW i \in NamespaceID, BeginOp(c, "update", i, Nil, Nil) PROVE IInv'
    BY <2>0, <2>2, BeginStep DEF OpKind
  <2>3. ASSUME NEW i \in NamespaceID, NEW n \in NamespaceName, BeginOp(c, "rename", i, Nil, n) PROVE IInv'
    BY <2>0, <2>3, BeginStep DEF OpKind
  <2>4. ASSUME NEW i \in NamespaceID, BeginOp(c, "delete", i, Nil, Nil) PROVE IInv'
    BY <2>0, <2>4, BeginStep DEF OpKind
  <2>5. ASSUME NEW n \in NamespaceName, BeginOp(c, "deleteByName", Nil, n, Nil) PROVE IInv'
    BY <2>0, <2>5, BeginStep DEF OpKind
  <2>6. CASE NamespaceOpFails(c)
    BY <2>6, EndStep DEF NamespaceOpFails
  <2>. QED BY <2>1, <2>2, <2>3, <2>4, <2>5, <2>6, GetMetadataStep, ReadNamespaceIDStep,
              ReadNamespaceNameStep, CreateStep, UpdateStep, RenameStep, DeleteStep
<1>. QED BY <1>1, <1>2

\* bumpNotificationVersion serialises the mutations: no two namespaces ever carry
\* the same notification version, for any number of clients (metadata_store.go).
THEOREM NamespaceVersions == NamespaceSpec => []VersionsAreUnique
<1>1. IInv => VersionsAreUnique
  BY DEF IInv
<1>. QED BY <1>1, InitIInv, NextIInv, PTL DEF NamespaceSpec

\* The name record and the id record of a namespace stay together in whatever
\* order creates, updates, renames and deletes read and commit, until a delete
\* uses a name and an id that no longer belong together (metadata_store.go).
THEOREM NamespaceAgreement == NamespaceSpec => []AgreeUnlessOvertaken
<1>1. IInv => AgreeUnlessOvertaken
  BY DEF IInv
<1>. QED BY <1>1, InitIInv, NextIInv, PTL DEF NamespaceSpec
=============================================================================
