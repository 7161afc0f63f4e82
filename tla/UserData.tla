------------------------------- MODULE UserData -------------------------------
(***************************************************************************)
(* Task queue user data, task_queue_store.go: a versioned record per queue *)
(* and, per build id, an index record of the queues that use it.  A writer *)
(* reads the queues of a batch one by one and then updates all of them in  *)
(* one transaction, each on the condition that its version is unchanged.   *)
(***************************************************************************)
EXTENDS Absent, Integers, FiniteSets

CONSTANTS
    UserDataQueue, BuildID,
    DataWriter,         \* clients that update user data
    MaxUserData         \* bound: versions stop here

VARIABLES
    udata,      \* udata[q]: version (0: no record) and build ids of queue q
    buildidx,   \* buildidx[b]: the queues in the index record of build id b
    batch,      \* batch[w]: the queues of w's update with what w read of them, or Nil
    applied,    \* applied[w]: the queues whose Applied flag is set
    conflict,   \* conflict[w]: the queues whose Conflicting flag is set
    effected    \* history: effected[w]: the queues that w's last call did update

udvars == <<udata, buildidx, batch, applied, conflict, effected>>

UserDataInit ==
    /\ udata = [q \in UserDataQueue |-> [version |-> 0, builds |-> {}]]
    /\ buildidx = [b \in BuildID |-> {}]
    /\ batch = [w \in DataWriter |-> Nil]
    /\ applied = [w \in DataWriter |-> {}]
    /\ conflict = [w \in DataWriter |-> {}]
    /\ effected = [w \in DataWriter |-> {}]

\* A writer collects its batch; the flags are still those of its previous call.
StartBatch(w) ==
    /\ batch[w] = Nil
    /\ batch' = [batch EXCEPT ![w] = [q \in {} |-> Nil]]
    /\ UNCHANGED <<udata, buildidx, applied, conflict, effected>>

\* GetTaskQueueUserData; "not found" is version 0.
GetTaskQueueUserData(w, q) ==
    /\ batch[w] # Nil
    /\ q \notin DOMAIN batch[w]
    /\ batch' = [batch EXCEPT ![w] = [r \in DOMAIN @ \cup {q} |->
                                        IF r = q THEN udata[q] ELSE batch[w][r]]]
    /\ UNCHANGED <<udata, buildidx, applied, conflict, effected>>

\* Mutant: the record of a first write is not required to be new.
MatchesOrFirst(w, q) == udata[q].version = batch[w][q].version \/ batch[w][q].version = 0

\* The version check; a first write must create the record.
Matches(w, q) == udata[q].version = batch[w][q].version

\* The index gains the build ids that are new to the queue and loses those that
\* went, as the caller sees it.
IndexAfter(w, builds) ==
    [b \in BuildID |->
       (buildidx[b] \cup {q \in DOMAIN batch[w] : b \in builds[q] \ batch[w][q].builds})
                    \ {q \in DOMAIN batch[w] : b \in batch[w][q].builds \ builds[q]}]

\* Every update of the batch passes its version check, and the transaction
\* commits.  The caller is told, unless the answer to the commit is lost.
UpdateTaskQueueUserData(w, builds, told) ==
    /\ batch[w] # Nil
    /\ DOMAIN batch[w] # {}
    /\ \A q \in DOMAIN batch[w] : Matches(w, q)
    /\ udata' = [q \in UserDataQueue |->
                   IF q \in DOMAIN batch[w]
                   THEN [version |-> batch[w][q].version + 1, builds |-> builds[q]] ELSE udata[q]]
    /\ buildidx' = IndexAfter(w, builds)
    /\ applied' = [applied EXCEPT ![w] = IF told THEN DOMAIN batch[w] ELSE {}]
    /\ conflict' = [conflict EXCEPT ![w] = {}]
    /\ effected' = [effected EXCEPT ![w] = DOMAIN batch[w]]
    /\ batch' = [batch EXCEPT ![w] = Nil]

\* Mutant: the flags of the previous call are left as they were.
markConflictOnly(w, q) ==
    /\ batch[w] # Nil
    /\ q \in DOMAIN batch[w]
    /\ ~Matches(w, q)
    /\ applied' = [applied EXCEPT ![w] = @ \ {q}]
    /\ conflict' = [conflict EXCEPT ![w] = {q}]
    /\ effected' = [effected EXCEPT ![w] = {}]
    /\ batch' = [batch EXCEPT ![w] = Nil]
    /\ UNCHANGED <<udata, buildidx>>

\* The map of updates is walked in any order; the first that fails its check ends
\* the call.  Caller: Conflicting flags are new with every call.
markConflict(w, q) ==
    /\ batch[w] # Nil
    /\ q \in DOMAIN batch[w]
    /\ ~Matches(w, q)
    /\ applied' = [applied EXCEPT ![w] = {}]
    /\ conflict' = [conflict EXCEPT ![w] = {q}]
    /\ effected' = [effected EXCEPT ![w] = {}]
    /\ batch' = [batch EXCEPT ![w] = Nil]
    /\ UNCHANGED <<udata, buildidx>>

\* Another error, before anything took effect.
UpdateUserDataFails(w) ==
    /\ batch[w] # Nil
    /\ DOMAIN batch[w] # {}
    /\ applied' = [applied EXCEPT ![w] = {}]
    /\ conflict' = [conflict EXCEPT ![w] = {}]
    /\ effected' = [effected EXCEPT ![w] = {}]
    /\ batch' = [batch EXCEPT ![w] = Nil]
    /\ UNCHANGED <<udata, buildidx>>

UserDataNext == \E w \in DataWriter :
    \/ StartBatch(w)
    \/ \E q \in UserDataQueue : GetTaskQueueUserData(w, q)
    \/ \E builds \in [UserDataQueue -> SUBSET BuildID], told \in BOOLEAN :
         /\ \A q \in UserDataQueue : udata[q].version < MaxUserData
         /\ UpdateTaskQueueUserData(w, builds, told)
    \/ \E q \in UserDataQueue : markConflict(w, q)
    \/ UpdateUserDataFails(w)

UserDataSpec == UserDataInit /\ [][UserDataNext]_udvars

-----------------------------------------------------------------------------
\* UpdateTaskQueueUserData "keeps the build-id -> task-queue index in step":
\* GetTaskQueuesByBuildId answers with exactly the queues whose user data has the
\* build id, although a writer works out what to add and to remove from what it
\* read before.
IndexInStep == \A b \in BuildID : buildidx[b] = {q \in UserDataQueue : b \in udata[q].builds}

\* The Applied flags, which callers reuse: a queue that looks applied was updated
\* by this very call, together with all others of the batch; one that looks
\* conflicting was not, and is one that somebody has written.
FlagsAreTrue ==
    \A w \in DataWriter :
      /\ applied[w] \in {{}, effected[w]}
      /\ conflict[w] \cap effected[w] = {}
      /\ \A q \in conflict[w] : udata[q].version > 0
=============================================================================
