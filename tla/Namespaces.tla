------------------------------ MODULE Namespaces ------------------------------
(***************************************************************************)
(* Namespace metadata, metadata_store.go: a record per name, a record per  *)
(* id that points to the name, and a notification version that every       *)
(* mutation compares and bumps.  A mutation is some reads outside any      *)
(* transaction and then one transaction; a transaction that fails for      *)
(* whatever reason writes nothing.                                         *)
(***************************************************************************)
EXTENDS Absent, Integers, Sequences, FiniteSets

CONSTANTS
    NamespaceID, NamespaceName,
    Admin,              \* clients that mutate namespaces
    MaxNotification     \* bound: mutations stop at this version

\* The mutations: CreateNamespace, UpdateNamespace, RenameNamespace,
\* DeleteNamespace and DeleteNamespaceByName.
OpKind == {"create", "update", "rename", "delete", "deleteByName"}

ASSUME NamespaceAssumption ==
    /\ Nil \notin NamespaceID \cup NamespaceName
    /\ Nil \notin [id : NamespaceID, version : Nat]
    /\ Nil \notin [kind : OpKind, id : NamespaceID \cup {Nil}, name : NamespaceName \cup {Nil},
                   new : NamespaceName \cup {Nil}, version : Nat, at : Nat]
    /\ MaxNotification \in Nat

VARIABLES
    nsName,     \* nsName[n]: the record of name n -- its id and notification version -- or Nil
    nsID,       \* nsID[i]: the name in the record of id i, or Nil
    nsVersion,  \* the notification version; 0: no record yet
    nsOp,       \* nsOp[c]: the operation of client c, or Nil
    overtaken   \* history: a delete used a name and an id that no longer belonged together

nsvars == <<nsName, nsID, nsVersion, nsOp, overtaken>>

NamespaceInit ==
    /\ nsName = [n \in NamespaceName |-> Nil]
    /\ nsID = [i \in NamespaceID |-> Nil]
    /\ nsVersion = 0
    /\ nsOp = [c \in Admin |-> Nil]
    /\ overtaken = FALSE

\* The reads of an operation and its transaction, in order.  Caller: whoever
\* updates or renames has read the version before the namespace.
OpReads(kind) ==
    CASE kind = "create"         -> <<"version", "commit">>
      [] kind \in {"update", "rename"} -> <<"version", "id", "name", "commit">>
      [] kind = "delete"         -> <<"id", "version", "commit">>
      [] kind = "deleteByName"   -> <<"name", "version", "commit">>

BeginOp(c, kind, id, name, new) ==
    /\ nsOp[c] = Nil
    /\ nsOp' = [nsOp EXCEPT ![c] =
                 [kind |-> kind, id |-> id, name |-> name, new |-> new, version |-> 0, at |-> 1]]
    /\ UNCHANGED <<nsName, nsID, nsVersion, overtaken>>

AtRead(c, read) == nsOp[c] # Nil /\ OpReads(nsOp[c].kind)[nsOp[c].at] = read
EndOp(c)        == nsOp' = [nsOp EXCEPT ![c] = Nil]

GetMetadata(c) ==
    /\ AtRead(c, "version")
    /\ nsOp' = [nsOp EXCEPT ![c].version = nsVersion, ![c].at = @ + 1]
    /\ UNCHANGED <<nsName, nsID, nsVersion, overtaken>>

\* DeleteNamespace, and the first half of GetNamespace by id.
ReadNamespaceID(c) ==
    /\ AtRead(c, "id")
    /\ IF nsID[nsOp[c].id] = Nil THEN EndOp(c)
       ELSE nsOp' = [nsOp EXCEPT ![c].name = nsID[nsOp[c].id], ![c].at = @ + 1]
    /\ UNCHANGED <<nsName, nsID, nsVersion, overtaken>>

\* DeleteNamespaceByName, and the second half of GetNamespace: the caller goes on
\* with the id that the record carries.
ReadNamespaceName(c) ==
    /\ AtRead(c, "name")
    /\ IF nsName[nsOp[c].name] = Nil THEN EndOp(c)
       ELSE nsOp' = [nsOp EXCEPT ![c].id = nsName[nsOp[c].name].id, ![c].at = @ + 1]
    /\ UNCHANGED <<nsName, nsID, nsVersion, overtaken>>

\* Mutant: the version is advanced whatever it is.
bumpAnyVersion(expected) == nsVersion' = expected + 1

\* An insert when the version is 0, otherwise conditional on the version.
bumpNotificationVersion(expected) ==
    /\ nsVersion = expected
    /\ nsVersion' = expected + 1

NameRecord(c) == [id |-> nsOp[c].id, version |-> nsOp[c].version]

-----------------------------------------------------------------------------
CreateNamespace(c) ==
    LET op == nsOp[c] IN
    /\ AtRead(c, "commit") /\ op.kind = "create"
    /\ nsName[op.name] = Nil
    /\ nsID[op.id] = Nil
    /\ nsName' = [nsName EXCEPT ![op.name] = NameRecord(c)]
    /\ nsID' = [nsID EXCEPT ![op.id] = op.name]
    /\ bumpNotificationVersion(op.version)
    /\ EndOp(c)
    /\ UNCHANGED overtaken

\* The write creates the record if there is none.
UpdateNamespace(c) ==
    LET op == nsOp[c] IN
    /\ AtRead(c, "commit") /\ op.kind = "update"
    /\ nsName' = [nsName EXCEPT ![op.name] = NameRecord(c)]
    /\ bumpNotificationVersion(op.version)
    /\ EndOp(c)
    /\ UNCHANGED <<nsID, overtaken>>

RenameNamespace(c) ==
    LET op == nsOp[c] IN
    /\ AtRead(c, "commit") /\ op.kind = "rename"
    /\ nsName[op.new] = Nil
    /\ nsName' = [nsName EXCEPT ![op.new] = NameRecord(c), ![op.name] = Nil]
    /\ nsID' = [nsID EXCEPT ![op.id] = op.new]
    /\ bumpNotificationVersion(op.version)
    /\ EndOp(c)
    /\ UNCHANGED overtaken

\* The deletion of a record that is missing is no error.
deleteNamespace(c) ==
    LET op == nsOp[c] IN
    /\ AtRead(c, "commit") /\ op.kind \in {"delete", "deleteByName"}
    /\ nsName' = [nsName EXCEPT ![op.name] = Nil]
    /\ nsID' = [nsID EXCEPT ![op.id] = Nil]
    /\ bumpNotificationVersion(op.version)
    /\ EndOp(c)
    /\ overtaken' = (overtaken \/ \/ nsID[op.id] \notin {Nil, op.name}
                                  \/ nsName[op.name] # Nil /\ nsName[op.name].id # op.id)

\* Already exists, a concurrent change of the version, a conflict or an error:
\* the transaction is aborted.
NamespaceOpFails(c) ==
    /\ nsOp[c] # Nil
    /\ EndOp(c)
    /\ UNCHANGED <<nsName, nsID, nsVersion, overtaken>>

NamespaceNext == \E c \in Admin :
    \/ /\ nsVersion < MaxNotification
       /\ \/ \E i \in NamespaceID, n \in NamespaceName : BeginOp(c, "create", i, n, n)
          \/ \E i \in NamespaceID : BeginOp(c, "update", i, Nil, Nil)
          \/ \E i \in NamespaceID, n \in NamespaceName : BeginOp(c, "rename", i, Nil, n)
          \/ \E i \in NamespaceID : BeginOp(c, "delete", i, Nil, Nil)
          \/ \E n \in NamespaceName : BeginOp(c, "deleteByName", Nil, n, Nil)
    \/ GetMetadata(c)
    \/ ReadNamespaceID(c)
    \/ ReadNamespaceName(c)
    \/ nsVersion < MaxNotification /\
         (CreateNamespace(c) \/ UpdateNamespace(c) \/ RenameNamespace(c) \/ deleteNamespace(c))
    \/ NamespaceOpFails(c)

NamespaceSpec == NamespaceInit /\ [][NamespaceNext]_nsvars

-----------------------------------------------------------------------------
\* "Aerospike's multi-record transactions remove that whole class of problem:
\* all three records move together or not at all" (metadata_store.go): every name
\* record has its id record, which points back to it, and the other way round.
NamesAndIDsAgree ==
    /\ \A n \in NamespaceName : nsName[n] # Nil => nsID[nsName[n].id] = n
    /\ \A i \in NamespaceID : nsID[i] # Nil => nsName[nsID[i]] # Nil /\ nsName[nsID[i]].id = i

\* The same, as far as it holds: until a delete commits with a name and an id that
\* it read before a concurrent rename, or a delete and a create, took them apart.
\* Creates, updates and renames alone cannot break it, in whatever order their
\* reads and transactions come.
AgreeUnlessOvertaken == overtaken \/ NamesAndIDsAgree

\* bumpNotificationVersion "is the serialization point for all namespace
\* mutations": no two namespaces carry the same notification version, and none
\* carries one that is still to be given out.
VersionsAreUnique ==
    /\ \A n \in NamespaceName : nsName[n] # Nil => nsName[n].version < nsVersion
    /\ \A m, n \in NamespaceName :
         m # n /\ nsName[m] # Nil /\ nsName[n] # Nil => nsName[m].version # nsName[n].version
=============================================================================
