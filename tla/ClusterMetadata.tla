--------------------------- MODULE ClusterMetadata ---------------------------
(***************************************************************************)
(* cluster_metadata_store.go: a cluster's versioned metadata record, which *)
(* clients read, change and save back, and the membership records, which   *)
(* hosts refresh with heartbeats and anyone may prune.  Pruning scans the  *)
(* set record by record and then deletes, without a condition, what it saw *)
(* lapsed.                                                                 *)
(***************************************************************************)
EXTENDS Absent, Integers, FiniteSets

CONSTANTS
    Editor,             \* clients that edit the cluster metadata
    MaxMetadata,        \* bound: the metadata version stops here
    Member,             \* hosts
    Lifetime,           \* RecordExpiry of a heartbeat
    MaxClock,           \* bound: the clock stops here
    MaxRecordsPruned    \* limits of PruneClusterMembership; 0 is none

ASSUME ClusterAssumption ==
    /\ MaxMetadata \in Nat /\ MaxClock \in Nat
    /\ Lifetime \in Nat \ {0}
    /\ MaxRecordsPruned \subseteq Nat
    /\ Nil \notin Nat /\ Nil \notin [version : Nat, edits : SUBSET Editor]

VARIABLES
    cluster,    \* the metadata record: version and the edits in it, or Nil
    draft,      \* draft[c]: what c read (version 0: not found), or Nil
    dropped,    \* history: the metadata record was deleted
    clock,
    member,     \* member[h]: the expiry in the record of host h, or Nil
    prune,      \* the last PruneClusterMembership
    beat,       \* history: beat[h]: the expiry of h's last heartbeat
    inPrune     \* history: hosts whose last heartbeat came after a running prune had read their record

cmvars == <<cluster, draft, dropped, clock, member, prune, beat, inPrune>>
metavars == <<cluster, draft, dropped>>
membervars == <<clock, member, prune, beat, inPrune>>

NoPrune == [at |-> "done", limit |-> 0, unread |-> {}, seen |-> [h \in Member |-> Nil],
            now |-> 0, todo |-> {}, pruned |-> 0]

ClusterInit ==
    /\ cluster = Nil
    /\ draft = [c \in Editor |-> Nil]
    /\ dropped = FALSE
    /\ clock = 0
    /\ member = [h \in Member |-> Nil]
    /\ prune = NoPrune
    /\ beat = [h \in Member |-> 0]
    /\ inPrune = {}

-----------------------------------------------------------------------------
GetClusterMetadata(c) ==
    /\ draft[c] = Nil
    /\ draft' = [draft EXCEPT ![c] = IF cluster = Nil THEN [version |-> 0, edits |-> {}] ELSE cluster]
    /\ UNCHANGED <<cluster, dropped, membervars>>

\* Mutant: a write with version 0 need not create the record.
MaySaveOver(version) == IF version = 0 THEN TRUE ELSE cluster # Nil /\ cluster.version = version

\* Version 0: create if absent; otherwise a compare-and-set on the version.
MaySave(version) == IF version = 0 THEN cluster = Nil ELSE cluster # Nil /\ cluster.version = version

\* A client adds its edit to what it read.
SaveClusterMetadata(c) ==
    /\ draft[c] # Nil
    /\ IF MaySave(draft[c].version)
       THEN cluster' = [version |-> draft[c].version + 1, edits |-> draft[c].edits \cup {c}]
       ELSE UNCHANGED cluster
    /\ draft' = [draft EXCEPT ![c] = Nil]
    /\ UNCHANGED <<dropped, membervars>>

DeleteClusterMetadata ==
    /\ cluster # Nil
    /\ cluster' = Nil
    /\ dropped' = TRUE
    /\ UNCHANGED <<draft, membervars>>

-----------------------------------------------------------------------------
\* A heartbeat replaces the whole record.
UpsertClusterMembership(h) ==
    /\ member' = [member EXCEPT ![h] = clock + Lifetime]
    /\ beat' = [beat EXCEPT ![h] = clock + Lifetime]
    /\ inPrune' = IF prune.at # "done" /\ prune.seen[h] # Nil
                  THEN inPrune \cup {h} ELSE inPrune \ {h}
    /\ UNCHANGED <<metavars, clock, prune>>

Time ==
    /\ clock < MaxClock
    /\ clock' = clock + 1
    /\ UNCHANGED <<metavars, member, prune, beat, inPrune>>

StartPrune(limit) ==
    /\ prune.at = "done"
    /\ prune' = [NoPrune EXCEPT !.at = "scan", !.limit = limit, !.unread = Member]
    /\ UNCHANGED <<metavars, clock, member, beat, inPrune>>

ScanMember(h) ==
    /\ prune.at = "scan"
    /\ h \in prune.unread
    /\ prune' = [prune EXCEPT !.unread = @ \ {h}, !.seen[h] = member[h]]
    /\ UNCHANGED <<metavars, clock, member, beat, inPrune>>

\* The time is taken after the scan; what had lapsed by then is to go.
PruneClusterMembership ==
    /\ prune.at = "scan"
    /\ prune.unread = {}
    /\ prune' = [prune EXCEPT !.at = "delete", !.now = clock,
                              !.todo = {h \in Member : prune.seen[h] # Nil /\ prune.seen[h] <= clock}]
    /\ UNCHANGED <<metavars, clock, member, beat, inPrune>>

\* Mutant: what was seen live is deleted too.
PruneAnyMember(h) ==
    /\ prune.at = "delete"
    /\ prune.seen[h] # Nil
    /\ prune.limit = 0 \/ prune.pruned < prune.limit
    /\ member' = [member EXCEPT ![h] = Nil]
    /\ prune' = [prune EXCEPT !.todo = @ \ {h}, !.pruned = @ + 1]
    /\ UNCHANGED <<metavars, clock, beat, inPrune>>

\* The records are deleted in the order of the scan, which is any.
PruneMember(h) ==
    /\ prune.at = "delete"
    /\ h \in prune.todo
    /\ prune.limit = 0 \/ prune.pruned < prune.limit
    /\ member' = [member EXCEPT ![h] = Nil]
    /\ prune' = [prune EXCEPT !.todo = @ \ {h}, !.pruned = @ + 1]
    /\ UNCHANGED <<metavars, clock, beat, inPrune>>

PruneReturns ==
    /\ prune.at = "delete"
    /\ prune.todo = {} \/ (prune.limit # 0 /\ prune.pruned >= prune.limit)
    /\ prune' = [prune EXCEPT !.at = "done"]
    /\ UNCHANGED <<metavars, clock, member, beat, inPrune>>

\* GetClusterMembers: lapsed records are invisible.
ActiveMembers == {h \in Member : member[h] # Nil /\ member[h] > clock}

MetadataStep ==
    \/ \E c \in Editor : GetClusterMetadata(c)
    \/ \E c \in Editor : (cluster # Nil => cluster.version < MaxMetadata) /\ SaveClusterMetadata(c)
    \/ DeleteClusterMetadata

MemberStep ==
    \/ \E h \in Member : UpsertClusterMembership(h)
    \/ Time
    \/ \E limit \in MaxRecordsPruned : StartPrune(limit)
    \/ \E h \in Member : ScanMember(h)
    \/ PruneClusterMembership
    \/ \E h \in Member : PruneMember(h)
    \/ PruneReturns

ClusterNext == MetadataStep \/ MemberStep

ClusterSpec == ClusterInit /\ [][ClusterNext]_cmvars

-----------------------------------------------------------------------------
\* SaveClusterMetadata: no save drops the edit of another client that it has not
\* read -- as long as the record is not deleted, which starts its versions over.
NoEditIsLost ==
    [][~dropped' /\ cluster # Nil /\ cluster' # cluster =>
         cluster.edits \subseteq cluster'.edits /\ cluster'.version = cluster.version + 1]_cmvars

\* UpsertClusterMembership, GetClusterMembers and PruneClusterMembership: a host
\* is listed exactly while its last heartbeat has not lapsed.  The exception is
\* a heartbeat that arrives after a running prune has read the host's record.
LiveHostsAreListed ==
    \A h \in Member : h \in inPrune \/ (h \in ActiveMembers <=> beat[h] > clock)
=============================================================================
