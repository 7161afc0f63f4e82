---------------------------- MODULE NexusEndpoints ----------------------------
(***************************************************************************)
(* Nexus endpoints, nexus_endpoint_store.go.  Every change of an endpoint  *)
(* also advances the version of the table, in one transaction that has     *)
(* read both.  A listing reads the table version and then scans the set,   *)
(* record by record, outside any transaction; later pages present the      *)
(* version of the first.                                                   *)
(***************************************************************************)
EXTENDS BucketPages, FiniteSets

CONSTANTS
    Endpoint,           \* endpoint ids; numbers stand for their order
    EndpointWriter,
    MaxTable,           \* bound: the table version stops here
    EndpointPage        \* page size of the listing; 0 is none

ASSUME NexusAssumption ==
    /\ Endpoint \subseteq Nat \ {0}
    /\ MaxTable \in Nat
    /\ EndpointPage \in Nat

VARIABLES
    nxTable,    \* the table version
    nxVersion,  \* nxVersion[e]: the version of endpoint e; 0: no record
    nxTxn,      \* nxTxn[w]: what the open transaction of w has read, or Nil
    nxList,     \* the last listing
    nxChanged   \* history: nxChanged[e]: the table version of the last change of e

nxvars == <<nxTable, nxVersion, nxTxn, nxList, nxChanged>>

NoChange == [e \in Endpoint |-> 0]
NoList   == [at |-> "done", first |-> 0, table |-> 0, token |-> 0, unread |-> {}, seen |-> NoChange,
             there |-> {}, shown |-> NoChange, due |-> NoChange, whole |-> FALSE]

NexusInit ==
    /\ nxTable = 0
    /\ nxVersion = NoChange
    /\ nxTxn = [w \in EndpointWriter |-> Nil]
    /\ nxList = NoList
    /\ nxChanged = NoChange

-----------------------------------------------------------------------------
\* The table version must be the one that the caller knows, and the endpoint's
\* version too; version 0 is for an endpoint that must not exist.
CreateOrUpdateNexusEndpoint(w, e, known, version) ==
    /\ nxTxn[w] = Nil
    /\ nxTable = known
    /\ nxVersion[e] = version
    /\ nxTxn' = [nxTxn EXCEPT ![w] = [id |-> e, table |-> known, version |-> version, next |-> version + 1]]
    /\ UNCHANGED <<nxTable, nxVersion, nxList, nxChanged>>

DeleteNexusEndpoint(w, e, known) ==
    /\ nxTxn[w] = Nil
    /\ nxTable = known
    /\ nxVersion[e] # 0
    /\ nxTxn' = [nxTxn EXCEPT ![w] = [id |-> e, table |-> known, version |-> nxVersion[e], next |-> 0]]
    /\ UNCHANGED <<nxTable, nxVersion, nxList, nxChanged>>

\* The commit verifies the two records and writes them.
NexusCommits(w) ==
    LET t == nxTxn[w] IN
    /\ t # Nil
    /\ nxTable = t.table
    /\ nxVersion[t.id] = t.version
    /\ nxTable' = t.table + 1
    /\ nxVersion' = [nxVersion EXCEPT ![t.id] = t.next]
    /\ nxChanged' = [nxChanged EXCEPT ![t.id] = t.table + 1]
    /\ nxTxn' = [nxTxn EXCEPT ![w] = Nil]
    /\ UNCHANGED nxList

NexusFails(w) ==
    /\ nxTxn[w] # Nil
    /\ nxTxn' = [nxTxn EXCEPT ![w] = Nil]
    /\ UNCHANGED <<nxTable, nxVersion, nxList, nxChanged>>

-----------------------------------------------------------------------------
StartNexusList ==
    /\ nxList.at = "done"
    /\ nxList' = [NoList EXCEPT !.at = "version"]
    /\ UNCHANGED <<nxTable, nxVersion, nxTxn, nxChanged>>

StartEndpointScan(refused) ==
    /\ nxList.at = "version"
    /\ nxList' = IF refused THEN NoList
                 ELSE [nxList EXCEPT !.at = "scan", !.unread = Endpoint, !.there = {},
                                     !.first = IF nxList.token = 0 THEN nxTable ELSE @,
                                     !.table = nxTable, !.due = nxChanged]
    /\ UNCHANGED <<nxTable, nxVersion, nxTxn, nxChanged>>

\* Mutant: the caller's version is not compared.
tableVersionUnchecked == StartEndpointScan(FALSE)

\* A page returns the version that is current before its scan, and owes every
\* change up to it.  A later page is refused if the version is not the caller's;
\* version 0 stands for a caller that has none.
tableVersion == StartEndpointScan(nxList.table # 0 /\ nxList.table # nxTable)

ScanEndpoint(e) ==
    /\ nxList.at = "scan"
    /\ e \in nxList.unread
    /\ nxList' = [nxList EXCEPT !.unread = @ \ {e}, !.seen[e] = nxChanged[e],
                                !.there = IF nxVersion[e] # 0 THEN @ \cup {e} ELSE @]
    /\ UNCHANGED <<nxTable, nxVersion, nxTxn, nxChanged>>

\* What the page says of the endpoints behind the token, up to its last one.
ListNexusEndpoints ==
    LET rest == InOrder({e \in nxList.there : e > nxList.token}, <)
        over == EndpointPage > 0 /\ Len(rest) > EndpointPage
        last == rest[EndpointPage]
    IN  /\ nxList.at = "scan"
        /\ nxList.unread = {}
        /\ nxList' = [nxList EXCEPT
             !.shown = [e \in Endpoint |-> IF e > nxList.token /\ (over => e <= last)
                                           THEN nxList.seen[e] ELSE @[e]],
             !.at = IF over THEN "version" ELSE "done",
             !.token = IF over THEN last ELSE 0,
             !.whole = ~over]
        /\ UNCHANGED <<nxTable, nxVersion, nxTxn, nxChanged>>

NexusNext ==
    \/ \E w \in EndpointWriter :
         \/ \E e \in Endpoint, known \in 0..(MaxTable - 1), version \in 0..(MaxTable - 1) :
              CreateOrUpdateNexusEndpoint(w, e, known, version)
         \/ \E e \in Endpoint, known \in 0..(MaxTable - 1) : DeleteNexusEndpoint(w, e, known)
         \/ NexusCommits(w)
         \/ NexusFails(w)
    \/ StartNexusList
    \/ tableVersion
    \/ \E e \in Endpoint : ScanEndpoint(e)
    \/ ListNexusEndpoints

NexusSpec == NexusInit /\ [][NexusNext]_nxvars

-----------------------------------------------------------------------------
\* "a reader that saw the new version must be able to see the endpoint that
\* caused it" (nexus_endpoint_store.go): a listing that got to its end shows of
\* every endpoint the last change up to the table version it returns, or a later
\* one, whatever commits while its pages are scanned.  Not so a listing whose
\* first page found version 0: its later pages are not checked.
ListingShowsItsVersion ==
    nxList.at = "done" /\ nxList.whole /\ nxList.first # 0 =>
      \A e \in Endpoint : nxList.shown[e] >= nxList.due[e]

=============================================================================
