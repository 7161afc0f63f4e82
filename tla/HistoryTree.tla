----------------------------- MODULE HistoryTree -----------------------------
(***************************************************************************)
(* Workflow history, history_store.go: one tree with a root branch and a   *)
(* branch forked from it.  A branch has an index record that orders its    *)
(* nodes and one payload record per node; the tree record lists the        *)
(* branches.  Appends and deletions are transactions that write blindly or *)
(* lock what they read, so each is one step; a fork is one command; a read *)
(* takes the index first and the payloads of the page afterwards, outside  *)
(* any transaction.                                                        *)
(***************************************************************************)
EXTENDS BucketPages, FiniteSets

CONSTANTS
    Root, Child,    \* the branches
    NodeID,         \* node ids; 1 is the first
    ForkNode,       \* Child shares Root's nodes below this id
    MaxTxnID,       \* transaction ids are 1..MaxTxnID - 1; MaxTxnID is math.MaxInt64
    NodePage        \* PageSize of ReadHistoryBranch; 0 is no limit

Branch == {Root, Child}

ASSUME HistoryAssumption ==
    /\ Root # Child
    /\ NodeID \subseteq Nat
    /\ ForkNode \in Nat
    /\ MaxTxnID \in Nat \ {0}
    /\ NodePage \in Nat

VARIABLES
    htree,      \* the branches that the tree record lists
    hbranch,    \* hbranch[b]: the nodes in the index record of b
    hnode,      \* hnode[b]: the nodes that have a payload record
    hdelete,    \* hdelete[b]: the listing with which a deletion of b started, or Nil
    hread,      \* the last ReadHistoryBranch, page after page
    hretired,   \* branches that were deleted; branch ids are not used again
    happended,  \* history: happended[b]: nodes appended and not deleted one by one
    hraced      \* history: the tree changed between a deletion's listing and its commit

hvars == <<htree, hbranch, hnode, hdelete, hread, hretired, happended, hraced>>

Node == [id : NodeID, txn : 1..(MaxTxnID - 1)]

\* Eight bytes of node id, eight bytes of the complement of the transaction id.
historyNodeSortKey(node, txn) == <<node, MaxTxnID - txn>>
decodeHistoryNodeSortKey(key) == [id |-> key[1], txn |-> MaxTxnID - key[2]]
compareSortKeys(a, b)         == a[1] < b[1] \/ (a[1] = b[1] /\ a[2] < b[2])
SortKey(n)                    == historyNodeSortKey(n.id, n.txn)
NodeBefore(m, n)              == compareSortKeys(SortKey(m), SortKey(n))

NoRead == [branch |-> Root, min |-> 0, max |-> 0, reverse |-> FALSE, meta |-> FALSE,
           at |-> "done", token |-> Nil, fetch |-> <<>>, next |-> Nil, out |-> <<>>,
           events |-> {}, owed |-> {}]

HistoryInit ==
    /\ htree = {}
    /\ hbranch = [b \in Branch |-> {}]
    /\ hnode = [b \in Branch |-> {}]
    /\ hdelete = [b \in Branch |-> Nil]
    /\ hread = NoRead
    /\ hretired = {}
    /\ happended = [b \in Branch |-> {}]
    /\ hraced = FALSE

\* A change of the tree record overtakes the deletions that have listed it.
Overtakes(b) == hraced' = (hraced \/ \E c \in Branch \ {b} : hdelete[c] # Nil)

-----------------------------------------------------------------------------
\* Caller: a new branch is not registered yet; others append to a branch that is.
AppendHistoryNodes(b, n) ==
    LET IsNewBranch == b \notin htree
    IN  /\ n.id >= (IF b = Child THEN ForkNode ELSE 1)
        /\ n \notin happended[b]
        /\ IsNewBranch => b = Root /\ b \notin hretired
        /\ hnode' = [hnode EXCEPT ![b] = @ \cup {n}]
        /\ hbranch' = [hbranch EXCEPT ![b] = @ \cup {n}]
        /\ htree' = htree \cup {b}
        /\ happended' = [happended EXCEPT ![b] = @ \cup {n}]
        /\ IF IsNewBranch THEN Overtakes(b) ELSE UNCHANGED hraced
        /\ UNCHANGED <<hdelete, hread, hretired>>

ForkHistoryBranch ==
    /\ Root \in htree
    /\ Child \notin htree \cup hretired
    /\ htree' = htree \cup {Child}
    /\ Overtakes(Child)
    /\ UNCHANGED <<hbranch, hnode, hdelete, hread, hretired, happended>>

DeleteHistoryNodes(b, n) ==
    /\ n \in happended[b]
    /\ hnode' = [hnode EXCEPT ![b] = @ \ {n}]
    /\ hbranch' = [hbranch EXCEPT ![b] = @ \ {n}]
    /\ happended' = [happended EXCEPT ![b] = @ \ {n}]
    /\ hread' = [hread EXCEPT !.owed = IF hread.branch = b THEN @ \ {n} ELSE @]
    /\ UNCHANGED <<htree, hdelete, hretired, hraced>>

\* A caller that deletes a branch lists the tree first.
GetHistoryTreeContainingBranch(b) ==
    /\ b \in htree
    /\ hdelete[b] = Nil
    /\ hdelete' = [hdelete EXCEPT ![b] = htree]
    /\ UNCHANGED <<htree, hbranch, hnode, hread, hretired, happended, hraced>>

\* Caller: the nodes of b and of its ancestors that no other listed branch uses,
\* as the first node id of a branch that goes, or Nil.
BranchRanges(b, listed) ==
    [c \in Branch |->
       CASE c = Root /\ b = Root /\ Child \in listed  -> ForkNode
         [] c = Root /\ b = Root /\ Child \notin listed -> 1
         [] c = Root /\ b = Child /\ Root \notin listed -> 1
         [] c = Child /\ b = Child -> ForkNode
         [] OTHER -> Nil]

\* Mutant: the range starts behind the newest node of the first id.
NodesFromZero(b, begin) ==
    IF begin = Nil THEN {}
    ELSE {n \in hbranch[b] : ~compareSortKeys(SortKey(n), historyNodeSortKey(begin, 1))}

\* The greatest transaction id has the least sort key of its node id.
deleteBranchNodesFrom(b, begin) ==
    IF begin = Nil THEN {}
    ELSE {n \in hbranch[b] : ~compareSortKeys(SortKey(n), historyNodeSortKey(begin, MaxTxnID))}

DeleteHistoryBranch(b) ==
    /\ hdelete[b] # Nil
    /\ LET gone(c) == deleteBranchNodesFrom(c, BranchRanges(b, hdelete[b])[c])
       IN  /\ hnode' = [c \in Branch |-> hnode[c] \ gone(c)]
           /\ hbranch' = [c \in Branch |-> hbranch[c] \ gone(c)]
           /\ hread' = [hread EXCEPT !.owed = @ \ gone(hread.branch)]
    /\ htree' = htree \ {b}
    /\ hretired' = hretired \cup {b}
    /\ hdelete' = [hdelete EXCEPT ![b] = Nil]
    /\ Overtakes(b)
    /\ UNCHANGED happended

DeleteHistoryBranchFails(b) ==
    /\ hdelete[b] # Nil
    /\ hdelete' = [hdelete EXCEPT ![b] = Nil]
    /\ UNCHANGED <<htree, hbranch, hnode, hread, hretired, happended, hraced>>

-----------------------------------------------------------------------------
InPages(b, min, max) == {n \in hbranch[b] : min <= n.id /\ n.id < max}

StartRead(b, min, max, reverse, meta) ==
    /\ hread.at = "done"
    /\ hread' = [NoRead EXCEPT !.branch = b, !.min = min, !.max = max, !.reverse = reverse,
                               !.meta = meta, !.at = "index", !.owed = InPages(b, min, max)]
    /\ UNCHANGED <<htree, hbranch, hnode, hdelete, hretired, happended, hraced>>

\* The order in which a reader sees nodes.
ReadsBefore(m, n) == IF hread.reverse THEN NodeBefore(n, m) ELSE NodeBefore(m, n)

\* Mutant: the token's own node is read again.
RestOfIndexInclusive ==
    InOrder({n \in hbranch[hread.branch] :
               /\ ~compareSortKeys(SortKey(n), historyNodeSortKey(hread.min, MaxTxnID))
               /\ compareSortKeys(SortKey(n), historyNodeSortKey(hread.max, MaxTxnID))
               /\ hread.token # Nil => ~ReadsBefore(n, hread.token)}, ReadsBefore)

\* The range [min, max) of the index, past the token.
RestOfIndex ==
    InOrder({n \in hbranch[hread.branch] :
               /\ ~compareSortKeys(SortKey(n), historyNodeSortKey(hread.min, MaxTxnID))
               /\ compareSortKeys(SortKey(n), historyNodeSortKey(hread.max, MaxTxnID))
               /\ hread.token # Nil => ReadsBefore(hread.token, n)}, ReadsBefore)

\* Metadata-only reads are over with the index record.
ReadHistoryBranch ==
    /\ hread.at = "index"
    /\ LET rest  == RestOfIndex
           over  == NodePage > 0 /\ Len(rest) > NodePage
           page  == IF over THEN SubSeq(rest, 1, NodePage) ELSE rest
       IN  hread' = [hread EXCEPT
             !.at = "fetch",
             !.next = IF over THEN Last(page) ELSE Nil,
             !.fetch = IF hread.meta THEN <<>> ELSE page,
             !.out = @ \o [i \in DOMAIN page |-> decodeHistoryNodeSortKey(SortKey(page[i]))]]
    /\ UNCHANGED <<htree, hbranch, hnode, hdelete, hretired, happended, hraced>>

\* BatchGet reads the payload records one by one; a node without one is
\* returned without events.
FetchEvents ==
    /\ hread.at = "fetch"
    /\ hread.fetch # <<>>
    /\ hread' = [hread EXCEPT !.fetch = Tail(@),
                              !.events = @ \cup ({Head(hread.fetch)} \cap hnode[hread.branch])]
    /\ UNCHANGED <<htree, hbranch, hnode, hdelete, hretired, happended, hraced>>

PageReturns ==
    /\ hread.at = "fetch"
    /\ hread.fetch = <<>>
    /\ hread' = [hread EXCEPT !.at = IF hread.next = Nil THEN "done" ELSE "index",
                              !.token = hread.next]
    /\ UNCHANGED <<htree, hbranch, hnode, hdelete, hretired, happended, hraced>>

TreeStep ==
    \/ \E b \in Branch, n \in Node : AppendHistoryNodes(b, n)
    \/ ForkHistoryBranch
    \/ \E b \in Branch, n \in Node : DeleteHistoryNodes(b, n)
    \/ \E b \in Branch : GetHistoryTreeContainingBranch(b)
    \/ \E b \in Branch : DeleteHistoryBranch(b)
    \/ \E b \in Branch : DeleteHistoryBranchFails(b)

BranchReadStep ==
    \/ \E b \in Branch, min \in NodeID, max \in {n + 1 : n \in NodeID}, reverse, meta \in BOOLEAN :
         min < max /\ StartRead(b, min, max, reverse, meta)
    \/ ReadHistoryBranch
    \/ FetchEvents
    \/ PageReturns

HistoryNext == TreeStep \/ BranchReadStep

HistorySpec == HistoryInit /\ [][HistoryNext]_hvars

-----------------------------------------------------------------------------
\* Appends, forks and deletions: the payload records, and the index entries, are
\* exactly the nodes on the way from the tree's first node to the tips of its
\* branches; nothing that a branch needs is deleted and nothing else is left --
\* unless the tree changed while a deletion was between its listing and its commit.
NodesAreExact ==
    LET Needed(b) == {n \in happended[b] :
                        b \in htree \/ (b = Root /\ Child \in htree /\ n.id < ForkNode)}
    IN  hraced \/ \A b \in Branch : hnode[b] = Needed(b) /\ hbranch[b] = Needed(b)

\* ReadHistoryBranch, in either direction: a node that is there from the first
\* page to the last is returned once, with its events if they were asked for,
\* and nodes come in order of node id, the newest transaction first (a reverse
\* read: last).
BranchReadIsComplete ==
    LET Newest(m, n)  == m.id < n.id \/ (m.id = n.id /\ m.txn > n.txn)
        Oldest(m, n)  == Newest(n, m)
    IN
    /\ IF hread.reverse THEN Ascending(hread.out, Oldest) ELSE Ascending(hread.out, Newest)
    /\ hread.at = "done" =>
         \A n \in hread.owed : Contains(hread.out, n) /\ (hread.meta \/ n \in hread.events)
=============================================================================
