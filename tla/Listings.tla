------------------------------- MODULE Listings -------------------------------
(***************************************************************************)
(* The administrative listings: namespaces, cluster metadata, members,     *)
(* history branches and queues.  Every page scans a whole set, record by   *)
(* record and in no particular order, sorts what it saw by a cursor key    *)
(* and cuts out the page behind the token; entries come and go meanwhile.  *)
(***************************************************************************)
EXTENDS BucketPages, FiniteSets

CONSTANTS
    Entry,          \* cursor keys (digests, names): numbers stand for their order
    Together,       \* entries that one record holds, in a listing of history branches
    ListPage        \* PageSize: 0 is no limit, except for ListQueues

ASSUME ListingAssumption ==
    /\ Entry \subseteq Nat
    /\ Together \subseteq Entry
    /\ ListPage \subseteq Nat

VARIABLES
    entries,    \* the entries in the set
    listing     \* the last listing, page after page

lvars == <<entries, listing>>

Kinds == {"namespaces", "clusters", "members", "branches", "queues"}

NoListing == [kind |-> "queues", size |-> 1, at |-> "done", token |-> Nil, unread |-> {},
              all |-> <<>>, page |-> <<>>, out |-> <<>>, owed |-> {}]

ListingInit ==
    /\ entries \in SUBSET Entry
    /\ listing = NoListing

AddEntry(e) ==
    /\ e \notin entries
    /\ entries' = entries \cup {e}
    /\ UNCHANGED listing

RemoveEntry(e) ==
    /\ e \in entries
    /\ entries' = entries \ {e}
    /\ listing' = [listing EXCEPT !.owed = @ \ {e}]

StartListing(kind, size) ==
    /\ listing.at = "done"
    /\ listing' = [NoListing EXCEPT !.kind = kind, !.size = size, !.at = "open", !.owed = entries]
    /\ UNCHANGED entries

-----------------------------------------------------------------------------
\* The records of the set, by the entries they hold.
RecordsOf(kind) ==
    IF kind = "branches" THEN {Together} \cup {{e} : e \in Entry \ Together}
    ELSE {{e} : e \in Entry}

scanSet ==
    /\ listing.at = "open"
    /\ listing' = [listing EXCEPT !.at = "scan", !.all = <<>>, !.unread = RecordsOf(listing.kind)]
    /\ UNCHANGED entries

ScanRecord(r) ==
    /\ listing.at = "scan"
    /\ r \in listing.unread
    /\ listing' = [listing EXCEPT !.unread = @ \ {r},
                                  !.all = @ \o InOrder(r \cap entries, <)]
    /\ UNCHANGED entries

\* Insertion sort: an element moves before every greater one.
sortByDigest(xs) ==
    LET insert(s, x) == SelectSeq(s, LAMBDA y : y <= x) \o <<x>> \o SelectSeq(s, LAMBDA y : y > x)
    IN  FoldLeft(insert, <<>>, xs)

\* Mutant: the entry of the token is returned again.
pageStartInclusive(all, token) ==
    IF token = Nil THEN 0 ELSE Len(SelectSeq(all, LAMBDA y : y < token))

\* The number of entries in front of the page: up to the first key behind the token.
pageStart(all, token) ==
    IF token = Nil THEN 0
    ELSE LET behind == {i \in DOMAIN all : all[i] > token}
         IN  IF behind = {} THEN Len(all) ELSE (CHOOSE i \in behind : \A j \in behind : i <= j) - 1

pageEnd(start, size, n) == IF size <= 0 \/ start + size > n THEN n ELSE start + size

\* A page is cut, and the caller goes on if it gets a token.
Cut(sorted, start, end, more) ==
    /\ listing.at = "scan"
    /\ listing.unread = {}
    /\ listing' = [listing EXCEPT !.all = <<>>, !.page = SubSeq(sorted, start + 1, end),
                                  !.out = @ \o SubSeq(sorted, start + 1, end),
                                  !.at = IF more THEN "open" ELSE "done",
                                  !.token = IF more THEN sorted[end] ELSE Nil]
    /\ UNCHANGED entries

\* Its own search for the start, and a page size of the whole list for none.
ListNamespaces ==
    LET sorted == sortByDigest(listing.all)
        start  == IF listing.token = Nil THEN 0
                  ELSE Len(SelectSeq(sorted, LAMBDA y : y <= listing.token))
        size   == IF listing.size <= 0 THEN Len(sorted) ELSE listing.size
        end    == IF start + size > Len(sorted) THEN Len(sorted) ELSE start + size
    IN  listing.kind = "namespaces" /\ Cut(sorted, start, end, end < Len(sorted))

CutAtMore(kind) ==
    LET sorted == sortByDigest(listing.all)
        start  == pageStart(sorted, listing.token)
        end    == pageEnd(start, listing.size, Len(sorted))
    IN  listing.kind = kind /\ Cut(sorted, start, end, end < Len(sorted))

ListClusterMetadata       == CutAtMore("clusters")
GetClusterMembersPage     == CutAtMore("members")
GetAllHistoryTreeBranches == CutAtMore("branches")

\* A token comes with every full page.  A page size of zero is refused.
ListQueues ==
    LET sorted == sortByDigest(listing.all)
        start  == pageStart(sorted, listing.token)
        end    == pageEnd(start, listing.size, Len(sorted))
    IN  listing.kind = "queues" /\ Cut(sorted, start, end, end > start /\ end - start = listing.size)

ListingNext ==
    \/ \E e \in Entry : AddEntry(e)
    \/ \E e \in Entry : RemoveEntry(e)
    \/ \E kind \in Kinds, size \in ListPage :
         (kind = "queues" => size > 0) /\ StartListing(kind, size)
    \/ scanSet
    \/ \E r \in SUBSET Entry : ScanRecord(r)
    \/ ListNamespaces
    \/ ListClusterMetadata
    \/ GetClusterMembersPage
    \/ GetAllHistoryTreeBranches
    \/ ListQueues

ListingSpec == ListingInit /\ [][ListingNext]_lvars

-----------------------------------------------------------------------------
\* Every listing, while entries come and go: following the tokens returns in
\* order, and once, every entry that is there from the first page to the last,
\* and a page with a token is never empty, so the caller gets to the end.
ListingIsComplete ==
    /\ Ascending(listing.out, <)
    /\ listing.token # Nil => listing.page # <<>>
    /\ listing.at = "done" => \A e \in listing.owed : Contains(listing.out, e)
=============================================================================
