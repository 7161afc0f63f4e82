----------------------------- MODULE BucketPages -----------------------------
(***************************************************************************)
(* What the paged readers of bucketed records share.  Message, task and    *)
(* dead-letter readers all visit bucket records in ascending order, copy   *)
(* entries into a page, and stop at the first entry that does not fit.     *)
(***************************************************************************)
EXTENDS Absent, Integers, Sequences, SequencesExt

\* The entries of a map in the order of its keys, as the server returns them.
InOrder(S, Less(_, _)) == SetToSortSeq(S, Less)

\* A page after one more bucket: the entries that still fit.
Fill(page, found, size) ==
    page \o SubSeq(found, 1, IF Len(found) < size - Len(page) THEN Len(found)
                             ELSE size - Len(page))

\* An entry is left over, so the call returns with a page token.
Overflows(page, found, size) == Len(page) + Len(found) > size

Ascending(s, Less(_, _)) == \A i, j \in DOMAIN s : i < j => Less(s[i], s[j])
=============================================================================
