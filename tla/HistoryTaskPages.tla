--------------------------- MODULE HistoryTaskPages ---------------------------
(***************************************************************************)
(* GetHistoryTasks beside the writers and the range completion of          *)
(* HistoryTasks: the queue processor reads the tasks below a bound, page   *)
(* after page.  scan.left are the buckets that this page still has to      *)
(* read, scan.page the number of tasks it has returned, scan.got the tasks *)
(* of all pages; a full page ends with more = TRUE and the token of the    *)
(* next one.  scan.due (history) are the tasks that were there when the    *)
(* first page was asked for and still are, but for those that a retiring   *)
(* bucket may have taken along (OnlyRacedTasksAreLost).                    *)
(***************************************************************************)
EXTENDS HistoryTasks, SequencesExt

CONSTANT BatchSize  \* tasks in a page

ASSUME BatchAssumption == BatchSize \in Nat \ {0}

VARIABLE scan       \* the running sequence of GetHistoryTasks pages, or Nil

pagevars == <<vars, scan>>

PagesInit == Init /\ scan = Nil

GetHistoryTasks(max) ==
    /\ scan = Nil
    /\ scan' = [max |-> max, token |-> Nil, more |-> FALSE, page |-> 0,
                left |-> populatedBuckets(0, max), got |-> <<>>,
                due |-> {t \in live \ raced : KeyLess(t, max)}]
    /\ UNCHANGED vars

\* The next call, with the token: it starts from the index again.
NextPage ==
    /\ scan # Nil /\ scan.left = {} /\ scan.more
    /\ scan' = [scan EXCEPT !.more = FALSE, !.page = 0,
                           !.left = populatedBuckets(bucket(scan.token), scan.max)]
    /\ UNCHANGED vars

\* A command of the call fails, the tasks of its page are lost, and the caller
\* asks for the page again.
PageFails ==
    /\ scan # Nil /\ scan.left # {}
    /\ LET first == IF scan.token = Nil THEN 0 ELSE bucket(scan.token) IN
        scan' = [scan EXCEPT !.page = 0, !.left = populatedBuckets(first, scan.max),
                             !.got = SubSeq(@, 1, Len(@) - scan.page)]
    /\ UNCHANGED vars

\* The tasks of a bucket that the page still has to return.
Pending(b) ==
    {t \in Entries(rec[Bucket(b)]) :
        /\ InRange(t, MinKey, scan.max)
        /\ scan.token # Nil /\ b = bucket(scan.token) =>
              LexLess(encodedBytes(encode(scan.token)), encodedBytes(encode(t)))}

\* Mutant: the token names the first task that did not fit.
ReadBucketPendingToken ==
    /\ scan # Nil /\ scan.left # {}
    /\ LET b     == Min(scan.left)
           tasks == SetToSortSeq(Pending(b), LAMBDA s, t : LexLess(encode(s), encode(t)))
           room  == BatchSize - scan.page
           taken == SubSeq(tasks, 1, Min({room, Len(tasks)}))
           got   == scan.got \o taken IN
        scan' = IF room < Len(tasks)
                  THEN [scan EXCEPT !.got = got, !.token = tasks[room + 1], !.more = TRUE, !.left = {}]
                  ELSE [scan EXCEPT !.got = got, !.page = @ + Len(taken), !.left = @ \ {b}]
    /\ UNCHANGED vars

\* One range read of a bucket.  A task beyond the batch ends the page, with a
\* token that names the last task returned, not the one that did not fit.
ReadBucket ==
    /\ scan # Nil /\ scan.left # {}
    /\ LET b     == Min(scan.left)
           tasks == SetToSortSeq(Pending(b), LAMBDA s, t : LexLess(encode(s), encode(t)))
           room  == BatchSize - scan.page
           taken == SubSeq(tasks, 1, Min({room, Len(tasks)}))
           got   == scan.got \o taken IN
        scan' = IF room < Len(tasks)
                  THEN [scan EXCEPT !.got = got, !.token = Last(got), !.more = TRUE, !.left = {}]
                  ELSE [scan EXCEPT !.got = got, !.page = @ + Len(taken), !.left = @ \ {b}]
    /\ UNCHANGED vars

ScanEnds ==
    /\ scan # Nil /\ scan.left = {} /\ ~scan.more
    /\ scan' = Nil
    /\ UNCHANGED vars

-----------------------------------------------------------------------------
\* A step of a writer or of a completion, under a running scan.
QueueStep ==
    /\ Next
    /\ scan' = IF scan = Nil THEN Nil ELSE [scan EXCEPT !.due = @ \cap (live' \ raced')]

PagesNext ==
    \/ QueueStep
    \/ \E max \in Bound : GetHistoryTasks(max)
    \/ NextPage \/ PageFails \/ ReadBucket \/ ScanEnds

PagesSpec == PagesInit /\ [][PagesNext]_pagevars

-----------------------------------------------------------------------------
\* GetHistoryTasks: the pages, put together, return each task once and in the
\* order of the category, whatever is added or completed between two commands of
\* the scan, and miss no task that was there before it and is there after it.
ScanIsComplete ==
    scan # Nil =>
        /\ \A i, j \in DOMAIN scan.got : i < j => KeyLess(scan.got[i], scan.got[j])
        /\ scan.left = {} /\ ~scan.more => scan.due \subseteq ToSet(scan.got)
=============================================================================
