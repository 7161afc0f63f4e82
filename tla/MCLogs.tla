------------------------------- MODULE MCLogs -------------------------------
(* The stores that keep ordered logs, for TLC: history tasks and their keys,   *)
(* matching tasks, the dead-letter queues, history, and the listings that page *)
(* over a set.  They share no record, so one run takes them one at a time:     *)
(* `part` picks the one that moves.  HistoryTasks is taken twice, with two     *)
(* writers, and with a reader; TaskQueues twice, with two hosts that contend   *)
(* for the lease, and with one host whose tasks are read and completed;        *)
(* HistoryTree twice, with two branches, and with a reader of one; and QueueV2 *)
(* twice, with a consumer, and with an operator who lists the sizes.           *)
EXTENDS MCHistoryTasks, HistoryTaskPages, MCTaskKeys, TaskQueues, QueueV2, ReplicationDLQ,
        HistoryTree, Listings

CONSTANT Host       \* the one of Owner that serves the readers

VARIABLE part

mcvars == <<part, pagevars, keyvars, tqvars, q2vars, dlqvars, hvars, lvars>>

Levels == {[pass |-> 1, id |-> 4], [pass |-> 2, id |-> 2]}
Starts == {[pass |-> 1, id |-> 1], [pass |-> 1, id |-> 2]}

MCInit ==
    /\ part \in {"history tasks", "history pages", "keys", "fence", "tasks",
                 "queue", "sizes", "dlq", "tree", "branch", "list"}
    /\ PagesInit
    /\ IF part = "keys" THEN KeysInit
       ELSE scheduled = FALSE /\ min = MinKey /\ max = MinKey /\ key = MinKey
    /\ TaskQueueInit
    /\ QueueV2Init
    /\ DLQInit
    /\ HistoryInit
    /\ ListingInit
    /\ part # "tasks" => ~fair
    /\ part # "list" => entries = {}

\* A call hands over at most MaxBatch history tasks.  Without a reader, two
\* writers; with one, a writer at a time.  The reader reads all buckets;
\* RangeCovers is about the other ends of its range.
MaxBatch == 2
HistoryTaskMoves ==
    /\ PagesNext
    /\ \A w \in Writer : Cardinality(todo'[w]) <= MaxBatch
    /\ part = "history tasks" => scan' = Nil
    /\ part = "history pages" => \A v, w \in Writer : {} \in {todo'[v], todo'[w]} \/ v = w
    /\ scan' # Nil => \A b \in Bound : ~KeyLess(scan'.max, b)

\* Two hosts and the lease.
FenceMoves ==
    \E h \in Owner :
      \/ LeaseStep(h)
      \/ \E info \in BOOLEAN : Cardinality(issued) < 2 /\ CreateTasks(h, 1, 1, 0, info)
      \/ CreateTasksCommits(h)
      \/ CreateTasksFails(h)

\* One sequence of pages of a range that is not empty, and one completion, for
\* each behaviour.  Tasks expire while they are read and before the completion,
\* which does not look at the time.
ReadOnce ==
    /\ ReadStep
    /\ taskScan.at = "done" /\ taskScan' # taskScan =>
         taskScan = NoTaskScan \/ taskScan'.at = "done"
    /\ completed # {} => completed' = completed /\ (taskSweep.at = "done" => taskSweep' = taskSweep)
    /\ taskScan'.max = 0 \/ taskScan'.min.id < taskScan'.max
    /\ now' # now => taskScan.at # "done" /\ completed = {}
    /\ fair => now' = now /\ taskScan'.max = 0

TaskMoves ==
    \/ GetTaskQueue(Host)
    \/ CreateTaskQueue(Host, TRUE)
    \/ /\ lessee = Host
       /\ \E n \in 1..2, pass \in Pass, exp \in {0, 1} :
            (fair => exp = 0) /\ CreateTasks(Host, n, pass, exp, FALSE)
    \/ CreateTasksCommits(Host)
    \/ tqTxn[Host] = Nil /\ ReadOnce

\* The nodes of one branch come and go while it is read.
BranchMoves ==
    \/ \E n \in Node : AppendHistoryNodes(Root, n)
    \/ \E n \in Node : DeleteHistoryNodes(Root, n)
    \/ BranchReadStep /\ hread'.branch = Root

\* One producer, and no consumer.
SizeMoves ==
    /\ QueueV2Next
    /\ q2read' = Nil
    /\ \A p \in Producer : q2txn'[p] # Nil => p = CHOOSE q \in Producer : TRUE

MCNext ==
    /\ UNCHANGED <<part, keyvars>>
    /\ \/ part \in {"history tasks", "history pages"} /\ HistoryTaskMoves
          /\ UNCHANGED <<tqvars, q2vars, dlqvars, hvars, lvars>>
       \/ part = "fence" /\ FenceMoves /\ UNCHANGED <<pagevars, q2vars, dlqvars, hvars, lvars>>
       \/ part = "tasks" /\ TaskMoves /\ UNCHANGED <<pagevars, q2vars, dlqvars, hvars, lvars>>
       \/ part = "queue" /\ QueueV2Next /\ q2count' = Nil /\ UNCHANGED <<pagevars, tqvars, dlqvars, hvars, lvars>>
       \/ part = "sizes" /\ SizeMoves /\ UNCHANGED <<pagevars, tqvars, dlqvars, hvars, lvars>>
       \/ part = "dlq" /\ DLQNext /\ UNCHANGED <<pagevars, tqvars, q2vars, hvars, lvars>>
       \/ part = "tree" /\ TreeStep /\ UNCHANGED <<pagevars, tqvars, q2vars, dlqvars, lvars>>
       \/ part = "branch" /\ BranchMoves /\ UNCHANGED <<pagevars, tqvars, q2vars, dlqvars, lvars>>
       \/ part = "list" /\ ListingNext /\ UNCHANGED <<pagevars, tqvars, q2vars, dlqvars, hvars>>

MCSpec == MCInit /\ [][MCNext]_mcvars
=============================================================================
