----------------------------- MODULE AerospikeMRT -----------------------------
(***************************************************************************)
(* The part of an Aerospike strong-consistency namespace that the stores   *)
(* rely on: single-record commands, and multi-record transactions (MRT).   *)
(* It is not code of the repository; it is modelled from how client.go and *)
(* the stores use it.                                                      *)
(*                                                                         *)
(* A transaction reads optimistically: the record version is remembered    *)
(* and verified again, at the write of the same record and at the commit.  *)
(* It writes pessimistically: a write gives the record a provisional       *)
(* version, which locks it against every other writer until the            *)
(* transaction ends, and which only its own reads see.  Instead of version *)
(* numbers the model keeps, for each transaction, the records it has read  *)
(* and those among them that somebody has written since.                   *)
(***************************************************************************)
CONSTANTS Proc, Key, NoRec

VARIABLES
    rec,    \* rec[k]: the committed version of record k, or NoRec
    txn     \* txn[p]: the transaction process p has open

NoTxn == [reads |-> {}, stale |-> {}, prov |-> <<>>]

MRTInit ==
    /\ rec = [k \in Key |-> NoRec]
    /\ txn = [p \in Proc |-> NoTxn]

Writes(p) == DOMAIN txn[p].prov

Locked(k) == \E p \in Proc : k \in Writes(p)
LockedByOther(p, k) == \E q \in Proc \ {p} : k \in Writes(q)

\* What a read of process p's transaction returns.
View(p, k) == IF k \in Writes(p) THEN txn[p].prov[k] ELSE rec[k]

TxnRead(p, k) ==
    /\ txn' = [txn EXCEPT ![p].reads = IF k \in Writes(p) THEN @ ELSE @ \cup {k}]
    /\ UNCHANGED rec

\* Enabled unless the command would be answered MRT_BLOCKED or
\* MRT_VERSION_MISMATCH.
TxnWrite(p, k, v) ==
    /\ ~LockedByOther(p, k)
    /\ k \notin txn[p].stale
    /\ txn' = [txn EXCEPT ![p].prov =
                  [x \in Writes(p) \cup {k} |-> IF x = k THEN v ELSE txn[p].prov[x]]]
    /\ UNCHANGED rec

TxnAbort(p) ==
    /\ txn' = [txn EXCEPT ![p] = NoTxn]
    /\ UNCHANGED rec

\* Every open transaction other than p's that read a record of K has to
\* notice, at the latest when it commits.
Invalidate(p, K) ==
    [q \in Proc |->
        IF q = p THEN NoTxn
        ELSE [txn[q] EXCEPT !.stale = @ \cup (txn[q].reads \cap K)]]

TxnVerified(p) == txn[p].stale = {}

TxnCommit(p) ==
    /\ TxnVerified(p)
    /\ rec' = [k \in Key |-> View(p, k)]
    /\ txn' = Invalidate(p, Writes(p))

\* A command outside any transaction.  It is answered MRT_BLOCKED, and not
\* enabled here, while a transaction has the record locked.
Put(k, v) ==
    /\ ~Locked(k)
    /\ rec' = [rec EXCEPT ![k] = v]
    /\ txn' = [q \in Proc |-> [txn[q] EXCEPT !.stale = @ \cup (txn[q].reads \cap {k})]]
=============================================================================
