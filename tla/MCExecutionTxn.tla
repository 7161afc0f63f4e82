---------------------------- MODULE MCExecutionTxn ----------------------------
(***************************************************************************)
(* Two request threads and two runs.  ActiveRequests are the ones of an    *)
(* active cluster (start, update, close, continue as new, start again),    *)
(* with two hosts; PassiveRequests those of a cluster that replays another *)
(* one (zombies, conflict resolution, rewrites that leave the pointer      *)
(* alone), with one host that takes the shard once.  `traffic` says which  *)
(* of the two a behaviour is made of.  Threads may issue a request any     *)
(* number of times, so each request is also its own retry.                 *)
(***************************************************************************)
EXTENDS ExecutionTxn, TLC

CONSTANT r1, r2

Symmetry == Permutations(Host) \cup Permutations(Proc)

Snap(r, state, dbv) ==
    [run |-> r, state |-> state, dbv |-> dbv, cond |-> 1, nev |-> dbv, lwv |-> 1]

Create(mode, new, prev) ==
    [op |-> "Create", mode |-> mode, new |-> new, prevRun |-> prev, prevLwv |-> 1]
Update(mode, base, new) ==
    [op |-> "Update", mode |-> mode, base |-> base, new |-> new]
ConflictResolve(mode, base, cur, new) ==
    [op |-> "ConflictResolve", mode |-> mode, base |-> base, cur |-> cur, new |-> new]
Set(base) == [op |-> "Set", base |-> base]

ActiveRequests == {
    Create("BrandNew", Snap(r1, "Running", 1), r1),
    Create("BrandNew", Snap(r2, "Running", 1), r2),
    Update("UpdateCurrent", Snap(r1, "Running", 2), Nil),
    Update("UpdateCurrent", Snap(r1, "Completed", 2), Nil),
    Update("UpdateCurrent", Snap(r1, "Completed", 2), Snap(r2, "Running", 1)),
    Create("UpdateCurrent", Snap(r2, "Running", 1), r1) }

PassiveRequests == {
    Create("BrandNew", Snap(r1, "Running", 1), r1),
    Create("BypassCurrent", Snap(r2, "Zombie", 1), r2),
    Update("BypassCurrent", Snap(r2, "Completed", 2), Nil),
    Update("IgnoreCurrent", Snap(r1, "Running", 2), Nil),
    Set([Snap(r1, "Running", 2) EXCEPT !.nev = 1]),
    ConflictResolve("UpdateCurrent", Snap(r2, "Running", 2), Snap(r1, "Zombie", 2), Nil),
    ConflictResolve("UpdateCurrent", Snap(r1, "Completed", 2), Nil, Snap(r2, "Running", 1)),
    ConflictResolve("BypassCurrent", Snap(r2, "Zombie", 2), Nil, Nil) }

AllRequests == ActiveRequests \cup PassiveRequests

\* The range id the host of passive traffic takes the shard at: the one a first
\* acquisition writes.  Takeovers are the active traffic's.
PassiveRange == 2

VARIABLE traffic

mcvars == <<vars, traffic>>

MCInit == Init /\ traffic \in {"active", "passive"}

Issued == {req'[p] : p \in Proc} \ {Nil}

MCNext ==
    /\ Next
    /\ traffic = "active" => Issued \subseteq ActiveRequests
    /\ traffic = "passive" =>
         /\ Issued \subseteq PassiveRequests
         /\ \A g, h \in Host : held'[g] # Nil /\ held'[h] # Nil => g = h
         /\ \A h \in Host : held'[h] \in {Nil, PassiveRange}
    /\ UNCHANGED traffic

MCSpec == MCInit /\ [][MCNext]_mcvars
=============================================================================
