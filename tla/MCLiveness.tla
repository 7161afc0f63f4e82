----------------------------- MODULE MCLiveness -----------------------------
(* The components with liveness properties for TLC: the shard lease and the    *)
(* three of the control plane.  They share no state and are checked in one     *)
(* run: `part` picks the one that moves.  ControlPlane is taken three times:   *)
(* from its start, with one operation that changes the backend, and with the   *)
(* probes or with Close; and from a settled demo, with two operations.         *)
EXTENDS ControlPlane, EventHub, BatchRuns, ShardLease

VARIABLE part

mcvars == <<part, cpvars, hubvars, batchvars, vars>>

ControlPart == {"boot", "close", "settled"}

\* Where the boot part leads when nothing is asked of it.
Settled ==
    /\ switching = FALSE /\ closed = FALSE /\ closing = FALSE
    /\ proc = [g \in Goroutine |-> [at |-> "idle", keeper |-> g = Boot,
                                    job |-> "sqlite", gen |-> 0]]
    /\ releasing = {}
    /\ probe = [p \in Prober \cup Request |-> "idle"]
    /\ mu = Nil /\ client = 1 /\ worker = 1
    /\ dep = [backend |-> "sqlite", gen |-> 1]
    /\ pod = [gen |-> 1, backend |-> "sqlite", ready |-> TRUE]
    /\ status = [gen |-> 1, complete |-> TRUE, failed |-> FALSE]
    /\ registered = {Store(pod)}
    /\ faults = 0
    /\ outcome = Nil

\* The lease in the parts it does not move in: taken as often as the bound allows.
Served ==
    /\ shard = [range |-> MaxRange, owner |-> CHOOSE h \in Host : TRUE]
    /\ pc = [h \in Host |-> "idle"]
    /\ seen = [h \in Host |-> Nil] /\ held = [h \in Host |-> Nil]
    /\ late = {}

MCInit ==
    /\ part \in ControlPart \cup {"events", "batch", "lease"}
    /\ IF part \in {"boot", "close"} THEN ControlInit ELSE Settled
    /\ HubInit
    /\ BatchInit
    /\ IF part = "lease" THEN Init ELSE Served
    /\ part \in {"boot", "close"} => dep.backend = "aerospike"
    /\ part # "batch" => demoWorker = 1

\* Faults without a Close are those of the part "boot".
FaultsFollowClose == part = "close" => faults' = faults \/ closed

ControlMoves ==
    \/ \E g \in Goroutine : GoroutineStep(g)
    \/ \E g \in Request, job \in Job :
          /\ part # "settled" => g = 1 /\ Target(job) # dep.backend
          /\ begin(g, job)
    \/ \E p \in Prober : part = "boot" /\ state(p)
    \/ \E p \in Prober \cup Request : Ready(p)
    \/ KubernetesStep \/ DeadlineExceeded \/ Reconnect
    \/ part = "close" /\ (Close \/ CloseRunner)

MCNext ==
    /\ UNCHANGED part
    /\ \/ part \in ControlPart /\ ControlMoves /\ FaultsFollowClose
          /\ UNCHANGED <<hubvars, batchvars, vars>>
       \/ part = "events" /\ HubNext /\ UNCHANGED <<cpvars, batchvars, vars>>
       \/ part = "batch" /\ BatchNext /\ UNCHANGED <<cpvars, hubvars, vars>>
       \/ part = "lease" /\ Next /\ UNCHANGED <<cpvars, hubvars, batchvars>>

\* Each part keeps the fairness of its specification: the rest is unchanged by
\* what moves in it, so the subscripts are those of the component.
InControl(A) == part \in ControlPart /\ A /\ FaultsFollowClose

MCFairness ==
    /\ \A g \in Goroutine : WF_cpvars(InControl(GoroutineStep(g)))
    /\ WF_cpvars(InControl(KubernetesStep)) /\ WF_cpvars(InControl(Reconnect))
    /\ \A t \in Tab : WF_hubvars(part = "events" /\ HandlerStep(t))
    /\ WF_batchvars(part = "batch" /\ BatchLoop)
    /\ \A i \in 1 .. Count : WF_batchvars(part = "batch" /\ RunStep(i))
    /\ \A h \in Host : WF_vars(part = "lease" /\ Retries(h))
    /\ SF_vars(part = "lease" /\ \E h \in Host : Acquires(h))

MCSpec == MCInit /\ [][MCNext]_mcvars /\ MCFairness
=============================================================================
