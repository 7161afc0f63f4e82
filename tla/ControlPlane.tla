---------------------------- MODULE ControlPlane ----------------------------
(* The demo's control plane (control/server.go, workflow.go, backend.go and    *)
(* browser.go's Truncate): the one operation in flight, a backend switch or a  *)
(* reset, the ensureReady goroutines that run beside it, the readiness probes  *)
(* of /api/state, and the runner whose mutex guards the Temporal client and    *)
(* the demo worker.  Kubernetes is external: a Deployment with one replica and *)
(* the Recreate strategy, rolled by a controller that reports late.            *)
EXTENDS Absent, Naturals, FiniteSets

CONSTANTS MaxOperation, \* bound: the switches and resets begun
          Prober,       \* the requests of GET /api/state
          MaxFault      \* bound: the calls that fail while Temporal is healthy

ASSUME ControlAssumption == MaxOperation \in Nat /\ MaxFault \in Nat

Backend == {"sqlite", "aerospike"}
Job == Backend \cup {"reset"}
Request == 1 .. MaxOperation    \* the operations, in the order they began
Boot == 0                       \* the ensureReady that Server.Start launches
Goroutine == Request \cup {Boot}

VARIABLES switching,   \* Server.switching
          closed,      \* Server.closed
          closing,     \* Close has the runner still to reset
          proc,        \* the goroutine of each operation, then its ensureReady
          releasing,   \* operations whose deferred function is still to run
          probe,       \* what each state request has still to do
          mu,          \* the holder of WorkflowRunner.mu across steps
          client,      \* the pods the cached client is connected to; 0: nil
          worker,      \* the pods the worker was built against; 0: nil
          dep,         \* the Deployment's spec and its generation
          pod,         \* the one Temporal pod
          status,      \* the Deployment's status, as the controller last wrote it
          registered,  \* the stores that hold the demo namespace
          faults,      \* failures of a healthy system so far
          outcome      \* ghost: the job that succeeded last, if none began since

runnervars == <<mu, client, worker>>
kubevars == <<dep, pod, status>>
servervars == <<switching, closed, closing, releasing, probe, outcome>>
cpvars == <<servervars, proc, runnervars, kubevars, registered, faults>>

NoPod == [gen |-> 0, backend |-> "none", ready |-> FALSE]

\* A SQLite store lives and dies with its pod; the Aerospike one outlives it.
Store(p) == [backend |-> p.backend, gen |-> IF p.backend = "sqlite" THEN p.gen ELSE 0]
AerospikeStore == [backend |-> "aerospike", gen |-> 0]

ControlInit ==
    /\ switching = FALSE /\ closed = FALSE /\ closing = FALSE
    /\ proc = [g \in Goroutine |-> [at |-> IF g = Boot THEN "retry" ELSE "idle",
                                    keeper |-> g = Boot, job |-> "sqlite", gen |-> 0]]
    /\ releasing = {}
    /\ probe = [p \in Prober \cup Request |-> "idle"]
    /\ mu = Nil /\ client = 0 /\ worker = 0
    /\ \E b \in Backend : dep = [backend |-> b, gen |-> 1]
    /\ pod = NoPod
    /\ status = [gen |-> 0, complete |-> FALSE, failed |-> FALSE]
    /\ registered = {}
    /\ faults = 0
    /\ outcome = Nil

-----------------------------------------------------------------------------
(* Kubernetes and Temporal.                                                    *)

\* Recreate: the old pod goes before the new one is made.
PodMoves ==
    /\ \/ pod # NoPod /\ pod.gen # dep.gen /\ pod' = NoPod
       \/ pod = NoPod /\ pod' = [gen |-> dep.gen, backend |-> dep.backend, ready |-> FALSE]
       \/ pod.gen = dep.gen /\ ~pod.ready /\ pod' = [pod EXCEPT !.ready = TRUE]
    /\ UNCHANGED <<servervars, proc, runnervars, dep, status, registered, faults>>

\* The controller catches up with the spec and the pods.
StatusSync ==
    LET new == [gen |-> dep.gen, complete |-> pod.gen = dep.gen /\ pod.ready,
                failed |-> status.failed /\ status.gen = dep.gen
                           /\ ~(pod.gen = dep.gen /\ pod.ready)]
    IN /\ status # new
       /\ status' = new
       /\ UNCHANGED <<servervars, proc, runnervars, dep, pod, registered, faults>>

\* Kubernetes gives a rollout up: ProgressDeadlineExceeded.
DeadlineExceeded ==
    /\ faults < MaxFault /\ faults' = faults + 1
    /\ status.gen = dep.gen /\ ~status.complete /\ ~status.failed
    /\ status' = [status EXCEPT !.failed = TRUE]
    /\ UNCHANGED <<servervars, proc, runnervars, dep, pod, registered>>

\* gRPC finds the replaced pods again, eventually.
Reconnect ==
    /\ client # 0 /\ pod.ready /\ client # pod.gen
    /\ client' = pod.gen
    /\ UNCHANGED <<servervars, proc, mu, worker, kubevars, registered, faults>>

-----------------------------------------------------------------------------
(* The runner (workflow.go).                                                   *)

\* connectLocked: the cached client, or a dial that needs a serving pod.
connectLocked ==
    IF client # 0 THEN client' = client ELSE pod.ready /\ client' = pod.gen

Answers(c) == pod.ready /\ c = pod.gen

Goto(g, at) == proc' = [proc EXCEPT ![g].at = at]

\* Mutant: no ensureReady after a failure.
FailedSilently(g) ==
    IF proc[g].keeper
      THEN Goto(g, "retry") /\ UNCHANGED releasing
      ELSE Goto(g, "idle") /\ releasing' = releasing \cup {g}

\* ensureReady: a failed attempt is tried again after a delay, unless the server
\* closed.  begin: a failed operation launches an ensureReady of its own, then
\* runs its deferred function.
Failed(g) ==
    IF proc[g].keeper
      THEN Goto(g, "retry") /\ UNCHANGED releasing
      ELSE /\ proc' = [proc EXCEPT ![g].at = "retry", ![g].keeper = TRUE]
           /\ releasing' = releasing \cup {g}

ensureReady(g) ==
    /\ proc[g].at = "retry"
    /\ Goto(g, IF closed THEN "idle" ELSE "connect")
    /\ UNCHANGED <<servervars, runnervars, kubevars, registered, faults>>

\* A call to Temporal that is not answered, or one of the faults allowed.
Unanswered(answers) ==
    \/ ~answers /\ UNCHANGED faults
    \/ faults < MaxFault /\ faults' = faults + 1

\* EnsureNamespace, under the mutex throughout: connect, register, wait.
EnsureNamespace(g) ==
    /\ proc[g].at = "connect"
    /\ mu = Nil
    /\ connectLocked
    /\ mu' = g
    /\ Goto(g, "register")
    /\ UNCHANGED <<servervars, worker, kubevars, registered, faults>>

RegisterNamespace(g) ==
    /\ proc[g].at = "register"
    /\ Answers(client)
    /\ registered' = registered \cup {Store(pod)}
    /\ Goto(g, "visible")
    /\ UNCHANGED <<servervars, runnervars, kubevars, faults>>

waitForNamespace(g) ==
    /\ proc[g].at = "visible"
    /\ Answers(client)
    /\ Store(pod) \in registered
    /\ mu' = Nil
    /\ Goto(g, "start")
    /\ UNCHANGED <<servervars, client, worker, kubevars, registered, faults>>

EnsureNamespaceFails(g) ==
    /\ \/ proc[g].at = "connect" /\ mu = Nil /\ Unanswered(client # 0 \/ pod.ready)
       \/ proc[g].at = "register" /\ Unanswered(Answers(client))
       \/ proc[g].at = "visible" /\ Unanswered(Answers(client) /\ Store(pod) \in registered)
    /\ mu' = Nil
    /\ Failed(g)
    /\ UNCHANGED <<switching, closed, closing, probe, outcome,
                   client, worker, kubevars, registered>>

AfterStart(g) == IF proc[g].keeper THEN "idle" ELSE "warm"

\* StartWorker: nothing to do if there is one, else a new one on the client.
StartWorker(g) ==
    /\ proc[g].at = "start"
    /\ mu = Nil
    /\ \/ worker # 0 /\ UNCHANGED <<client, worker>>
       \/ worker = 0 /\ connectLocked /\ Answers(client') /\ worker' = client'
    /\ Goto(g, AfterStart(g))
    /\ UNCHANGED <<servervars, mu, kubevars, registered, faults>>

StartWorkerFails(g) ==
    /\ proc[g].at = "start"
    /\ mu = Nil
    /\ worker = 0
    /\ Unanswered(IF client = 0 THEN pod.ready ELSE Answers(client))
    /\ connectLocked \/ (client = 0 /\ UNCHANGED client)
    /\ Failed(g)
    /\ UNCHANGED <<switching, closed, closing, probe, outcome,
                   mu, worker, kubevars, registered>>

resetLocked == client' = 0 /\ worker' = 0

-----------------------------------------------------------------------------
(* One operation (server.go: begin, runSwitch, runReset; backend.go: Switch).  *)

Target(job) == IF job = "reset" THEN "sqlite" ELSE job

Begun(g) == proc[g].at # "idle" \/ proc[g].keeper \/ proc[g].gen # 0

\* begin: claim the flag and run the job in the background, or refuse.
begin(g, job) ==
    /\ g = Cardinality({h \in Request : Begun(h)}) + 1
    /\ ~switching
    /\ switching' = TRUE
    /\ outcome' = Nil
    /\ proc' = [proc EXCEPT ![g].at = "stop", ![g].job = job]
    /\ UNCHANGED <<closed, closing, releasing, probe, runnervars, kubevars,
                   registered, faults>>

StopWorker(g) ==
    /\ proc[g].at = "stop"
    /\ mu = Nil
    /\ resetLocked
    /\ Goto(g, "patch")
    /\ UNCHANGED <<servervars, mu, kubevars, registered, faults>>

\* Switch: patch the variable; a patch that changes nothing rolls nothing.
Patch(g) ==
    LET target == Target(proc[g].job)
        new == IF dep.backend = target THEN dep
               ELSE [backend |-> target, gen |-> dep.gen + 1]
    IN /\ proc[g].at = "patch"
       /\ dep' = new
       /\ proc' = [proc EXCEPT ![g].at = "wait", ![g].gen = new.gen]
       /\ UNCHANGED <<servervars, runnervars, pod, status, registered, faults>>

rolloutComplete == status.complete
rolloutFailure == status.failed

\* Mutant: the status may be about an earlier generation.
waitForAnyRollout(g) ==
    /\ proc[g].at = "wait"
    /\ rolloutComplete
    /\ Goto(g, "connect")
    /\ UNCHANGED <<servervars, runnervars, kubevars, registered, faults>>

\* Mutant: the namespace is not registered again.
waitForRolloutOnly(g) ==
    /\ proc[g].at = "wait"
    /\ status.gen >= proc[g].gen
    /\ rolloutComplete
    /\ Goto(g, "start")
    /\ UNCHANGED <<servervars, runnervars, kubevars, registered, faults>>

\* waitForRollout: the status must be about our patch before it counts.
waitForRollout(g) ==
    /\ proc[g].at = "wait"
    /\ status.gen >= proc[g].gen
    /\ rolloutComplete
    /\ Goto(g, "connect")
    /\ UNCHANGED <<servervars, runnervars, kubevars, registered, faults>>

\* A failed read or patch, a timeout, or a rollout Kubernetes has given up: the
\* condition is believed whichever generation it is about.
SwitchFails(g) ==
    /\ \/ proc[g].at \in {"patch", "wait"} /\ faults < MaxFault /\ faults' = faults + 1
       \/ /\ proc[g].at = "wait" /\ rolloutFailure /\ UNCHANGED faults
          /\ ~(status.gen >= proc[g].gen /\ rolloutComplete)
    /\ Failed(g)
    /\ UNCHANGED <<switching, closed, closing, probe, outcome,
                   runnervars, kubevars, registered>>

Succeeded(g) ==
    /\ Goto(g, "idle")
    /\ releasing' = releasing \cup {g}
    /\ outcome' = proc[g].job

\* The warm-up run: whatever becomes of it, the switch is done.
WarmUp(g) ==
    /\ proc[g].at = "warm"
    /\ IF proc[g].job = "reset"
         THEN Goto(g, "truncate") /\ UNCHANGED <<releasing, outcome>>
         ELSE Succeeded(g)
    /\ UNCHANGED <<switching, closed, closing, probe, runnervars, kubevars,
                   registered, faults>>

\* Truncate, set by set: a failure may come before or after the namespace's set.
Truncate(g) ==
    /\ proc[g].at = "truncate"
    /\ \/ /\ registered' = registered \ {AerospikeStore}
          /\ Succeeded(g)
          /\ UNCHANGED faults
       \/ /\ faults < MaxFault /\ faults' = faults + 1
          /\ registered' \in {registered, registered \ {AerospikeStore}}
          /\ Failed(g)
          /\ UNCHANGED outcome
    /\ UNCHANGED <<switching, closed, closing, probe, runnervars, kubevars>>

\* Mutant: the flag is not cleared.
ReleaseNothing(g) ==
    /\ g \in releasing
    /\ releasing' = releasing \ {g}
    /\ probe' = [probe EXCEPT ![g] = "ready"]
    /\ UNCHANGED <<switching, closed, closing, outcome, proc, runnervars, kubevars,
                   registered, faults>>

\* The deferred function: clear the flag, then publish the state.
ReleaseFlag(g) ==
    /\ g \in releasing
    /\ releasing' = releasing \ {g}
    /\ switching' = FALSE
    /\ probe' = [probe EXCEPT ![g] = "ready"]
    /\ UNCHANGED <<closed, closing, outcome, proc, runnervars, kubevars,
                   registered, faults>>

-----------------------------------------------------------------------------
(* The other requests.                                                         *)

\* state: the flag is read first, and decides whether Temporal is probed once the
\* Deployment has been read; the probe leaves its client behind.
state(p) ==
    /\ probe[p] = "idle" /\ p \in Prober /\ ~switching
    /\ probe' = [probe EXCEPT ![p] = "ready"]
    /\ UNCHANGED <<switching, closed, closing, releasing, outcome, proc, runnervars,
                   kubevars, registered, faults>>

Ready(p) ==
    /\ probe[p] = "ready"
    /\ mu = Nil
    /\ connectLocked \/ (client = 0 /\ UNCHANGED client)
    /\ probe' = [probe EXCEPT ![p] = "idle"]
    /\ UNCHANGED <<switching, closed, closing, releasing, outcome, proc, mu, worker,
                   kubevars, registered, faults>>

\* Close: the loops are told first, then the runner is reset under its mutex.
Close ==
    /\ ~closed /\ closed' = TRUE /\ closing' = TRUE
    /\ UNCHANGED <<switching, releasing, probe, outcome, proc, runnervars, kubevars,
                   registered, faults>>

CloseRunner ==
    /\ closing /\ mu = Nil
    /\ closing' = FALSE
    /\ resetLocked
    /\ UNCHANGED <<switching, closed, releasing, probe, outcome, proc, mu, kubevars,
                   registered, faults>>

-----------------------------------------------------------------------------
\* What a goroutine does next.
GoroutineStep(g) ==
    \/ ensureReady(g) \/ EnsureNamespace(g) \/ RegisterNamespace(g)
    \/ waitForNamespace(g) \/ EnsureNamespaceFails(g)
    \/ StartWorker(g) \/ StartWorkerFails(g)
    \/ StopWorker(g) \/ Patch(g) \/ waitForRollout(g) \/ SwitchFails(g)
    \/ WarmUp(g) \/ Truncate(g) \/ ReleaseFlag(g)

KubernetesStep == PodMoves \/ StatusSync

ControlNext ==
    \/ \E g \in Goroutine : GoroutineStep(g)
    \/ \E g \in Request, job \in Job : begin(g, job)
    \/ \E p \in Prober \cup Request : (state(p) \/ Ready(p))
    \/ KubernetesStep \/ DeadlineExceeded \/ Reconnect
    \/ Close \/ CloseRunner

ControlSpec == ControlInit /\ [][ControlNext]_cpvars

\* Go runs every goroutine; every call has a deadline; Kubernetes keeps rolling.
ControlFairness ==
    /\ \A g \in Goroutine : WF_cpvars(GoroutineStep(g))
    /\ WF_cpvars(KubernetesStep)
    /\ WF_cpvars(Reconnect)

ControlFairSpec == ControlSpec /\ ControlFairness

-----------------------------------------------------------------------------
\* While a reset wipes the Aerospike sets no Temporal pod has that store open,
\* and no other operation is about to start one: runReset moves Temporal to
\* SQLite and waits for that very rollout before Truncate (server.go:407-448).
WipedStoreIsIdle ==
    \A g \in Goroutine : proc[g].at = "truncate" =>
        pod.backend # "aerospike" /\ dep.backend = "sqlite"

\* Once an operation has reported success, and until the next begins or the
\* server closes, Temporal serves from the store asked for, that store holds the
\* demo namespace and a worker is up (runSwitch, server.go:334-405), whichever
\* ensureReady loops and probes ran beside it.
SuccessServes ==
    outcome # Nil /\ ~closed =>
        /\ pod.ready /\ pod.backend = Target(outcome)
        /\ Store(pod) \in registered
        /\ worker # 0

\* An operation ends: the flag begin claims is released on every path
\* (server.go:309-314), so the buttons come back.
OperationEnds == switching ~> ~switching

\* A failed operation costs the operation, not the demo (server.go:320-328): once
\* nothing is in flight there is a worker, or there will be one, or the server
\* closed.
WorkerComesBack == ~switching ~> (worker # 0 \/ switching \/ closed)

\* The worker an operation leaves behind is the one it rebuilt against the pods
\* it rolled out: "it comes down before the patch and is rebuilt at the end"
\* (server.go:341-344).
WorkerIsRebuilt == outcome # Nil /\ ~closed => worker = pod.gen
=============================================================================
