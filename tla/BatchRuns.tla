----------------------------- MODULE BatchRuns ------------------------------
(* POST /api/run-batch (control/server.go's handleRunBatch and workflow.go's   *)
(* RunBatch, Run and clientForRun): a loop launches runs under a semaphore,    *)
(* each run takes the client of the moment, and a switch may take the worker   *)
(* down and bring it up beside them.  The worker is the generation of pods it  *)
(* runs against, 0 when there is none.                                         *)
EXTENDS Naturals, FiniteSets

CONSTANTS Count,             \* the runs asked for
          BatchConcurrency,  \* the capacity of the semaphore
          ReportEvery,       \* completions between two progress events
          MaxPods            \* bound: generations of pods

ASSUME BatchAssumption ==
    /\ Count \in Nat /\ BatchConcurrency \in Nat \ {0} /\ ReportEvery \in Nat \ {0}
    /\ MaxPods \in Nat \ {0}

VARIABLES batchAt,       \* where the handler is
          run,           \* where each run is, and the client it holds
          sem,           \* slots of the semaphore taken
          ended,         \* the context of the request is done
          done, failed, lastReported,
          store,         \* the store of the first completed run; 0: none yet
          demoWorker,    \* the worker; 0: nil
          pods           \* the generation of pods

batchvars == <<batchAt, run, sem, ended, done, failed, lastReported, store,
               demoWorker, pods>>

Run == 1 .. Count
NotLaunched == [at |-> "no", client |-> 0]

BatchInit ==
    /\ batchAt = "new"
    /\ run = [i \in Run |-> NotLaunched]
    /\ sem = 0 /\ ended = FALSE
    /\ done = 0 /\ failed = 0 /\ lastReported = 0 /\ store = 0
    /\ pods = 1 /\ demoWorker \in {0, 1}

Launched == {i \in Run : run[i].at # "no"}
Landed == {i \in Run : run[i].at = "landed"}

\* The other side of the runner: StopWorker, then StartWorker against new pods.
WorkerMoves ==
    /\ \/ demoWorker # 0 /\ pods < MaxPods /\ demoWorker' = 0 /\ pods' = pods + 1
       \/ demoWorker = 0 /\ demoWorker' = pods /\ UNCHANGED pods
    /\ UNCHANGED <<batchAt, run, sem, ended, done, failed, lastReported, store>>

\* RunBatch looks for the worker once before it launches anything.
StartBatchRun ==
    /\ batchAt = "new"
    /\ batchAt' = IF demoWorker = 0 THEN "refused" ELSE "launching"
    /\ UNCHANGED <<run, sem, ended, done, failed, lastReported, store, demoWorker, pods>>

ContextEnds ==
    /\ batchAt # "new" /\ ~ended
    /\ ended' = TRUE
    /\ UNCHANGED <<batchAt, run, sem, done, failed, lastReported, store, demoWorker, pods>>

\* One turn of the loop: a slot of the semaphore or the end of the context,
\* whichever select takes.
LaunchRun ==
    /\ batchAt = "launching"
    /\ \/ /\ Launched # Run /\ sem < BatchConcurrency
          /\ sem' = sem + 1
          /\ run' = [run EXCEPT ![Cardinality(Launched) + 1].at = "launched"]
          /\ UNCHANGED batchAt
       \/ /\ ended \/ Launched = Run
          /\ batchAt' = "waiting"
          /\ UNCHANGED <<run, sem>>
    /\ UNCHANGED <<ended, done, failed, lastReported, store, demoWorker, pods>>

\* clientForRun, of each run: whatever worker there is by now.
clientForRun(i) ==
    /\ run[i].at = "launched"
    /\ run' = [run EXCEPT ![i] = [at |-> "running", client |-> demoWorker]]
    /\ UNCHANGED <<batchAt, sem, ended, done, failed, lastReported, store, demoWorker, pods>>

Completes(i) == run[i].client = demoWorker /\ run[i].client # 0 /\ ~ended

Report(total) ==
    lastReported' = IF total - lastReported < ReportEvery THEN lastReported ELSE total

\* Mutant: a failed run keeps its slot.
LandRunLeaking(i) ==
    /\ run[i].at = "running"
    /\ run' = [run EXCEPT ![i].at = "landed"]
    /\ \/ /\ Completes(i)
          /\ done' = done + 1 /\ UNCHANGED failed
          /\ sem' = sem - 1
          /\ store' = IF store = 0 THEN run[i].client ELSE store
       \/ failed' = failed + 1 /\ UNCHANGED <<done, store, sem>>
    /\ Report(done' + failed')
    /\ UNCHANGED <<batchAt, ended, demoWorker, pods>>

\* The end of one run: counted under the mutex, reported, its slot given back.
\* A run on a client that is gone fails; another may fail.
LandRun(i) ==
    /\ run[i].at = "running"
    /\ run' = [run EXCEPT ![i].at = "landed"]
    /\ sem' = sem - 1
    /\ \/ /\ Completes(i)
          /\ done' = done + 1 /\ UNCHANGED failed
          /\ store' = IF store = 0 THEN run[i].client ELSE store
       \/ failed' = failed + 1 /\ UNCHANGED <<done, store>>
    /\ Report(done' + failed')
    /\ UNCHANGED <<batchAt, ended, demoWorker, pods>>

\* wg.Wait, then the answer.
BatchReturns ==
    /\ batchAt = "waiting"
    /\ Launched = Landed
    /\ batchAt' = "returned"
    /\ UNCHANGED <<run, sem, ended, done, failed, lastReported, store, demoWorker, pods>>

RunStep(i) == clientForRun(i) \/ LandRun(i)
BatchLoop == LaunchRun \/ BatchReturns

BatchNext ==
    \/ StartBatchRun \/ BatchLoop \/ ContextEnds \/ WorkerMoves
    \/ \E i \in Run : RunStep(i)

BatchSpec == BatchInit /\ [][BatchNext]_batchvars

\* Go runs the loop and every run's goroutine; a run has a deadline.
BatchFairSpec ==
    BatchSpec /\ WF_batchvars(BatchLoop) /\ \A i \in Run : WF_batchvars(RunStep(i))

-----------------------------------------------------------------------------
\* A batch that was started returns: every run gives its slot of the semaphore
\* back, failed or not, so the loop is never left waiting for one
\* (workflow.go:132-151).  Its answer accounts for every run, however the runs
\* land and whatever a switch does meanwhile: completed and failed add up to the
\* runs launched, to all of those asked for unless the request's context ended,
\* and the last progress event is less than one step behind them
\* (workflow.go:107-188, server.go:497-511).
BatchComesBack ==
    batchAt = "launching" ~>
        /\ batchAt = "returned"
        /\ done + failed = Cardinality(Launched)
        /\ ~ended => done + failed = Count
        /\ done + failed - lastReported < ReportEvery
        /\ (store = 0) = (done = 0)

\* The runs of a batch all use one client: "One client for the whole batch.
\* Taking it once also means a switch that tears the worker down mid-batch fails
\* the remaining runs cleanly" (workflow.go:112-114).
OneClientPerBatch ==
    \A i, j \in Run : 0 \notin {run[i].client, run[j].client} =>
        run[i].client = run[j].client
=============================================================================
