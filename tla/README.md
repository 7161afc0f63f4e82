# Verification of the Aerospike persistence store for Temporal

The repository is a Temporal persistence plugin that keeps shards, workflow
executions, history, task queues and metadata in Aerospike
(`src/store/aerospike`), and a small control plane that switches a demo cluster
between SQLite and Aerospike (`src/control`). This directory models both, as far
as their state depends on the order in which several actors' commands take
effect, checks the models with TLC, and proves the central properties with TLAPS.

## The system

A *history host* owns *shards*. Owning one means holding the current `range_id`
of the shard record. Every write to a workflow of the shard carries that range id
and must fail once another host has raised it. A workflow id has a *current*
record (a pointer to one run) and one *execution* record per run. Every write of
mutable state also writes history tasks and history events. The store does such a
write in one Aerospike multi-record transaction (MRT): conditions are checked by
reads, which the server verifies again at commit, and writes lock their records
until then. Other operations (shard updates, deletes, reads and completion of
tasks) are single commands, outside any transaction.

| Part | Source | State it changes | Modelled by |
|---|---|---|---|
| shard store | `shard_store.go` | shard record | `ShardLease` (and abstractly in the two below) |
| execution store | `execution_store.go` | current and execution records, tasks, events | `ExecutionRequests`, `ExecutionStore`, `ExecutionTxn` |
| history task queues | `tasks.go` 1-444 | task buckets and their index | `TaskKeys`, `HistoryTasks`, `HistoryTaskPages` |
| transactions, policies, errors | `client.go`, `errors.go`, `context.go` | - | `AerospikeMRT` (external), partly in the above |
| record keys | `keys.go` | - | record names in `ExecutionTxn`, `HistoryTasks` |
| mutable state layout | `mutable_state.go` | collections of an execution record | `MutableState` |
| history store | `history_store.go` | branch index, nodes, tree | `HistoryTree`, `Listings` |
| replication DLQ | `tasks.go` 446-735 | DLQ buckets and index | `ReplicationDLQ` |
| task queue store | `task_queue_store.go` 1-480 | queue lease, tasks and their index | `TaskQueues` |
| task queue user data | `task_queue_store.go` from 480 | user data, build-id index | `UserData` |
| namespace metadata | `metadata_store.go` | name, id and version records | `Namespaces`, `Listings` |
| cluster metadata, membership | `cluster_metadata_store.go` | cluster and member records | `ClusterMetadata`, `Listings` |
| queue v2 | `queue_v2_store.go` | queue records and messages | `QueueV2`, `Listings` |
| nexus endpoints | `nexus_endpoint_store.go` | table version, endpoints | `NexusEndpoints` |
| schema check | `schema.go` | schema stamp | `SchemaVersion` |
| control plane | `control/server.go`, `backend.go`, `workflow.go` | in-flight flag, worker, client, Deployment | `ControlPlane`, `BatchRuns` |
| event stream | `control/events.go` | subscribers and their channels | `EventHub` |
| record browser | `control/browser.go` | `Truncate` only | a step of `ControlPlane` |
| factory, config, binaries, web page, deployment, tests | the rest | nothing after start | not modelled |

`PROJECT.json` has the same list with the reason for each, the lines every
definition models, and the hazards of the code, line by line.

## Modules

**`ExecutionRequests`** - what the operations are given and the values they
store. A snapshot or mutation is abstracted to what some condition reads: run,
state, `DBRecordVersion`, `Condition`, next event id, last write version.
`ConditionHolds` is `assertExecutionCondition`, the case of version 0 included.

**`ExecutionStore`** - what the execution store promises: each operation takes
effect at one instant if all of its conditions hold then. One action per
operation and all modes: `CreateWorkflowExecution` (BrandNew, UpdateCurrent,
BypassCurrent), `UpdateWorkflowExecution`, `ConflictResolveWorkflowExecution`,
`SetWorkflowExecution`, the two deletes, and the shard's lease.

**`AerospikeMRT`** (external: the database, as the code uses it) - a transaction
has a set of records read, the subset that has changed since, and provisional
versions of what it wrote. A commit succeeds only if nothing read has changed.

**`ExecutionTxn`** - the same operations as the code runs them. Each is a program
of commands in the order of the source, starting with `assertShardOwnership`; a
thread executes one command per step, and any command may fail, which aborts the
transaction (`finish`). Hosts acquire and renew the shard between the steps. A
request may be issued any number of times, so retries and a request carried by a
host that has lost the shard are included. `Store == INSTANCE ExecutionStore WITH ...` is the refinement
mapping: the abstract variables are the committed records.

**`ShardLease`** - the lease in detail: `GetOrCreateShard` with its read,
`CREATE_ONLY` write and re-read after a lost race, and `UpdateShard` with its
condition and the read-back by `shardOwnershipLost`. A command may time out at
the client, whether or not it is applied, and may also be applied later; hosts
restart.

**`TaskKeys`** - `taskKeyCodec`: encoding, buckets, ranges of buckets. Pure
operators, with the big-endian width and base as constants.

**`HistoryTasks`** - one shard and category: bucket records, the bucket index,
transactions that add tasks, `CompleteHistoryTask` and `RangeCompleteHistoryTasks`
with `retireBucket`, command by command. **`HistoryTaskPages`** adds a reader:
`GetHistoryTasks` page by page beside all of these.

**`BucketPages`** - what the paged readers of bucketed records share: the entries
of a map in key order, filling a page, when a page token is returned.

**`ReplicationDLQ`** - the same layout without transactions: the two commands of a
put, either of which may be the last to happen, deletes in between, paged reads
and the emptiness check bucket by bucket.

**`TaskQueues`** - one matching queue, classic or fair: the lease
(`CreateTaskQueue`, `UpdateTaskQueue`, `DeleteTaskQueue`, with answers that get
lost), `CreateTasks` fenced by it, `GetTasks` page by page and
`CompleteTasksLessThan` bucket by bucket, with a limit.

**`UserData`** - batches of versioned user data, the build-id index they keep in
step, and the flags that tell the caller what became of each entry.

**`HistoryTree`** - a root branch and a fork: appends, deletion of nodes and of
branches (`historyNodeSortKey` decides what a range deletion covers), and
`ReadHistoryBranch` with its index read and its later reads of the payloads.

**`MutableState`** - the lists of bin operations that `snapshotOps` and
`mutationOps` build, what the server does with them, and the decoding. A chasm
node with one of its two blobs absent is packed with an empty value; that the
client hands this back as absent is assumed (external).

**`Namespaces`**, **`NexusEndpoints`**, **`ClusterMetadata`**, **`QueueV2`**,
**`SchemaVersion`** - one store each, with the reads that happen before a
transaction as steps of their own. The size that `ListQueues` reports of a queue
is added up with one command for each bucket, beside the producers and range
deletions. **`Listings`** has the administrative listings
(namespaces, clusters, members, branches, queues), which scan a set again for
every page.

**`ControlPlane`** - the operation in flight (`begin`, `runSwitch`, `runReset`),
the `ensureReady` goroutines, the readiness probes and the runner's mutex, beside
a Deployment that Kubernetes rolls and reports on late. **`EventHub`** and
**`BatchRuns`** are the event stream and the batch request.

**`Absent`** declares `Nil`. **`MC*`** modules instantiate all of these for TLC;
**`*Proofs`** modules hold the theorems.

### Transactions

`AerospikeMRT` and `ExecutionTxn` have transactions command by command, and the
refinement shows that each takes effect at one instant or not at all. The other
modules use that result: a transaction is a step that reads, a step that commits
if what it read is unchanged, and a step that fails. Where a transaction writes
blindly or locks what it reads, as in `HistoryTree`, it is one step. Commands
outside a transaction are always steps of their own.

### Assumptions on callers

The store relies on Temporal's history service for some facts. Each is a named
operator, kept apart from the definitions that model code:

| Operator | Says | Because |
|---|---|---|
| `BuiltFromLoaded`, `CallerBuilt` | a write of an existing run is built from the record its condition matches | the service loads mutable state before it mutates it |
| `IsClosed` | only closed runs are deleted | deletion happens after retention |
| `IsCurrent` (negated, in the delete) | the current run's record is deleted after its pointer | order of the service's delete stages |
| `MayUpdate`, `Release` | a host raises the range id it loaded by one, renews the one it owns, and gives the shard up on an error | the shard controller (external) |
| order of `OpReads` | whoever updates or renames a namespace has read the notification version before the namespace | Temporal's handler reads `GetMetadata` first |
| `IsMessage` | a range deletion of a queue ends at a message that was read | the DLQ commands take it from a page |
| `BranchRanges` | a branch is deleted with the nodes that no other branch of an earlier listing uses | Temporal's history manager |
| guards of `AppendHistoryNodes` | a first append registers the branch; branch ids are not used again | ids are unique |
| `AreNew`, `IsProcessed` | task ids are not below a completed range, and a range is completed after its tasks were written | ids come from the shard's sequence |

## Runs

Modules that share no record are checked in one run, one at a time: a variable
`part`, chosen in the initial state, says which of them moves. Their state spaces
add up and do not multiply.

| Run | Instance | Shows |
|---|---|---|
| `txn` | 2 hosts, 2 threads, 3 range ids, the requests of an active and of a replicating cluster | `ExecutionTxn` implements `ExecutionStore` (with zombies, bypass modes, conflict resolution, `Set`, concurrent deletes); nothing is written after a takeover; `ShardOwnershipLost` is only reported when true |
| `catalog` | `ExecutionStore`, `MutableState`, `Namespaces`, `UserData`, `NexusEndpoints`, `ClusterMetadata`, `SchemaVersion`; two clients of each | see below |
| `logs` | `HistoryTasks`, `TaskKeys`, `TaskQueues`, `QueueV2`, `ReplicationDLQ`, `HistoryTree`, `Listings`; two writers, or a writer and a reader | see below |
| `liveness` | `ShardLease` (2 hosts, time-outs, late commands, restarts), `ControlPlane`, `EventHub`, `BatchRuns`; fair | see below |
| `txn_commit_error` | as `txn` | *violation*, finding 1 |
| `keys_boundary` | upper ends with task id > 0 | *violation*, finding 2 |
| `tasks_retire` | completion of a part of a bucket | *violation*, finding 3 |
| `tasks_best_effort` | completion with failing commands | *violation*, finding 4 |
| `fair_order` | as `logs` | *violation*, finding 5 |
| `namespaces_rename` | as `catalog` | *violation*, finding 6 |
| `control_stale` | as `liveness` | *violation*, finding 7 |
| `batch_client` | as `liveness` | *violation*, finding 8 |

`catalog` shows that pointers and runs agree, one run at most is running and
state is backed by events and tasks; that a record reads back as written after
any snapshots and mutations; that namespace changes have unique versions and keep
names and ids together unless a delete was overtaken; that the build-id index and
the flags of a user-data batch are true; that a Nexus listing shows what its version promises; that no metadata edit is lost and live
hosts are listed; and that no build runs that the schema stamp does not admit.

`logs` shows that history tasks are neither lost, stray, repeated nor skipped,
wherever ranges end, but for those that meet the race of finding 3, and
that encoded key order is task order; that no former owner of a task queue adds
tasks, and that scans and completions are complete; that queue messages are never
overwritten or passed over, and that the count of a queue has all that were there
when it began and stay, and none but these and later ones; that an acknowledged dead letter
is listed, found, and keeps the queue from being called empty; that history nodes
are exactly those some branch needs and reads return all of them with their
events; and that every listing is complete while entries come and go.

`liveness` shows that a range id has one owner and that the shard has an owner
again and again; that a reset wipes the store only when nothing uses it; that after
a reported success Temporal serves the store asked for, with namespace and worker;
that every operation ends and the worker comes back after a failure; that no
channel is closed twice, a slow tab costs no other tab an event and streams end;
and that a batch accounts for every run and returns.

**Exceptions in properties.** Some properties name a race that the code leaves
open, by a history variable, and hold otherwise: `raced` (finding 3: tasks
committed to a bucket while it is being retired), `overtaken` (finding 6),
`recreated` and `dropped` (deleting a record starts its versions over),
`inPrune` (a heartbeat between a prune's scan and its deletion), `hraced` (the
tree changes between a caller's listing and its deletion).

**Bounds.** Two runs are the least for which a pointer can be wrong; conflict
resolution that concerns three runs is covered by the proofs, which hold for any
set of runs. Three range ids allow a takeover and a takeover back; in the passive
traffic of `txn` the one host takes the shard once, since takeovers meet the same
lease checks whatever is written. A call hands over at most two history tasks,
which may fall in one bucket or in two; ranges end on a bucket boundary and inside
a bucket. Snapshots and mutations of mutable state have two blobs, so that an item
can be overwritten by another. Two clients of
a record are enough for a conflict, because a transaction is invalidated by one
other. Buckets hold two entries, so that one can be half completed; pages hold one
or two, so that page ends fall inside buckets and between them. Versions stop
after two to four changes: enough for a stale reader, a change, and a change on
top of it. The control plane has two operations and one fault of a healthy system;
a third operation repeats the states of the second. Where the server is closed,
the fault comes after the `Close`; the part without a `Close` has the others. A subscriber's channel
holds two events of four. `Max...` constants are bounds of the models.

**Fairness.** The lease: hosts keep retrying (the shard controller does), so their
steps are weakly fair. The writes that create and acquire the shard are, taken
together, strongly fair: not every attempt of every host times out or is overtaken
for ever. Clients that time out every time would never own a shard, and the code
cannot prevent that. `SomebodyOwns` ends at `MaxRange`, where hosts stop raising
the range id. The control plane: Go runs
every goroutine, every call has a deadline, Kubernetes keeps rolling and gRPC
reconnects, so these are weakly fair. Requests, faults, browsers and `Close` are
not fair. The other runs check no liveness; `CHECK_DEADLOCK` is off where clients
may stop or a bound is reached.

**Mutants.** Each property of each passing run is shown to depend on the code:
`PROJECT.json` lists a mutated definition for it (a dropped condition, a byte
order, a write outside the transaction) under which TLC finds it violated.

## Findings

1. `classifyCommitError` (`execution_store.go:91`) answers
   `ConditionFailedError` when a commit fails because the lease moved on; the data
   model document says such an abort becomes `ShardOwnershipLostError`. Nothing
   is written, so only the answer differs.
2. `boundaryIsExclusiveStart` (`tasks.go:222`) looks only at the fire time. A
   scheduled range whose upper end is on a minute with a task id above 0 leaves
   out a bucket. The queues of Temporal pass task id 0, so they do not meet it.
3. `RangeCompleteHistoryTasks` (`tasks.go:401`) finds a bucket empty, and
   `retireBucket` deletes it by two later, unconditional commands. A task
   committed to the bucket in between is lost, or is no longer listed; in the second
   case the completion of its own range leaves it behind as well.
4. `retireBucket` is called best effort by its comment (`tasks.go:412`), but its
   error ends the range completion with buckets of the range untouched.
5. The fair store's buckets are chosen by the task id alone
   (`task_queue_store.go:79`), so its pages follow the buckets and not the order
   of passes that the codec's comment gives, and a scan leaves out lower buckets.
6. `DeleteNamespace` reads the name of an id (`metadata_store.go:278`) before its
   transaction and before the notification version. A rename that commits in
   between leaves the new name without an id record; the file says that all three
   records move together.
7. `StartWorker` (`workflow.go:265`) keeps a worker it finds. A readiness loop that
   is not held off by a switch can start one after the switch has stopped its own
   and before the pod goes: the switch then reports success with a worker built
   against the old pods, not one "rebuilt at the end". gRPC reconnects it, so
   `WorkerComesBack` and `SuccessServes` hold.

8. `RunBatch` (`workflow.go:115`) takes a client and drops it, and every run takes
   its own. A switch in the middle of a batch does not fail the remaining runs:
   those after its `StartWorker` complete against the new pods, and the answer
   names one store. The comment says "One client for the whole batch".

Finding 3 needs a range that ends inside a bucket, which is the normal case
for the newest bucket. The run `logs` has such ranges, and shows that tasks which
were not committed in that window are never lost and never left behind.

## Proofs

The theorems hold for any sets of hosts, threads, runs, requests, tasks, clients
and so on that satisfy the named `ASSUME`s of the modules: `Requests` is a set of
requests, bounds are naturals, and `Nil` is none of the values that a variable
holds where `Nil` means absence (`AbsenceAssumption` in `ExecutionTxn`,
`TasksAssumption`, `ClusterAssumption`, ...). TLC evaluates all of them.

| Theorem | Module | Property |
|---|---|---|
| `PointerTheorem`, `SingleRunningRun`, `BackedByWrites` | `ExecutionStoreProofs` | `PointerMatchesRun`, `RunningRunIsCurrent`, `StateIsBackedByWrites` |
| `VersionsTheorem` | `ExecutionStoreProofs` | versions move by one (action property) |
| `FenceInvariant`, `FencingTheorem`, `OwnershipLossTheorem` | `ExecutionTxnProofs` | `NoWriteAfterTakeover`, `OwnershipLossIsReal` |
| `RefinementTheorem` | `ExecutionRefinementProofs` | `ImplementsStore` |
| `ReachableTheorem`, `NoStrayTheorem` | `HistoryTasksProofs` | `OnlyRacedTasksAreLost`, `NoStrayTasks` |
| `LeaseTheorem`, `RangeTheorem` | `ClusterProofs` | `OneOwner`, range ids step up |
| `EditsTheorem`, `MembershipTheorem` | `ClusterProofs` | `NoEditIsLost`, `LiveHostsAreListed` |
| `NamespaceVersions`, `NamespaceAgreement` | `CatalogProofs` | `VersionsAreUnique`, `AgreeUnlessOvertaken` |
| `BuildIndexTheorem`, `FlagsTheorem` | `CatalogProofs` | `IndexInStep`, `FlagsAreTrue` |
| `SchemaTheorem` | `CatalogProofs` | `RunningBuildsAreAdmitted` |

**The atomic store.** `StoreInvariant` proves an inductive invariant of `TypeOK`,
`PointerMatchesRun`, `RunningRunIsCurrent` and `StateIsBackedByWrites`. None is
inductive alone: an update that moves the pointer keeps `RunningRunIsCurrent`
only because the pointer's state was the run's own. `VersionsTheorem` proves the
action property from `ConditionHolds`.

**The fence.** `FenceInvariant`: locks are exclusive and the shard record is never
locked; a transaction past its first command has the lease in its read set, and
unless that read is stale the lease is its own; no host holds a range id beyond
the lease. `FencingTheorem` follows: a commit verifies the read set, so a
committed write had the current range id.

**The refinement** is proved along three modules.
1. `ExecutionCommandsProofs`: the commands that each operation is compiled to are
   well formed. A put follows the check of its record, no record is put twice
   under conditions that can both hold, and a record already written is checked
   only for its absence.
2. `ExecutionProgressProofs`: `RInv`, the fence invariant and, for each thread, how
   far it has come. The conditions it has checked still hold unless the read has
   become stale. Its provisional versions are exactly those of the commands it has
   executed. What it adds to a bucket of tasks or events is the stored entries and
   its own, since nobody else can write a record it has locked. One lemma for each
   way in which a step changes the records or the transaction.
3. `ExecutionRefinementProofs`: at a successful commit every command has been
   executed and no read is stale, so every condition of the request holds in the
   committed records, and the records change by exactly what the atomic operation
   writes. One lemma for each operation matches the programs with the action of
   `ExecutionStore`; all other steps of a transaction leave the committed records
   alone, and leases and deletes are the abstract steps of their own.

The properties of `ExecutionStore` thus hold for the committed records of
`ExecutionTxn`, at any number of concurrent transactions.

**The history task queue.** `QInv` says what a writer's transaction holds
(`Adding`), that no two have written one record (`Locks`), what the records hold
(`Stored`) and how far a range completion has come (`Sweeping`). The two
properties need it because a bucket and its index entry are written by different
commands: a bucket that a transaction has written is listed in its version of the
index, or is the one it lists next; and whatever the bucket holds that
`retireBucket` is about to delete or to take off the index was committed since it
was found empty. That is the race of finding 3, and `raced` has exactly these
tasks, so the theorems need nothing of where ranges end. `NoStrayTasks` is about
the buckets that the code visits for a range; that these are all of them is
`RangeCovers` (finding 2). The one hypothesis, `OrderIsKept`, is that the server
orders the encoded keys of a scheduled category as `KeyLess` does.
`EncodingOrders` checks it in the run `logs`; it takes induction over the digits
of a number. For immediate categories it is not needed.

**Leases and cluster records.** `LeaseTheorem` strengthens `OneOwner` and
`OwnerIsNamed` with `Settled`: a command under way has a condition that is not
beyond the lease, raises the range id by one or keeps it, and keeps it only if its
sender is the owner. `EditsTheorem` rests on `MetadataInv`: a draft whose version
is the record's own is the record, as long as the record was not deleted.
`MembershipTheorem` rests on `PruneSaw`: what a prune has read of a host is its
last heartbeat, and it is about to delete lapsed hosts only.

**Catalog.** The inductive part for namespaces is `Progress`: what a client has
read is vouched for by the notification version it has read before, so an update
or a rename whose version still matches writes to the name that carries its id.
For user data it is `ReadsVouched`: a batch entry read at the version that is
still stored is what is stored, so the build ids it takes out of the index are
those the index has. For the schema stamp: the loser of the race to write it reads
it again only once it is there.

**Only model-checked.**
- Liveness (`SomebodyOwns` and the temporal properties of `liveness`): fairness and `ENABLED`
  are beyond the proof system.
- The complete scans (`ScanIsComplete`, `TaskScanIsComplete`, `DLQScanIsComplete`,
  `BranchReadIsComplete`, `ListingIsComplete`, `ListingShowsItsVersion`,
  `NothingBehindToken`): a page is a sorted sequence of a set, and what sorting
  returns takes induction over data. So do `EncodingOrders` and `RangeCovers` (digits) and
  `RecordReadsBack` (lists of operations).
- The remaining safety properties of task queues, queue v2, the DLQ, the history
  tree and the control plane have no proof yet.

## Not modelled

- `factory.go`, `config.go`, `unimplemented.go`, the binaries, the deployment
  files and the web page: construction, settings and presentation; nothing they
  hold changes after start.
- Reading for display in `browser.go`, and the wording, latencies and JSON of the
  control plane: they change no state.
- Serialisation of Temporal's blobs, time-out arithmetic and batch policies of
  `client.go`, and that key strings of different entities never collide
  (`keys.go`): records are named by their set and their identifiers.
- Damaged data: every record in the models was written by the store, so branches
  that skip an undecodable entry are never taken.
