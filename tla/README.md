# A verification project for SpecStyle

SpecStyle turns a style specification and one source image into a set of
images, checks what it has generated, repairs it within a budget, and publishes
the decided result as a bundle. This directory holds TLA+ models of the parts
of `src/src/specstyle` that keep state, the TLC configurations that check them,
and proofs that TLAPS checks. Source paths below are relative to
`src/src/specstyle` unless they start with `src/`.

Contents: [the system](#1-the-system), [modules](#2-modules-and-the-code),
[runs](#3-runs), [bounds](#4-bounds), [fairness](#5-fairness),
[proofs](#6-proofs), [findings](#7-findings),
[not modelled](#8-simplifications-and-what-is-not-modelled), [plan](#9-plan).

## 1. The system

### Components, their state and their operations

| Component | State | Operations | What makes it correct |
|---|---|---|---|
| **Job transaction**: `workflow/_job_store_transaction.py`, `_job_store_fs.py` | one directory per job: `snapshot.json`, `events.ndjson`, the state marker, and a swap slot beside each | `genesis`, `commit`, `read`, the bootstrap of a directory without a marker | an acknowledged call survives a power loss; an interrupted one leaves the old value, the new one, or an unreadable job, never a mixture |
| **Job event log**: `workflow/state_machine.py`, `job_models.py` | the status, attempts, bundles and last event of a job, derived by replay | `validate_transition`, `replay_events` | what is accepted can always be replayed; a terminal job stays so |
| **Job store**: `workflow/job_store.py`, `_job_store_codec.py` | a lock per job, leases of running operations, the namespace shared by stores of one root | `save_snapshot`, `append_event`, `load`, `get_snapshot`, `list_job_ids`, `close` | calls with stale states, and clocks that run back, cannot damage a job; a listing is true of one moment; `close` waits for leases |
| **Export lifecycle**: `workflow/production_export_lifecycle.py` | a holder per job: operation lock, job lock, phase `UNKNOWN`/`STAGING`/`PUBLISHED` (in memory) | `publish_export`, `recover_exports`, and the part of `cancel` that asks the holder | a job is exported or cancelled, never both; a completed job has its bundle; recovery settles an interrupted export |
| **Bundle publication**: `exporting/bundle.py` | a staging tree, the bundle's name in the target directory, a lock per name | stage, seal, commit (exclusive rename, fsync, read back), inspect an existing bundle | publication is all or nothing, never replaces a bundle, and reports success of exactly its own documents |
| **Production runtime**: `workflow/production_service.py` | readiness, closed flag, active job with its cancellation event and reason, run lock, pipeline, the GPU lease, the attempt's repositories | opening, `run`, `publish_export`, `recover_exports`, `cancel`, `reopen`, `close` | one operation at a time owns the runtime; cancellation and close reach it; nothing is left open or stranded; the log rests on what is stored |
| **Fake orchestrator**: `workflow/orchestrator.py` | the cursor of a call over the job store | `run_fake_job` | no stage repeated, no completion without bundle, restartable |
| **Production repair**: `workflow/production_repair.py`, `repair/` | a history of rounds | `next_repair_step`, `consume_repair_result`, guardrails, conflict resolution | ends within its rounds and its patience, never repeats a round, serves every caller that keeps to its protocol |
| **Verification**: `verification/` | what a verifier is bound to, its cache of evidence | rule evaluation and its routing to APPROVED / MANUAL_REVIEW / REJECTED / repair | no approval over a failed or missing rule, or after what it is bound to was changed |
| **Inputs and repositories**: `workflow/_production_input_cas.py`, `production_job_input.py`, `production_artifacts.py`, `production_reports.py` | content-addressed files; pairs of content and metadata | store, put, load | what is found under a name is whole, durable and stays |
| **Batches**: `workflow/production_batch*.py`, `batch_runner.py` | a journal of six phases | reserve, run, publish | one result per batch, the one its journal recorded, across deaths and competitors |
| **Preview**: `workflow/preview_*.py` | private records, displayed pictures, manifests of walls | run one, run a wall, reconcile | no picture without a record; a manifest tells the truth |
| **GPU lane**: `generation/gpu_runtime_lane.py` | a process-wide lane | acquire, release | one GPU user at a time; no lane lost on an error |
| **Generation**: `generation/` | a loaded pipeline; a pinned Preview adapter | load, generate, close, admit | cancellation between steps, quarantine after out-of-memory, only pinned weights |
| **Specification**: `spec/` | none | load, migrate, compile, replay | compilation is deterministic, migrations compose |
| **Calibration**: `calibration/` | a workspace of documents | prepare, reveal, validate | a threshold is frozen before the sealed test set is seen, and bound only when it earned it |
| **Evaluation**: `evaluation/` | evidence files | arms, blind assignment, stop, statistics | pure functions over finished ratings |
| **Production context**: `production/` | `context.json` and the evidence it names; the issued configuration | load, check at three gates | one version of the document, VALIDATED only where it is earned |
| **Context migration**: `deployment/context_migration.py` | `context.json`, backup, staging, records | prepare, migrate, roll back, recover | all or nothing, with an audit trail that is true |
| **Adapter installer**: `src/deployment/amd/scripts/install_preview_adapter.py` | weight, configuration | install | what is served is what was pinned; PASS means installed |
| **User interface**: `ui/` | one active invocation, the session's baseline | run, batch, replay, cancel, status | what it shows agrees with the store; cancels reach an open execution |
| **Support**: `observability/`, `reliability/`, `security/`, `domain/` | none to speak of | hashes, logs, value types | |

### How they interact

The user interface and the command line call `run_one`, which takes the **GPU
lane**, opens one `ProductionRuntime` and closes it before the lane is given
back; the Preview takes the same lane for a session of its own. Opening a
runtime takes the pipeline under the **GPU lease**, then a compiler context from
the caller's factory (which the **production context** gates), a verifier factory
and the descriptors of the stores.

Each public call of the runtime takes the **state lock** for a moment and, for
work, the **run lock** until it has finished. A run records every stage as an
event through the **job store**, which holds the **job lock** of one job while it
decodes, validates and commits; the commit is the marker protocol of the **job
transaction**. An attempt generates, puts the image into the **artifact store**,
reads it back, records it, has it judged by the **bound verifier**, puts the
report into its store, and asks the **repair loop** what follows. `cancel` does not
wait for the run lock: it appends `CANCEL_REQUESTED` under the job lock and then
tells the run through an event and a reason, which the run reads at its
checkpoints. An **export** takes the run lock, an operation lock of its own and
twice the job lock: once to record `EXPORT_STARTED`, then, after staging the
**bundle** without it, to check the job again, rename the bundle and record
`EXPORT_PUBLISHED`. What it has done so far is in the holder's phase, in memory
only; after a restart `recover_exports` finds it out from the bundle directory.
`close` marks the runtime closed, cancels the active job, waits for the run
lock, looks at the job again and closes the pipeline.

Offline, a **formal study** earns the thresholds, **context migrations** carry them
into `context.json`, and an installer puts the Preview adapter where its
pinned manifest expects it.

### What is hard

* **Crashes and power loss** between any two file-system steps: of a commit, of a
  bundle and its event, of an artifact and its metadata, of a picture and its
  record, of a context and its audit trail; and the retry of what has happened.
* **Interleavings**: cancel and close against a run between two checkpoints, an
  export while it stages, a reopening that is loading a pipeline; threads with
  states loaded before the other's append; two exporters, installers, migrations
  or batch runs of one name.
* **State that is stale when used**: a document rewritten between two reads of it, a
  configuration changed after it was checked, a verifier's rules changed while
  it judges.
* **Partial failure**: an event whose recording failed but landed, an fsync that
  fails after the marker was exchanged, an uncertain rename, an opening of which
  one step fails.
* **Deadlock and progress**: run lock, job lock, operation lock, lane, lease, the
  leases of the store, the wait for the first closer.

`PROJECT.json` lists these hazards at their lines, with the properties that would
show them going wrong, or the reason why none does. Hazards of the code beyond
that list:

* `production_export_lifecycle.py:398`: `recover_exports` works through all jobs in
  one generator, so the first job that raises hides those after it at every
  restart. The models have one job per recovery.
* `exporting/bundle.py:362`: a bundle of somebody else under a job's name leaves the
  job EXPORTING, neither completable nor cancellable once its phase is lost.
  `RecoveryConverges` excludes it (`bundle = "foreign"`).
* `workflow/production_service.py:152`: the audit clock keeps its last reading without
  a lock. `JobEventLog` lets every clock run back and shows that the store then
  refuses rather than stores.
* `workflow/production_artifacts.py:621`: a process that dies between the creation of a
  temporary file and its link leaves a name that makes every later put and read
  of the directory fail; `CorruptedHasACause` in `PairStore` counts a death as a cause.
* `workflow/job_store.py:379`: see the disagreements in section 7.

## 2. Modules and the code

Every component is a module of its own. The `MC...` modules put several of them
side by side for TLC (section 3).

```
CommitRegister  <--refines--  JobTransaction                    (+ JobStore_proofs)
      :  used as
JobLifecycle <-- JobEventLog        JobStoreNamespace           (MCJobStore; + JobStore_proofs)
      ^-- ProductionExport --refines--> ExportOutcome
      :     BundlePublication  PairStore  InputCas              (MCPublication;
      :                                  + Publication_proofs)
      ^-- ProductionRuntime  RuntimeOpening                     (MCProductionRuntime;
      :                                  + ProductionRuntime_proofs)
      ^-- FakeOrchestrator  AttemptPipeline  RepairLoop         (MCGeneration, MCRepairPlans;
                                         + Orchestration_proofs, AttemptPipeline_proofs)
ProductionUi  PreviewWall  ProductionBatch                      (MCInterface;
                                                                 + Interface_proofs)
ContextMigration  AdapterInstall                                (MCSupply;
                                                                 + OperatorTools_proofs)
ProductionContext  BoundVerifier                                (MCJudgement;
                                                                 + Judgement_proofs)
FormalStudy                                                     (MCFormalStudy;
                                                                 + OperatorTools_proofs)
liveness of eight of them                                       (MCProgress)
```

Each layer uses the layer below as its specification describes it, so that no
module carries the steps of two. `JobTransaction` shows that a job directory is the
register of `CommitRegister`; the modules above therefore have one status per job
and a recording that lands, fails, or fails and lands all the same.
`ProductionExport` shows that the lifecycle of one job is `ExportOutcome`;
`ProductionRuntime` has an export in two steps around staging. `AttemptPipeline`
uses the stores as `PairStore` describes them, a verifier as `BoundVerifier` does, and
the outcome of `RepairLoop`.

### The job store

**JobTransaction** is `_job_store_transaction.py` one file-system step at a time.
`live` and `disk` say which of two inodes each final name holds now and after a
power loss; `data` has their bytes; the slot is the inode the name does not
hold. `Create` and `Commit` are what the calls of `job_store.py` begin with;
`OpenOrCreateDirectory`, `GenesisWrite`, `GenesisRename`, `GenesisSync` are
`genesis`; `BootWrite`, `BootRename`, `BootSync` are `_bootstrap`; `PendingWrite`,
`PendingSwap`, `PendingSync`, `StateWrite`, `StateSwap`, `StateDone`, `StateSync`,
`CleanWrite`, `CleanSwap`, `CleanSync`, `CleanResync` are `_commit_clean` and
`_publish_clean` with its compensation. `Read` is `read`: what the marker
vouches for. Any step may fail; a rename may report failure and have happened;
a write that fails leaves its slot torn; the process may die; `PowerLoss` sets
`live` to `disk`, and `WriteBack` is the file system writing a name back by itself.

**JobEventLog** is a job as threads see it: `load` remembers a state, `Report`
composes an event from a remembered state, with any clock reading and name, and
`append_event` and `save_snapshot` decode, validate against what is stored *now*
and commit. `replay_events` and `Validated` are the folds of the code.

**JobStoreNamespace** is what surrounds those calls: the lease (`Lease`, `Leave`), the
lock of a job, the opening and binding of the jobs directory, the announcement of
a mutation, and `list_job_ids`, which reads the names, validates each, and accepts
only when no mutation is under way and the epoch is the one it began with. A job
directory is empty when it is made (`MakeJobDir`), holds only slots once a first commit has
begun to write, then a job, and may become unreadable (`Leftovers` is what a failing commit
leaves). A load finds no job in the first two; a listing passes over the second only and
takes the first for damage (`Corrupt`).

### Publication

**ProductionExport** has `op`, the next step of the running operation: `BeginPublish`
or `RecoverLoad` and `Inspect`, then `Stage`, `CommitLoad`, `Rename`, `Sync`,
`AppendPublished`. `Cancel` is `_cancel_durable` against the holder's phase;
`Locked` names the steps under the job lock, during which no cancellation comes.
`DropHolder` is the weak reference to an unused holder going away; `TakeName` is
somebody else's bundle under this name.

**BundlePublication** goes into what is one step there: the documents of a staging
tree, their readback, the sealed snapshot and the checks against it, the
exclusive rename, the fsync, and what a thread does that finds the name taken
(`_converge_existing_locked`) or inspects a bundle. Another program may write to a
tree at any moment; the code detects this by snapshots, which the model keeps
as the number of changes. `takenBack` remembers, for the properties alone, which threads had
succeeded with a bundle whose unsynced name a power loss took.

**PairStore** is one directory of the artifact or the report store: scan, recovery of
an alias, write, fsync, link, unlink, fsync, for content and then metadata.
`sure` and `maybe` are the names a power loss must and may leave.

**InputCas** is `store_style`: the nameless file, the fsync, the link by descriptor or by
`/proc/self/fd`, and the reconciliation with a name that is taken.

### The runtime

**ProductionRuntime** has a program counter per caller. Each hold of the state
lock is an action, and so is each hold of a job lock: `StartRun` is `_start_run`,
`RunStep` is a step of `_run_prepared_attempt` and the phases it calls behind
`Checkpoint` (`checked` keeps the two apart, so that anything may happen between
them), `RecordFatal` is `_record_fatal`, `LeaveUnrendered` the error of the image library
that no phase catches (section 7), `FinishRun` is `_finish_run` in its two
statements; `StartCancel`, `CancelJob`, `Signal` are `cancel`; `StartReopen`,
`LoadPipeline`, `Install`, `FinishReopen` are `reopen`; `StartClose`, `CloseWait`,
`ClosePeek`, `CloseCancel`, `CloseSignal`, `CloseLock`, `CloseAgain`, `CloseResources`
are `close`, `_request_close_cancel` and what follows.

**RuntimeOpening** is `open_production_runtime`, `load_production_compiler_context` and
the close of what they made: the loads of the pipeline under the lease, the
caller's factory, the match of context and pipeline, the verifier factory, the
stores, and the undoing of all of it in `UndoLoad` and `Cleanup`.

### Generation and repair

**FakeOrchestrator** has `run_fake_job` called by threads for one job: `InitJob` and
`Load` are `_load_or_init`, `Append` is `_append` of each stage's event in the order
of `After`, `TryFatal` is `_try_fatal`. A plan has exactly one item
(orchestrator.py:119), so one pass is the whole loop.

**AttemptPipeline** is one production run from the inside: checkpoint, repositories,
`Denoise` with the callback that looks for the cancellation between two steps,
`PutArtifact`, `ReadBack`, `FinishAttempt`, `Verify`, `PutReport`, `ReadReport`,
`RecordDecision`, one repair, and the unwinding of handlers that close what they
own. The process may die anywhere, and the job is then looked at as it was left.

**RepairLoop** is the pure core: `DecideArtifact` routes a report
(`verification/routing.py`), `SelectRepair` picks one action (order of rules, conflicts,
guardrails), `NextStep` and `Observe` are `next_repair_step` and `consume_repair_result`,
and `Replays` is the replay that the constructor of a history performs. The caller is part of the model: it may
reuse identifiers, repeat commands, or report about something else.

### What a user starts

**ProductionUi** has callers of run, batch and replay, one canceller, and one reader of
the status, over `run_one.py` and the lane: `Glance`, `ReadStatus`, `Show` and `ShowLatest`
are `get_job_status` in any phase, `CanCancel` its offer; `Reserve` to `Release` are an invocation,
`CloseResources` and `Closed` the order in which an execution ends, `CancelJob`,
`CancelExecution`, `CancelDurably` what a cancel does where it arrives.

**PreviewWall** has calls for a wall and for one picture: stage, lane, session, then for
each item the private record, the staged picture, its rename and fsync; the manifest;
and the reconciliation of a process that starts.

**ProductionBatch** has runs that take one batch through six phases of its journal:
`OpenDirectory` to `VerifyRecord` are `_record_open` for a phase, `Build`, `Verify`,
`StageExport`, `Commit` what happens between them.

### Supply and judgement

**ContextMigration** is `run_migration` for both plans: `Writing` is `_write_once` in its
five steps (used for backup, PREPARED and COMMITTED), `Publish` and `Restore` the
replacement and its rollback, `Recover` and `Replay` `_recover_commit`, and `Edit` an
operator who writes `context.json`.

**AdapterInstall** is the installer, several at once, and the reader that lists, hashes
and admits the adapter.

**FormalStudy** has the commands `prepare`, `reveal` and `validate` as processes that read
document after document (`Read`) and create, then fill, their output, with
`SelectThreshold` over grids of scores. A digest is the document it is of.

**ProductionContext** has the loader that reads `context.json` twice with the evidence in
between (`OpenContext` to `IssueConfig`), and the three gates that look at the
configuration again (`Gate`, `Factory`, `Build`).

**BoundVerifier** has one action per call the verifier makes to code that is not its
own (`ResolveArtifact`, `ResolveStyle`, `Encode`, ...), each with what that code may
change meanwhile and the checkpoint after it, and one per kind of judgement. Results
are kept by the place of their rule in the plan.

`PROJECT.json` maps every definition that models code to its lines. Definitions
marked `\* mutant` in a module are plausible wrong versions of the definition
that follows; no specification uses them. Each shows that the property it is
listed with can fail.

## 3. Runs

The parts of a composite module share no variable, because the modules use one
another only by what the lower promises (section 2), and what remains of their
interaction is inside one of them: the lane of the GPU is held by a preview in
`ProductionUi` and by another call in `PreviewWall`; a cancellation is a step of
`ProductionExport` and of `AttemptPipeline`. An interleaving of two such parts
shows nothing that the parts alone do not, so a behaviour of a composite chooses
one part (`part`), takes its steps, and leaves the others where they began. A
property of a composite is the conjunction of what its parts promise; a part that
does not move satisfies its share in its initial state. Where a composite extends
the modules of its parts (their names are chosen so that they go together), a run
checks the very definition that a theorem of section 6 states.

| Run | States (about) | Properties |
|---|---|---|
| `job_store` | 114 K | `TypeOK`, `DurableOnceAcknowledged`, `NeverOlderThanAcknowledged`, `ImplementsRegister`, `LogIsSound`, `NothingGoesBack`, `NamespaceIsSound` |
| `publication` | 806 K | `CancelledIsUnpublished`, `CompletedIsPublished`, `ImplementsOutcome`, `BundleIsWhole`, `StyleIsDurable`, `PairIsDurable` |
| `production_runtime` | 696 K | `OwnsRuntime`, `PipelineUsable`, `ClosedForGood`, `NoJobIsLeft`, `OpeningIsSound`, `ResultNeverCancelled` |
| `generation` | 49 K | `GeneratesOnce`, `CompletedHasBundle`, `LogRestsOnStores`, `RunEndsClean`, `RepairIsServed`, `StopIsTrue` |
| `interface` | 3.3 M | `ShownIsTrue`, `CancelIsServed`, `PreviewIsTrue`, `BatchIsOne` |
| `supply` | 151 K | `MigrationIsAudited`, `AdapterIsPinned` |
| `judgement` | 155 K | `LabelIsEarned`, `ProductionIsOneVersion`, `VerdictIsTrue` |
| `calibration` | 552 K | `BindingIsEarnedOnce`, `BlockedStays` |
| `progress` | 39 K | `CallsReturn`, `RecoveryConverges`, `RunsEnd`, `SupplyConverges` (liveness) |
| `job_directory_entry` | violation | `DurableOnceAcknowledged` without `MkdirDurable` |
| `production_export_unsynced` | violation | `CompletedIsPublished` without `RenameDurable` |
| `fake_orchestrator_restart` | violation | `RestartIsIdempotent` |

What the properties say, beyond their names:

* `ImplementsRegister`: a job directory is a register whose write is atomic or leaves
  it unreadable. `NothingGoesBack`: what its readers see does not, and no call begins
  from something older than an earlier one. `LogIsSound`: the stored log replays, an
  ended job and a snapshot never go back. `NamespaceIsSound`: a listing is the set of
  stored jobs at one moment between its begin and its end, and it calls the store corrupted
  only when a job of it is unreadable or its directory was left empty by a first commit that
  failed.
* `BundleIsWhole`: what bears the name is the whole tree of one thread; success means
  exactly one's own documents, and the same ones for all that succeeded with what is
  still there; no lock or descriptor stays behind.
  `PairIsDurable`: metadata is never without content, and a pair that was stored
  stays through crashes and power losses. `StyleIsDurable`: nothing has the digest's
  name before it is durable, and publishers left alone all succeed.
* `NoJobIsLeft`: a close settles the job it interrupts, and no job is stranded in a
  status from which nothing goes on, unless a call of a store has failed for it or its
  image could not be rendered, which is described in section 7.
  `OpeningIsSound`: an opening takes everything or nothing, however it fails.
* `LogRestsOnStores`: an attempt that finished has its artifact stored, a decision has
  its report, at every point a process can die. `RepairIsServed`: a caller that keeps
  to the protocol is never refused, whatever it was told before.
* `ShownIsTrue`: what the interface keeps showing agrees with the store; the GPU
  belongs to the open execution until it is closed. `CancelIsServed`: a cancel accepted
  before there is an execution prevents its job, and whenever a cancel is offered the
  execution is open, or there is none yet and the job is not in the store. `BatchIsOne`: a batch has one
  result, the one its journal tells, approved by both reports.
* `MigrationIsAudited`: what is published has its backup and PREPARED record, a
  recorded or reported commit is true, an edit of somebody else is not overwritten.
  `AdapterIsPinned`: what Preview serves is what was pinned, also while it is replaced.
* `LabelIsEarned`: production judges by a metric only on evidence for its own target.
  `VerdictIsTrue`: results are true of the stored artifact and worked out while nothing
  the verifier is bound to was changed; PASS is proven.
* `BindingIsEarnedOnce`: a threshold was frozen before the test set was looked at,
  and is the strictest that meets the targets.

## 4. Bounds

* **JobTransaction**: `MaxGeneration = 3`, `MaxCalls = 6`. Six calls are a creation with
  its retry, a commit acknowledged, one that is interrupted anywhere, one that works
  on what it left, and one that works on what that left; a fault is possible at every
  step of each, without a limit on faults. Three generations show a slot with a
  marker two generations old, and generation 3 is where a further commit is refused.
* **JobEventLog**: two threads, two hashes, two names, two clock readings, six events:
  the shortest log that reaches COMPLETED (by way of a recoverable error), a second
  attempt, and a repair.
* **JobStoreNamespace**: two threads, one store, two jobs, two commits: a lister beside a
  writer, or a closer beside either.
* **ProductionExport**: one job, since holders of different jobs share nothing; four
  faults, so that a recovery of a recovery of a recovery is interrupted.
* **BundlePublication**, **InputCas**: two threads, two failures (`MaxBundleFaults`,
  `MaxCasFaults`), one act of another program (`MaxTampering`; `MaxBadFiles`, `MaxSwaps`):
  a retry after a failed retry. A third thread of `BundlePublication` begins where a power
  loss took back what another had found (`BundleBound`): one that renamed and did not sync,
  one that found its bundle, and one that gives the name away anew.
  **PairStore**: two threads, two documents, one failure (`MaxPairFaults`).
* **ProductionRuntime**: three callers, so that a run, its canceller and a closer meet, or
  a run and two closers; two jobs, so that a call may be about another job than the
  active one; a second pipeline, so that a reopening can race a close; one failed
  recording. **RuntimeOpening**: two openers, two encoders, three failures, so that
  the cleanup of a failed opening fails too.
* **FakeOrchestrator**: two threads, two failures, two stops of the process.
  **AttemptPipeline**: two runs of one job, an attempt and its repair, three
  failures, four denoising steps.
* **RepairLoop**: three plans (two rules that pull against each other; an L1 rule before
  an L2 rule; a required rule nothing can repair), one or two rounds, patience one
  or two, two starts, in `MCRepairPlans`.
* **ProductionUi**: two callers, two invocations, batches of two, three jobs (`MaxJobs`).
  `ReadBound`: nobody asks for the status while a preview run has the GPU; the two meet in
  no variable but the phase of an invocation that waits.
  **PreviewWall**: one wall of two and one single preview, one death, power loss or
  second process. `CrashBound`: a behaviour with one of these has no other of them
  and makes no call for one picture.
  **ProductionBatch**: two runs, two cohorts, one member that passes, one failure, one power
  loss.
* **ContextMigration**: two processes, both plans, one failure. `MigrationBound`: a kill or
  a power loss, and a power loss only where nobody edited the context; beyond
  that the migrations do not keep their promises (section 7).
  **AdapterInstall**: two installers, one each of kill (`MaxKills`), power cut, failing call
  (a download, write, fsync or rename) and failed unlink.
* **ProductionContext**: two target cells, three metrics, four first documents.
  `ContextBound`: one edit or one failed call, with a change of the memory, or two
  changes. **BoundVerifier**: seven plans, twenty-seven artifacts, three
  references of which two are one image, two changes.
* **FormalStudy**: two processes, three commands, two samples in each split, scores 1 and
  2. `MCInit` fixes one score of the test set, and `MCNext` allows either edits with
  one command at a time, or a kill with two.
* **progress** uses smaller bounds (its module lists them): liveness costs TLC a graph
  search per property, and no symmetry. Two threads where they wait for each other,
  one where they do not; one round of each kind of fault. `NobodyReads`: the status of an
  invocation is not read, which delays nobody: the reader holds no lock between its steps.

Threads, jobs, hashes and names that are only compared are declared symmetric; no
run with a liveness property is.

`CHECK_DEADLOCK FALSE` stands where the model may stop: calls are used up, the log
is full, or every operation has failed on a bundle that is not its own. That
calls which have begun do not stop is what `progress` checks.

## 5. Fairness

`MCProgress` states for each part what its own module says (`FairSpec`, `Fairness`,
`WorkingSpec`). Since only one part of a behaviour moves, actions of different parts
share one condition (`Going` weakly fair, `Waiting` strongly fair).

* A thread that is inside a call runs on: weak fairness of its next step, in
  `ProductionRuntime`, `ProductionExport`, `ProductionUi`, `ContextMigration`,
  `AdapterInstall`. Failing and dying are never fair. Generation, verification and
  loading return; a call into the GPU that hangs would hang `close` as well.
* A thread that waits for a `threading.Lock` which is released again and again gets
  it: strong fairness of `CloseLock` (the run lock), of `Opening` and `Help` (the GPU
  lease), of `Continue` in `JobStoreNamespace` (the job and namespace locks), of
  `AcquireLane`, and of `Enter` and `Capture` for the lock of a migration.
* Nobody has to call anything, with three exceptions that are about retries:
  `EventuallyInstalled` and `Recovers` assume that an installer or a migration that
  failed or was killed is started again, and `Ends` of `RepairLoop` that its caller
  keeps asking and generating (`AskHonestly`, `GenerateHonestly`).
* A preview that holds the lane lets it go in the end (`Preview` in `ProductionUi`).

## 6. Proofs

TLAPS checks the thirty-seven theorems that `PROJECT.json` lists, and the lemmas they rest on,
for every value of the constants: any number of threads, jobs, calls, faults, crashes
and generations. Each module states an inductive invariant (`IInv`, strengthened
further for some theorems), checked by TLC before it was proved, shows action by
action that a step keeps it, and concludes. What a proof assumes of its constants is
named in the theorem or in the module that declares them, where TLC evaluates it for
the constants of the runs.

**JobStore_proofs**, about `JobTransaction`: `TypeCorrect`, `Durability`, `NothingOlder`,
`Refinement` and `NoReaderGoesBack`. They assume `MkdirDurable` (see the findings) and
nothing else. Durability alone is not inductive: between two calls one must know
that the names in memory are those on disk, and within a call what may be read at
each step. `IInv` adds `Settled` (an acknowledged directory has nothing unsynced),
`EntryDurable`, `CreationInv`, `BootInv` and `SwapInv` (what is in place at each step of
a creation, a bootstrap and a commit), `NamesBegun` (no content is newer than the
calls begun) and `MarkersRecent` (any marker that could vouch, in place or torn loose
by a power loss, vouches for nothing older than the last acknowledged value).
`NothingOlder` rests on the last two: an old marker in a retired inode is harmless
because the slot is rewritten only after the name that replaced it was synced.
`Refinement` is that the directory is the register of `CommitRegister`: `CommitInv` says
what a commit has made of it by each step, and `DiskFollows` what the disk still has
between two fsyncs. Where its marker differs from a clean one in memory it vouches
for nothing, so that a power loss leaves the value or an unreadable job. From that
`NoReaderGoesBack` follows: a power loss takes nothing back that a reader has seen.

About `JobStoreNamespace`: `NamespaceSound` (`NamespaceIsSound`), for any number of threads,
stores, jobs and commits; it assumes only that the value for "no store" is none of the
stores and that the bound on commits is a number (`NamespaceAssumptions`). What a listing
returns depends on every other thread, so the invariant relates the counter to them:
`CountsMutations` says that it is the number of threads in the middle of a mutation, and
`Announced` that directories change only then and that the epoch grows when one ends. Hence
`Lists`: while the epoch is the one a listing began with and no mutation is under way,
`SeesTheDisk` says of each of its steps that what it has read is what is there, with the
jobs still to be read set apart. Its last look at the epoch makes this true of what it
returns. `Rooted` (no job is stored and no identity bound without the jobs directory) is
what makes an absent directory an empty list. `Drains` says that a close that is draining
has stopped new leases, and that there are none when it closes the root; with it
`ClosedIsUnused` is inductive.

**Publication_proofs**, about `ProductionExport`: `TypeCorrect`, `NeverBoth` (needs no assumption on the file
system), `CompletedHasBundle` and `Refinement` (assume `RenameDurable`).
`PublishedIsRecorded` and `StagingIsUnpublished` are the heart: a bundle in place
means that the job is EXPORTING or COMPLETED, and the phase STAGING, the only one
that lets an export be cancelled, means that there is none. `CommitInv`, `SeenInv`
and `DurableInv` carry them through a commit and a recovery. `StepRefines` maps each
step to one of `ExportOutcome`'s or a stutter.

About `InputCas`: `StyleDurable` (`StyleIsDurable`), for any number of publishers, moved
directories, bad files, failures, deaths and losses of power (`CasAssumptions`).
`Publishes` says what a publisher may rely on at each of its steps: from `link` on that its
nameless file is durable, whichever way it goes on to the name (`HasFile`); from the first
look that found a file that there is one, and from the read back on that its name is
synced (`HasFound`). `FindsAFile` says the same of a publisher that nothing disturbs:
after its link met a taken name it looks for a file that is really there. Both survive the
steps of the others because whatever bears a name stays there, its writer included
(`KeepsFiles`); a loss of power, which may take it, ends every publisher.

About `BundlePublication`: `BundleWhole` (`BundleIsWhole`), for any number of threads,
documents and exports, and any number of writes of another program, failures, deaths and
losses of power. `BundleAssumptions` keeps the marks for nothing and for a stranger's bundle
apart from threads and answers. `KnowsTree` is what the snapshots are for: a version that has
not grown since the seal stands for a tree that nobody wrote to. `KnowsName` says who bears
the name at each step under the name lock, `HoldsFor` who holds that lock and that who
is done holds nothing, `Wins` what a result still says of the name, and `Bears` that the tree
under the name was sealed with every directory entry synced, so that a loss of power takes
none of its documents. One step of a thread leaves the others' trees alone and gives away only
a name that is free (`Frame`), which is why the others keep what they know (`OthersKeep`).
The attempt to prove it showed that one name is not one export for ever: it failed until
`OneWinner` counted only the threads whose bundle no power loss took back (section 7).

About `PairStore`: `PairDurable` (`PairIsDurable`), for any number of threads and documents,
in one store or in several that do not know of each other, and any number of failures,
deaths and losses of power. `PairAssumptions` keeps the mark for nothing apart from the
threads and from the answer "corrupted". A final name is linked only to a durable file in a
directory that has a durable name (`InPlace`), and nobody removes it; only a loss of power
takes it, and only until the next sync of the directory. So what a put or a read reported
stays (`KnownStays`), and metadata is linked only after its content was synced
(`KnowsFiles`, `MetadataCommits`). `NotMine` says that a thread never writes to the file it
has linked, which is why the file stays durable when the call starts another. Within one
store the lock makes `KnowsTemps` true: a thread knows of every temporary name, so what it
calls corrupted is one that a stopped call left, or another document. Every step but the
link leaves the others' names and files alone (`Gentle`); a link gives away only a name that
is free (`LinkStep`).

**ProductionRuntime_proofs**: `TypeCorrect`, `Ownership`, `NoClosedPipeline`,
`NothingLeftOpen`, `NoneLeft` and `CancelledGetsNoResult`. `LockHeld` says which program
points hold the run lock, `OneCloser` that one close gets as far as the resources,
`Pipelines` how the pipelines open relate to where the lock holder is. The last two
theorems add `Accounts`: every job that was begun is accounted for by its status, by
the caller that works on it, by a call of a store that failed, or by an image that could not
be rendered, which leaves it GENERATING or REPAIRING and nothing else (`AccountedFor`); what a
caller knows of its job is still so (`Knows`); and what a close has looked at twice is
settled (`Settled`). The second look (`CloseAgain`) is what makes `Settled` inductive.

The same module has `OpeningSound` of `RuntimeOpening`. Openers share nothing but the
lease and the process's pipeline, so the invariant says for each of them (`Holds`) what
it has in hand at each step, and which of it the unwinding still has to close.

**Orchestration_proofs**, about `FakeOrchestrator`: `TypeCorrect`, `AtMostOnce`,
`NoEmptyCompletion`. `OneGenerator` says that at most one call is at the generation,
`Progress` that the stored status of a job rules out the early stages for all but
one: the store's refusal is the only lock this module has.

About `RepairLoop`: `RepairServed` (`RepairIsServed`) and `StopTrue` (`StopIsTrue`), for
every plan the compiler may make (`PlansAssumption`: ranks are told apart, some rule is
required, and a required rule never continues on a warning), policy, start and report,
and for callers that reuse names, repeat commands or report about something else.
`Chain` is what the loop relies on: the history is one that its constructor's replay
accepts, and its names are finitely many and differ. `Issued` says that a command in a
caller's hands was issued for what is now the beginning of its history
(`AppendFacts`: a longer history leaves its beginnings what they were). An honest
caller is therefore never refused, and each reason to stop is true of the last
report. What the module computes over a history is stated by quantifiers over its
entries, not by a fold, so that no induction over histories is needed.

**Judgement_proofs**, about `ProductionContext`: `LabelEarned` (`LabelIsEarned`) and
`OneVersionOnly` (`ProductionIsOneVersion`), for any sets of metrics, targets and evidence
of the types the code checks (`EvidenceAssumption`) and for any number of edits, faults
and changes in memory. The argument follows the document: while the stamp of the
inode has not moved, what was read is what it says (`Read`), so that what is parsed is
a version that was there; a sealed evidence object takes its own place (`GivenItself`);
what is issued names a version of the history that was accepted, and the anchor is
its digest for good (`Issues`, `IssuedFrom`); the gate's answer is kept by the anchor
(`Gated`). A boundary that finds the digest it expects sees the accepted document
again (`SeesIssued`), whatever was done to the configuration before. The source
settings, which the digest leaves out, are compared with the target's by `_context`.

About `BoundVerifier`: `VerdictTrue` (`VerdictIsTrue`), for any plans (`PlanAssumption`: rules
of three levels, technical ones required, as the compiler makes them), artifacts,
references and number of changes. `VerdictIsTrue` compares the results with `Truth`,
which says of each rule what holds of the artifact, in no order and with no cache.
`VerifierInv` has a part for each thing that could make them differ: that the plan is one the
factory supports (`Supports`), that everything is as it was issued while the verifier
goes on (`Intact`), that the cache says what an image decodes to (`CacheIsRight`), that
rules are judged from the first on and each gets the truth (`InPlanOrder`,
`JudgedTruly`), and that calls are counted by what is kept of their answers
(`Counted`). `JudgedTruly` has to add that a rule of style is judged only once it is
known which references are there (`AllResolved`), because what is true of it changes
until then. Of the score, `MedianIsMiddle` shows that the median of the sorted
similarities is the number that `Rank` finds by counting: every sequence of numbers has a
sort (`SortExists`: the place of a number is how many come no later), its k-th number
has rank k (`SortedRank`), and only one number has (`RankUnique`).

**OperatorTools_proofs**, about `FormalStudy`: `BindingEarned` (`BindingIsEarnedOnce`) and `BlockedForGood`
(`BlockedStays`, an action property), for any number of processes, any plans, samples
and scores, and any edits, deaths and order of commands. `Workspace` says what may be
in a document whoever wrote it, `Processing` what a command has learnt from those it
has read so far, `Creators` that the command which fills an output is the one that
made its file, `Results` that results and bindings are about the report that is in the
workspace. That a report stays what it was once it is written is the heart of it: the
outputs are created exclusively and later only compared. The threshold is the strictest
that meets the targets by the definition of the search (`CHOOSE`); that there is one follows
from finite sets of scores having a least and a greatest element (`Least`, `Greatest`).

About `AdapterInstall`: `AdapterPinned` (`AdapterIsPinned`), for any number of installers,
temporary names and documents, and any number of kills, losses of power and failures;
`AdapterAssumptions` wants one document at least and a mark for nothing that is no name
and no directory. `ReaderRelies` says that the configuration is missing, another
release's, or the whole pinned one, and that a reader which found it whole keeps it so;
`Installs` what an installer has put in place by each of its steps; `Keeps` that a good
weight and a whole configuration are never taken away by a move of an installer, which
is why the others and the reader may go on relying on them. `Owned` gives every temporary
file an installer that is about to remove it, until a kill, a loss of power or a refused
unlink.

**AttemptPipeline_proofs**: `TypeCorrect`, `LogOnStores`, `CleanEnd`, for any bounds
(`Bounds`) on steps, repairs and failures. `KnowsLog`, `KnowsStores` and `KnowsResult`
say what the run may rely on at each step, `OwnsWhatIsOpen` which repositories an
unwinding must close, `StopsInTime` how many GPU steps a cancellation may still let
begin. With them `Rests`, that the log rests on the stores, is kept by every step.

**Interface_proofs**, about `ProductionUi`: `Shown` (`ShownIsTrue`) and `CancelServed` (`CancelIsServed`, an
action property), for any number of callers, invocations and jobs. `OneFlight` says
that one invocation at most is between reservation and release, `KnowsJob` and
`KnowsEnd` what the execution knows of its job and how it ended, `ToldTruly` that what
the interface tells of each item agrees with the stored job. `CancelServed` needs
`Promises`: an invocation that was cancelled early does not get past its start; in the
phases ACTIVE and CANCEL_REQUESTED its execution is open. A cancel is also offered in
STAGING, RESERVED and OPENING: of these `NotYet` says that no execution is registered, and
that the job of the invocation is not in the store, so that a cancel still prevents it.
`OfferStep` puts the two together: the second look compares what is shown with what there is.

About `ProductionBatch`: `OneBatch` (`BatchIsOne`), for any number of runs, cohorts and
members, any number of failures and of losses of power, and any gate policy the code
admits (`BatchAssumptions`). The runs share nothing but the journal and the bundle, so the
invariant is about one run at a time: the records of the phases behind it are those it
would write itself (`Records`), it has a cohort and, once there is one, a verdict
(`Candidate`), and what it has staged is what the routing recorded (`Carries`). Another
run's step keeps this because a record that is in its place stays there (`Stay`); a loss
of power takes records, but ends every run. That the records tell one story, also of runs
that have ended, holds until the first loss of power (`OneStory`), as the property says.
`ApprovalNeedsBoth` is the lemma about the routing: with every policy the code admits, only
PASS of the member and of the batch lead to an approval.

About `PreviewWall`: `PreviewTrue` (`PreviewIsTrue`), for any walls and single previews,
any size of a wall, any number of deaths, losses of power and second processes
(`WallAssumptions` only). The invariant has one part per call and two for the disk and the
reconcilers. Of a call: it holds the lane exactly between `open` and `release`
(`HoldsLane`), nothing is on disk of an item to come (`Fresh`), the record of the current
item is durable before its picture has any name (`HasPublished`), and a result that says
COMPLETED has record and picture, one that was not attempted neither (`Earned`); its
manifest lists its results (`Lists`) and its answer shows completed ones (`Shows`). `Firm`
is what may happen behind the back of a call, a sync or a reconciliation, and
`CallKept` that it harms none of this. The picture of an answered item may go only once a
second process was started, as the property says. `CleanStart` needs `Scans`: the
reconciler of a starting application is alone with the disk and leaves no staged name
behind it.

**Only model-checked**: `LogIsSound` and `MigrationIsAudited`. What
`JobEventLog` folds over a log needs induction over data, which is beyond the prover.
`MigrationIsAudited` is checked under the bound `MigrationBound`, beyond which the
migrations do not keep it (section 7). The liveness properties of `progress` stay with TLC:
neither liveness under fairness nor `ENABLED` can be proved.
No module has a RECURSIVE operator.

## 7. Findings

* **An acknowledged job can vanish** (`job_directory_entry`).
  `open_or_create_directory` fsyncs the parent only in the call that made the
  directory. If that fsync fails, the retry finds the directory, fsyncs only
  inside it and is acknowledged; a power loss may then drop the directory.
* **A completed job can lose its bundle** (`production_export_unsynced`). Recovery
  that finds the bundle in place records EXPORT_PUBLISHED without an fsync of the
  target directory; the publication it recovers may have been interrupted before its
  own.
* **Starting a job again fails it** (`fake_orchestrator_restart`). The docstring of
  `orchestrator.py` speaks of idempotent stages on a restart; a job stopped between
  two stages is started over with `JOB_STARTED`, which the store refuses, and
  the refusal is recorded as FATAL.

Both power-loss findings need a file system that does not write a new name back
together with a later fsync in another directory, as POSIX allows.

Disagreements met while modelling, for which no run of their own is kept. Where a
bound or a condition of a property excludes one, it says so in its module.

* `workflow/job_store.py:406`: a call that found no jobs directory, while another thread
  was creating the first job, binds a missing directory to a namespace that is bound
  by now and answers "job store corrupted".
* `workflow/job_store.py:205`: a first commit that fails right after it made the job's
  directory leaves it empty. `list_job_ids` then answers "job store corrupted", because
  `slot_only` is `bool(names)` (`_job_store_transaction.py:188`), while `load` and
  `get_snapshot` find no such job and the next `save_snapshot` of it succeeds and clears
  the listing. `test_job_store.py:279` wants an empty directory to be refused; it does not say
  that the store's own failure can leave one. (`ListBlamesTheDisk` allows it: `LeftEmpty`.)
* `workflow/production_service.py:1345`: the generation phase records a FATAL event for
  domain and infrastructure errors only. An error of the image library in
  `render_production_output` (`:456`) ends the run and leaves the job GENERATING or REPAIRING,
  from which nothing of the runtime goes on but a cancellation. (`NoStrandedJob` allows it:
  `Unrendered`.)
* `exporting/bundle.py`, `_inspect_final_bundle`: an inspection syncs nothing. A bundle it
  found may have a name that no fsync followed (its publisher died before), so a power loss
  may take it back after the caller was told that it is there, and the name may then go to
  another export. What was published never is (`OneWinner`).
* `workflow/_production_input_cas.py:481`: a name that appears between the reconciliation
  and the look that follows is answered "unavailable", while
  `test_two_publishers_converge_on_one_valid_winner` wants no failures (with the
  direct link there are none: `ConvergeDirectly`).
* `workflow/_production_input_cas.py:231`, `workflow/production_batch_journal.py:227`: a
  directory or record that is found made is not synced; its maker may have died
  before its own fsync.
* `workflow/run_one.py:266`: a cancel that comes after the run has looked for one and
  before the job's first event is answered "cancel requested" and lost.
* `ui/production_ui_state.py:206`: between the result of one item of a batch and the
  staging of the next a cancel is refused as if the batch had ended.
* `workflow/preview_evidence.py:566`: the reconciliation of a second process removes a
  picture published between its two scans, although its record is durable.
  (`ShownIsDurable` promises the record, and the picture without a second process.)
* `deployment/context_migration.py:399` and `:684`: a rerun accepts the record, and commits
  the replacement, of a killed run without syncing them; a power loss then takes
  them. (`MigrationBound` allows a kill or a power loss.)
* `src/deployment/amd/scripts/install_preview_adapter.py:177`: the temporary file of a
  killed download stays, and the reader refuses the directory although a rerun says
  PASS. (`NoLitter` is about installers that were not killed.)
* `calibration/formal_study_workspace.py:126`: an output torn by a kill makes every later
  command fail: "invalid formal study workspace" if it is empty, "formal study output drift"
  if a part was written.
* `workflow/production_service.py`, `load_production_compiler_context`: calls the context
  factory under the GPU lease, which
  `test_context_factory_runs_once_outside_gpu_lease_and_failure_closes_loaded` says of
  the opening of a runtime only; the factory of this repository waits for nobody.

## 8. Simplifications and what is not modelled

* The store is single-process (job_store.py:227), so inodes change only by its own
  calls; identity checks against replacement from outside are left out, except
  where another program is modelled (`BundlePublication`, `InputCas`), and so are file
  modes, byte limits and hashes beyond "these bytes are those the name says".
* Contents are model values or numbers of the calls that wrote them. Torn bytes are
  one value, which matches no hash.
* An unreadable job is `readable = FALSE` in `ProductionExport`, and a job whose
  reading, recording or rendering has failed (`lost`) in `ProductionRuntime`, where
  `NoStrandedJob` exempts it: nothing in the code settles it.
* Exceptions of Python that are not subclasses of `Exception` (an interrupt of the
  interpreter) are left out where the death of the process is not modelled.
* A cancellation is one step under the job lock. The run's hint follows in
  another, as in the code.
* Errors of closing resources are logged or re-raised by the code after everything
  has been tried, and change no state.
* Payloads, timestamps (outside `JobEventLog`), hashes and images are choices of their
  outcomes. Similarities and thresholds are small integers.
* The v3 configuration of the production context is not changed in memory: the code
  has no anchor for it.
* Liveness is not checked for `BundlePublication` and `PreviewWall`: their threads take a
  bounded number of steps without waiting for one another.

Not modelled, with the reasons, are the components of `PROJECT.json` with that
status: export documents, the specification compiler, evaluation, and support.
They are pure functions on values, statistics, or logs, without a state or an order
a model could check. Of the components modelled in part are left out: the JSON
codec of the job store; the small sequential batch runner; the field-by-field
comparison of a replay; context schemas 1 and 2; the older calibration evidence; torch,
diffusers and pixel arithmetic; the layout of the user interface; the other
deployment scripts.

## 9. Plan

Done in this order: `JobTransaction` with its register, `JobEventLog`,
`ProductionExport` with its outcome, `ProductionRuntime`, `FakeOrchestrator`, with
their proofs; then `JobStoreNamespace`, `RepairLoop`, `BundlePublication`, `PairStore`,
`InputCas`, `ProductionBatch`, `ProductionUi`, `PreviewWall`, `ContextMigration`,
`AdapterInstall`, `FormalStudy`, `ProductionContext`, `BoundVerifier`, `AttemptPipeline`,
`RuntimeOpening`, and `MCProgress` for what must eventually happen.

Next modules: `SemanticReplay` (the comparison of two runs), `SpecCompiler` (the chain
of migrations and the compilation, as operators), `ExportDocuments` (the agreement
of manifest and report with the log), and a recovery over several jobs.

Next theorems: what `JobEventLog` promises of one append without the fold.
