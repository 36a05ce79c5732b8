# A TLA+ verification of OpenDesignEasy

OpenDesignEasy (the Python package `src/src/oeydesign`) takes a design project
from confirmed facts to a delivered artifact: a brief and a Context Package go
in, candidates are designed and assessed, a user approves a direction, an
artifact is produced and validated, a user approves the export, and a delivery
adapter releases a bundle once.  Every step is a *command* that is retried,
raced and cut short by crashes, and all state is in SQLite or in files.

This directory models that program in TLA+, checks it on small instances with
TLC, and proves the safety of its core for every value of the constants with
TLAPS.

Contents: [inventory](#1-inventory), [plan](#2-plan),
[modules](#3-the-modules-and-the-code), [runs](#4-the-runs),
[bounds](#5-bounds-and-why-they-are-enough), [fairness](#6-fairness-and-deadlock),
[proofs](#7-what-is-proved), [findings](#8-findings),
[not modelled](#9-what-is-not-modelled-and-why).

## How to run it

    tlc -config core.cfg MCProjectControl        # any run of section 4
    tlapm ProjectControlProofs.tla               # any *Proofs module

Each `.cfg` names its run; the table in section 4 gives its module.  A run takes
from a few seconds to about three minutes, a `*Proofs` module from a few seconds
to a few minutes.

## 1. Inventory

Paths are relative to `src/src/oeydesign/`.  "Modelled" names the module of
this directory; `PROJECT.json` has the same list with the status of each part,
the hazards with their lines, and which lines each definition stands for.

### Project Control Plane (`control.py`, `domain.py`) -- modelled

State: the `Project` aggregate: its state (15 values), Context Package, brief,
candidates, the approved direction, the current artifact and quality decision,
approvals, deliveries, the state to resume to, and the snapshot of each
revision.  Operations: one handler per command; handlers work on a copy of the project,
call the design, artifact, quality and delivery ports and the workflow runtime,
and are committed as one new revision.
Interacts with: the command store (which commits it), the runtime (`_pause`,
`_cancel`, `_resume`, `_reconcile_workflow`), the delivery ledger (`_deliver`).
Hard: long legal sequences.  Revisions are numbered again after a restore or a
second production, so an approval, a verdict or a side-effect key can meet
other content than it was given for; a restore goes past the transition table;
three handlers commit their first half elsewhere before the second half fails.
Correct when: what is delivered was assessed and then approved as it is; a
project that claims to be ready, validating or delivered has what that takes;
an ended project comes back only with everything withdrawn.

### Command execution and project store (`control.py`, `persistence.py`) -- modelled

State: the project row, its revision rows, the command ledger, the audit log.
Operations: `execute`: look the id up, read the project, compare revisions,
dispatch on a copy, commit snapshot + revision + ledger row in one transaction,
audit in another.
Hard: threads and processes race between these steps and die at any of them;
the same id is retried, or reused with another payload.
Correct when: no update is lost, no id is applied twice, every retry is told
the revision its command made, and what is committed was really done.

### Ports, composition and the Web gate (`stubs.py`, `quality.py`, `delivery.py`, `composition.py`, `phase6.py`) -- modelled

State: which adapter fills which slot, fixed when the application is assembled.
Operations: the deterministic design, artifact, quality and delivery ports, the
Web quality gate that replaces one of them, `assess_phase6_readiness`, and a
delivery validation that is composed and never called.
Hard: the gate assesses a render and the export is made later, by another port
that may answer with anything; new material and new candidates leave the approvals
of old artifacts active; a deterministic adapter may be left in a slot, or bound
under a version of its own.
Correct when: whatever the ports answer, what is released was assessed as it
left, under an approval of its own version; and an application that is ready
through a gate that looks releases clean content.

### Workflow runtime (`runtime.py`) -- modelled

State: runs (status, completed stages, current stage), checkpoints per stage
and input fingerprint, events.  Operations: `start`, `resume`, `pause`,
`cancel`, `query`, `checkpoint`, `complete`, `record_failure`, and
`RecoverableStageRunner.run_stage`, which loops over them with a retry limit.
Hard: each is its own transaction, `checkpoint` is two; workers overlap with
each other, with users and with crashes; late failures overwrite.
Correct when: a completed stage is neither executed again nor loses its
outputs, the retry loop ends with a result, every call ends.

### Side-effect ledger and durable delivery (`persistence.py`, `recovery.py`) -- modelled

State: one row per stable key (CLAIMED, COMPLETED, FAILED, with a lease), and
whatever the external adapter has released.  Operations: `claim`, `complete`,
`fail`, reconciliation with the adapter, audit.
Hard: a worker dies between the release and its record; a lease runs out under
a worker that is still busy; the adapter fails after it has released, or does
not know.
Correct when: callers are all given one result for ever; while leases hold, one
worker is at work and the adapter releases once.

### In-memory adapters (`memory.py`) -- modelled

State: dictionaries with the same meaning as the tables of `persistence.py` and
`runtime.py`.  The contract tests run on these, the product on the tables.
Hard: what a test shows of one must hold of the other, over long sequences of
calls; the two number events differently, one of them stores a checkpoint before
it looks for the run, and the store has no transaction over project and ledger.
Correct when: a caller cannot tell them apart, or only by what is known to differ.

### Evidence intake and stores (`context.py`, `evidence_persistence.py`) -- modelled

State: source bytes in files under their digest, source revisions, evidence
records, Context Packages by revision.  Operations: `ingest`, `interpret`,
`confirm`, `revise_rights`, `assemble`, and the stores' transactions.
Hard: two callers assemble the next package from the same latest one; rights are
revised between; a crash leaves a partial file under a digest; confirmations go by
`evidence_key`, which sources share.  Correct when: what is registered resolves, no
confirmed key drops out of a later package, only what was cleared is offered for
delivery.

### Agent session and loop (`agent_engine.py`) -- modelled

State: a session file (status, turns, budget), the workspace trees, and, in the
loop, the last build and render.  Operations: `start`, `resume`, `record_turn`,
`pause`, `cancel`, `complete`; `AgentLoop.run`: ask the model, run its tools,
record the turn, complete when the gate allows.
Hard: session files are loaded, changed and saved without a lock, through one
temporary file; a budget is exceeded only after the work was done; a render must be
newer than the last write, and writes a screenshot itself.  Correct when: budgets bind across runs, a stop takes effect, a completed
run has rendered what is on the disk, the loop ends.

### Repository intake and workspaces (`repository.py`, `agent_engine.py`) -- modelled

State: snapshot directories, workspace directories with a repository mount and
manifests.  Operations: authorization, the scan (`_collect`),
`ingest_repository`, `read_file`, `WorkspaceManager.open`.
Hard: the owner of the directory works in it during the scan; crashes between
mkdir, copy and manifest.  Correct when: a scan is bounded and, undisturbed,
complete; only crashes leave half-made things.

### Product shell and client (`product_shell.py`, `src/product-client/app.js`) -- modelled, client partly

State: none of its own on the server; the page keeps the revision it knows and
the project it shows.  Operations: `create_demo` (two commands), one command per
request, the projection with the actions it offers, polls.
Hard: creations race, are repeated and die between the two commands; replies
come late and out of order; other callers restore, reconcile and prepare the same
project.  Correct when: a creation is answered with a prepared project, and every
action offered is one the control plane takes, unless a restore or a resumed run
has taken away what it needs.

### Build, render, sandbox and acceptance (`builder.py`, `framework_artifact.py`, `renderer.py`, `sandbox.py`, `_windows_appcontainer.py`, `phase6_acceptance.py`) -- acceptance modelled, the others partly

State: the trees WORK and OUT of a workspace, the machine's drive letters, a lock
per host process, processes and their jobs, the acceptance's evidence files.
Operations: `build`, `render`, `run_process` and its launcher, `run_acceptance`.
Hard: threads share a workspace and processes share the drive letters; a host
dies with a letter mapped or a process suspended; a build is written file by
file.  Correct when: generated code runs only confined, OUT is one build,
accepted evidence is of two builds that agree.

### Capability registry and source broker (`capabilities.py`, `broker.py`) -- partly

State: none beyond the registered manifests and endpoints.  Operations: one HTTP
call with a limit on time and length, and pure checks of its answer.  Hard: any
answer, or none, at any turn of the loop.  Correct when: the loop stays within
its budget and ends whatever is answered; this is `AgentLoop`, whose `Answer` is
every outcome of `chat`.

### The rest -- not modelled

- Serialization and paths (`serialization.py`, `paths.py`): encodings, no state.
- Experiments (`src/spikes`, `src/lab30min`): not imported by the product.

### How the parts meet

    page --requests--> product shell --commands--> execute (command store)
    execute --dispatch--> control handlers
    control handlers --pause/resume/cancel/query--> workflow runtime <--run_stage-- workers
    control handlers --assess/export--> quality and artifact ports
    control handlers --release--> DurableDeliveryPort --> side-effect ledger, adapter
    intake (sources, scan, snapshot, mount) --Context Package--> Prepare, FactFeedback
    agent loop --build/render--> sandbox; acceptance --builds, renders--> evidence

`ProjectControl` sees the runtime and the ledger as the transactions its commands
commit there; `StageRunner` and `DeliveryLedger` open those transactions up.
`DurableDelivery` is `ProjectControl` with `DeliveryLedger` in the place of one
key's releases.
`ProductShell` extends `ProjectControl`: its server steps are that module's
actions.  `CommandStores`, `WorkflowRuntime` and `RepositoryIntake` each put a
component beside what it is used with or replaced by.  The other modules are
composed by nothing but the records they hand on (a package, an artifact, a
snapshot), which the receiving module takes as an arbitrary input.

## 2. Plan

In the order of what a user loses when it goes wrong.  Done:

1. `ProjectControl` against `ReleaseProtocol`: what may be delivered.
2. `CommandPipeline` against `CommandLog`: commands that race, retry and die.
3. `DeliveryLedger` against `EffectPromise`: one release per key.
4. `StageRunner`: stages, checkpoints, retries, and that calls end.
5. `AgentLoop`: the budget, the completion gate, stops, and that the loop ends.
6. `Intake` and `RepositoryScan`: sources, packages, snapshots and mounts with
   racing callers and crashes.
7. `ProductShell`, composed with `ProjectControl`.
8. `SandboxBuild`: builds, renders and acceptance runs that share a machine.
9. `RuntimeAdapters` and `StoreAdapters`: the two sets of adapters in lock step,
   composed with the stage runner and with the command pipeline.
10. `WebRelease`: the bindings of the product, its gate and its release.

11. `ProjectControl` and `DeliveryLedger` against the same promise,
    `EffectPromise`, and composed in `DurableDelivery`: the delivery command as a
    client of the ledger implements both.

All of them have proofs.  Left:

12. The limits of `broker.py` and `capabilities.py`, as operators over bounded
    inputs.

## 3. The modules and the code

### `ProjectControl` (`control.py`, `domain.py`, `stubs.py`)

One step is one committed command.  A command that raises drops the copy it
worked on, so a rejected command is an action that is not enabled.  The
variables carry the names of the aggregate's fields: `state`, `context`, `brief`,
`candidates`, `direction` (`approved_direction`), `artifact`
(`current_artifact`), `quality` (`current_quality`), `deliveries`,
`resume_state`; `directionApprovals` and `exportApprovals` are the targets of
active approvals, `passedCandidates` the versions whose latest decision is a
pass, `history` the restorable part of all revisions, `effects` the released
bundles, `copies` what threads have read of the project to deliver it, `run` the
statuses of workflow runs, and `changed` whether a commit
since a run's input revision makes the run stale.

| action | code |
| --- | --- |
| `Prepare` | `_prepare` |
| `GenerateCandidates` | `_generate_candidates`, with the assessment of each |
| `ApproveDirection` | `_approve_direction` |
| `Produce`, `Validate` | `_produce`, `_validate` |
| `ApproveExport` | `_approve_export` |
| `Deliver` | `_deliver`, released and recorded |
| `ExportRejected` | `_deliver`, the export fails its verification |
| `ReadForDelivery` | `_execute` reads the project for a delivery that is released later |
| `DeliverUncommitted` | `_deliver` on what was read, released, and the process dies or the save is refused |
| `DirectionFeedback`, `ArtifactFeedback`, `FactFeedback` | the three feedback handlers |
| `Restore` | `_restore` |
| `Pause`, `Cancel`, `Resume`, `Reconcile` | `_pause`, `_cancel`, `_resume`, `_reconcile_workflow` |
| `CancelUncommitted`, `ResumeUncommitted` | `_cancel` and `_resume`, after `runtime.cancel` or `runtime.resume` has committed, the save refused or never made |
| `StartRun`, `WorkerReports`, `WorkerResumes` | what `runtime.py` does to a run beside the commands |

A command whose save succeeds has found the project as it read it, so reading and
saving are one step (`SavedCommand`, `Deliver`).  Three commands commit something
elsewhere before the save, and it stands when the save is refused.  For the runs
this needs nothing but the run's status.  A release is made of the artifact and the
approval that were read, whatever has become of the project since; this is what
`copies` is for.  `Aside` is what changes a run and no project.  Of the saved
commands, `Advance` are those that work from the state they find, `TakeBack` those
that set the project to a state (`Restore`, `Resume`, `Reconcile`).  Abstractions: identities made by `stable_id` are the values they are
computed from; content is the set of feedback notes worked into it, and
`BadNotes` are texts the quality port reports as a hard error; event texts,
renders and other lists that no command reads back are left out.

`ReleaseProtocol` is what this promises: a subject is assessed as it is, then
approved as it is, and only then taken to be released; any change or doubt starts
again, but who has taken it before may still be late.  The refinement mapping reads
the phase off `state`, the subject off the artifact's content, what was taken off
`copies` and what was released off `effects`.

`Effect(target, profile)` reads the ledger's promise (`EffectPromise`, below) off
`effects` and `deliveries`, for one side-effect key: `DeliveryLedger` implements
that promise with workers, leases and crashes, and `ProjectControl` implements it
with its commands, so the two modules say the same of what they share.

### `CommandPipeline` (`control.py`: `execute`, `persistence.py`)

One step is one access to the database by one thread: `Execute` (a caller hands
a command in), `Lookup` (`ledger.get`), `Read` (`repository.get` and the
revision comparison), `Dispatch` (the handler on the copy, with its external
calls), `Commit` / `CommitRefused` (`save_with_command`, one transaction),
`Audit`, `Reject` (the error reaches the caller), `Crash`.  A project is the
sequence of commands that made its revisions; what a handler computes does not
matter here.  The ledger's rows, the revision rows, the audit log and the
external calls (each with the revision in its key) are variables.  The audit
record of a failure is left out.

`CommandLog` is the promise: commands are applied one at a time, each to the
revision it expects, at most once per id, and answers name the revision made.

### `DeliveryLedger` (`recovery.py`, `persistence.py`)

The workers that deliver under one key; rows of other keys do not interact.
`AnswerFromLedger` and `Claim` are `claim` (completed, or granted); a claim
refused because a lease is live changes nothing.  `Reconcile` is the adapter's
answer: done (also made on the spot, as the local adapter does), unknown or an
error, safe to retry.  `Settle` is the completion after a reconciliation,
`Release`, `Complete`, `Fail` and `Audit` are the rest of `release`.  `Expire`
is `lease_until` passing; `Crash` leaves the lease where it is.  The adapter is
external: it is honest about what it has released, and may fail before or after.
`overrun` remembers that a lease ran out under a worker still at work, which the
code can neither prevent nor notice.  The trace metadata that `claim` compares
is a function of the key, as `control.py` builds it, and so never differs.

`EffectPromise` is the promise: the key settles on one result, and everybody who
is given a result is given that one.

### `DurableDelivery` (`control.py`: `_execute`, `_deliver`, `recovery.py`)

`ProjectControl` and `DeliveryLedger` side by side, for the deliveries of one
artifact version under one profile.  A worker of the ledger is here a thread that
executes `DeliverArtifact`: `Read` is `_execute` reading the project, `_deliver`
finding its approval and the gate passing the export; `Release` is
`delivery.release`, which takes the ledger's steps one at a time (`Call` the claim,
`Work` the others) and returns a bundle where the code does; `Save` is the rest of
`_deliver` with `save_with_command`, possible as long as no command has been saved
since the read (`fresh`).  What the row settles on is what `ProjectControl` calls an
effect.  `Others` is every other command, and deliveries under other keys.

### `StageRunner` (`runtime.py`)

One run and the workers that call `run_stage` for its stages.  `Reuse` / `Begin`
is the first look at the checkpoint, `Query` the status read once per attempt,
`ResumeOwn` the runner's own resume, `Operate` the stage's operation with every
outcome the runner tells apart, `RecordFailure` `record_failure` with
`_failure_status`, `SaveCheckpoint` and `CompleteRun` the two transactions of
`checkpoint`; `Pause`, `Resume`, `Cancel` are the users'.  `overlapped` remembers
that two calls for one item were under way at once: `run_stage` takes no claim, so
that a late worker may then write over the checkpoint of another.
`reused` remembers which stages callers were told are completed.

### `AgentLoop` (`agent_engine.py`)

One session file, the loop that works in it, and users beside it.  Everyone who
changes the file loads it, computes the new record, writes it to a temporary file
(`WriteTemporary`) and puts that in the file's place: `saving[p]` is the record party
`p` is about to write, marked stale when the file changes after `p` has loaded it.
The temporary file has one name: a party may put the other's record in place
(`Save`) or find nothing there (`UserSaveRaises`, `LoopSaveRaises`).  `screenshot` is
what a render of WORK leaves in that tree, which a build then refuses.  `Run` and `SaveResumed` are the beginning of
`run` and `resume`; `Answer` the four ways the model answers (`ChatFails`,
`AnswerUnreadable`, `AnswerEmpty`, `AnswerActions`); `Act` the tools (`Edit`,
`CommandStrays`, `Build`, `Render`, `Look`); `Record` is `record_turn` (`Charge`,
`Exhaust`, `TurnRefused`, `SaveTurn`); `Complete` is `complete`; `UserLoads`,
`UserSaves` are the users' `pause`, `cancel` and `resume`; `Crash` is the loop's
process.  `knows` holds the locals of `run` that the completion gate looks at.
History variables: `shot` (the last healthy render), `worked`, `late`, `raced` (a
save has overwritten a change it had not read, or put another's record in place)
and `strayed` (a tool changed files
and then raised, so that the locals could not be told).

### `Intake` (`context.py`, `evidence_persistence.py`, `repository.py`, `agent_engine.py`)

A transaction of the evidence store is one step, a file or a directory is made in
several.  `Ingest`, `MakeSource`, `FillSource`, `AddSource`, `AddObservations` are
an intake of a file or of a repository snapshot; `ReviseRights` and `Derive`
(interpretations and confirmations) one transaction each; `BeginPackage`,
`Gather`, `SavePackage` the assembly of a package, which reads at two times and
saves at a third; `OpenWorkspace` to `MountRest` the mount of a snapshot into a
workspace; `Crash` kills a caller between any two.  `cut` and `cutMounts` remember
what a crash left half-made, `shared` the files a second caller has written again.

A record is of a part of a source (the whole of a file; the root of a repository, or
a file in it) and keeps that as its locator.  `KeyOf` gives the `evidence_key` of what
a part shows; several sources may share one, as all PNGs share `image.dimensions`.
`Confirmed`, `Confirmations` and `Latest` go by that key, whichever sources the
records are about.  `ReadsPart` is `read_file`: the root is cited as the file `.`,
which no manifest lists, so its locator never resolves.

### `RepositoryScan` (`repository.py`)

`Authorize` picks a directory, `Begin` looks at it once more, `Visit`, `Skip`,
`RefuseLink`, `Stat`, `Read` walk the tree in the order of names, `Finish` hands
over what was collected; `Edit` and `ReplaceRoot` are its owner.  The scan is over
before `Intake` makes the snapshot, and they share no state.
`RepositoryIntake` is the two together: each behaviour is about one of them
(`subject`).

### `ProductShell` (`product_shell.py`, `app.js`), composed with `ProjectControl`

`EXTENDS ProjectControl`.  A request is a task in a slot: in the server it reads
the project, executes a command (an action of `ProjectControl`) and reads it
again, each in a transaction of its own (`CreateProject`, `InspectProject`,
`PrepareDemo`, `AnswerCreation`; `BindTarget`, `Execute`, `AnswerCommand`); in the
page the replies are worked in when they arrive (`ReceiveReply`,
`ReceiveProject`, `ReceiveEvents`).  `SubmitCreation`, `OpenProject`, `Click`,
`PickCandidate`, `Poll` are the page's user and its timer, `Lose` a connection that
breaks.  The other callers have all of `ProjectControl`: `Elsewhere` is any saved
command, restores, resumptions, reconciliations and preparations among them,
`DeliveryUnderWay` a delivery that is not saved, `RunsGoOn` what becomes of runs.
`timeline` keeps the projection of every revision; `known` and `shown` are the
revisions the page holds and was drawn from, `prepared` is the one the creation's
own `PrepareProject` was executed at (executed once, then answered from the
record).  `returned` is a history variable: a `TakeBack` has set the state.

### `SandboxBuild` (`builder.py`, `framework_artifact.py`, `sandbox.py`, `_windows_appcontainer.py`, `renderer.py`, `phase6_acceptance.py`)

A build is a call that goes through `BeginBuild`, `WritePlan`,
`CopyDependencies`, `TakeLock`, `MapDrive`, `CreateProcess`, `AssignJob`,
`ResumeThread`, `ProcessExits` or `Timeout`, `LauncherReturns` or
`LauncherFails`, `ReadBundle` and one `WriteOut` per file.  An acceptance run
(`BeginAcceptance`, two builds, `InitialRender`, `LoopRender`, `LoopCompletes`,
`FinalRender`, `WriteEvidence`, `WriteLatest`, or `GiveUp`) is a caller with two
builds of its own.  `Crash` kills a host process with all its threads; what it
leaves (letters, suspended processes, half-written trees, a cut `latest.json`)
stays.  `mixed` remembers the workspaces whose OUT was cut short or shared.

### `RuntimeAdapters` and `StoreAdapters` (`memory.py`, `runtime.py`, `persistence.py`)

Each call of a port is made on the dictionaries of `memory.py` and on the tables
of SQLite, in lock step, and the answers are kept.  `RuntimeAdapters` has the
calls of `WorkflowRuntimePort`, on runs that are known or not, a reader that polls a
run with the last number it saw and one that polls all runs of a project.  A run
given a checkpoint before it was started is `strayed`: the dictionaries keep the
checkpoint, the tables do not.  `StoreAdapters` the repository and the ledger under commands without a
transactional writer, and a follower of the SQLite event store.

`CommandStores` is the command execution over either store: `CommandPipeline`
when the control plane was made with a transactional writer, `StoreAdapters` when
it was not.  `WorkflowRuntime` is the runtime and those who use it: the stage
runner (`StageRunner`), which works on the SQLite runtime alone, and callers of
the port (`RuntimeAdapters`).

### `WebRelease` (`composition.py`, `phase6.py`, `quality.py`, `stubs.py`, `delivery.py`, `control.py`)

The commands from the first material to the release over concrete ports.  A content
is the set of traits the gates look for; `bindings` says what fills each slot, where
a deterministic adapter may be bound under its own version (`stub`) or another
(`renamed`); `Supplied`, `Versions`, `Missing`, `Ready` are the assembly and its
readiness report, which goes by versions; `WebErrors`, `StubErrors`, `Assess`, `Authorized` the gates; `Renders` and
`Exports` what the bound artifact port may answer (the deterministic one its own
content, a replaced one anything, also an export whose manifest is no mapping).
`Prepare`, `Generate`, `Reconcile`, `Resume` and `FactFeedback` are the ways to new
material; the first four withdraw no approval, and `outlived` remembers the export
approvals that were active when new candidates were generated.  `Validated` is the
delivery validation that `composition.py:116` composes and nothing calls.

## 4. The runs

Passing runs (all states of the instance are explored):

| run | module | instance | states | what it asks |
| --- | --- | --- | --- | --- |
| `core` | MCProjectControl | 2 packages (one uncertain), 1 candidate, a sound and a breaking note, a sound and a failing profile, 1 workflow run | 916,988 | can any sequence of commands, restores, lost saves, late releases and runs driven beside them deliver content that was not assessed and approved as it is? |
| `pipeline` | MCCommandPipeline | 2 threads, 3 command ids sent with every expected revision, 3 revisions; without the writer 2 projects, 2 ids, 2 bodies | 902,448 | do racing, retrying, dying threads lose an update, apply an id twice, or answer wrongly? can a caller tell the stores apart, is a reader of them misled? |
| `ledger` | MCDeliveryLedger | 3 workers, 3 releases | 287,929 | who can be at work together, what can be released twice, what are callers told? |
| `stages` | MCStageRunner | 2 workers, 1 stage, 1 input, 3 attempts; for the port 2 projects, 2 requests each, 3 events, 1 run that strays | 328,462 | are completed stages or their outputs lost, do calls end? can a caller tell the runtimes apart, does a reader miss anything? |
| `agent` | MCAgentLoop | 2 contents, budget of 3 steps and 1 render, 2 calls of `run`, 1 user operation | 2,080,478 | does a completed run fit what is on the disk, does the budget bind, does a stop stop, does the loop end? |
| `intake` | MCIntake | 2 callers, 2 files with one key and a repository, 4 calls, 2 packages; a tree of 6 paths, 1 scan, 2 changes | 1,188,100 | can racing, dying callers register what does not resolve, clear what is not cleared, or lose a fact? what can a scan take in? |
| `shell` | MCProductShell | 1 page with 2 requests under way, 1 candidate, 1 workflow run, 8 revisions, every command from elsewhere | 625,947 | is a creation always prepared, and is all that is offered legal? |
| `build` | MCSandboxBuild | 2 threads of one host in one workspace, an acceptance in another host, 2 letters, 3 builds, 1 crash | 1,634,489 | does generated code run confined, is OUT one build, is accepted evidence of builds that agree? |
| `release` | MCWebRelease | 2 contents, which are the briefs too, 3 profiles, 5 assemblies, 2 revisions of a candidate or of its artifact | 6,096,190 | what can be released with which ports bound? |

The configuration of a run has its name.  State counts of the instances with
SYMMETRY (`pipeline`, `ledger`, `intake`, `build`) are up to symmetry, those with a
VIEW (`pipeline`, `intake`, `shell`) up to the view: `pipeline` leaves out the
adapters' audit log, which nothing reads, `intake` the derived records once no package
is gathered any more, and `ShellView` what neither the properties of `shell` nor any
later step can tell apart (its comment goes through the parts).

The properties, by run:

- `core`.  `ExportGateHolds`: at the export decision, and after it, the verdict on
  file is a pass for exactly the version in hand, which is sound.
  `ReadyIsAuthorized`: a project ready to deliver holds an active export approval
  of that version.  `ReleasesAreSound`: nothing broken is released, one key stands
  for one content, deliveries shown were released.  `DeliveredIsRecorded`: a
  delivered project has its delivery on file.  `EndedStaysEnded`: a blocked,
  failed or canceled project comes back only with all approvals and verdicts
  withdrawn.  `ImplementsReleaseProtocol`: the refinement.  `TypeOK`.
- `pipeline`.  `LedgerMatchesHistory`: an id has a record exactly when one
  revision was made by it, and the record names that revision.
  `HistoryIsAChain`: no revision is lost, overwritten or skipped.
  `CommittedIsDone`: a committed command made its external calls for the revision
  it became; a success is audited only for a committed command.
  `ImplementsCommandLog`: the refinement.  `StoresAgree`: a caller of the
  repository and the ledger cannot tell the dictionaries from the tables.
  `ReadersAreNotMisled`: what a reader of them was told stays true.
- `ledger`.  `OneAtWork`, `OneRelease`: while no lease runs out under a worker at
  work, workers exclude each other and the adapter releases once.
  `ResultsAreReal`: whatever is recorded, told or audited was released.
  `ImplementsEffectPromise`: the refinement, also when leases run out.
- `stages`.  `StagesHaveOutputs`: whatever the run calls completed, or a caller was
  told to reuse, has outputs on file.  `CompletedStands`: without overlapping calls
  a completed checkpoint does not change.  `CallsEnd`: every call ends.
  `AdaptersAgree`: a caller of the workflow port cannot tell the runtimes apart, but
  by a run that was given a checkpoint before it was started and by the reason of a
  pause that is over.  `PollsMissNothing`: a reader of a run is told every event
  once, in both numberings.  `ProjectPollsMissNothing`: so is one who keeps a single
  number for all runs of a project, in SQLite.
- `agent`.  `GateIsCurrent`: a run that completes has rendered, healthily, what its
  tree still holds, and where a build was asked for both trees hold what was
  built.  `BudgetBinds`: the work done exceeds the steps counted by at most one per
  call of `run`.  `StopTakesEffect`: at most one action is carried out after a stop.
  `LoopEnds`.  The second and third except histories in which a save has
  overwritten another change (finding `lost_cancel`), the first those in which a
  tool raised after it had written.
- `intake`.  `ReferencesResolve`: every row, record and locator leads to whole
  bytes, wherever callers die, unless two have made one file; but the locator of a
  repository's root never does.  `DeliveryIsCleared`: only what was cleared, at the
  revision cited, is offered for delivery, and a ready package has all it requires.
  `FactsAreKept`: no confirmed key drops out of a later package, although its
  confirmation may be of another source there.  `NothingHalfMade`: only crashes
  leave half-made things.
  `ScanIsBounded`: the limits hold and files are whole, however the tree changes.
  `QuietScanIsComplete`: an undisturbed scan finds exactly the admissible files,
  and is refused only for a link or a limit.
- `shell`.  `DemoIsPrepared`: a creation is answered with a project that was
  prepared at the revision it read or since.  `OfferedIsLegal`: the control plane
  takes every action the shell offers, but for a direction the quality gate holds
  back, and but for what a restore or a resumed run has taken away: no direction to
  produce, no package to validate against, no package or brief to redesign from
  (`Lacking`).
- `build`.  `RunsConfined`, `OutIsOneBuild`, `LatestIsAccepted`: as the table asks.
- `release`.  `BypassIsHarmless`: the uncalled delivery validation would have
  refused only two kinds of release, both of an artifact port of its own: an export
  of an older version, whose approval outlived its candidate, and one without a
  manifest past the deterministic gate.  `ReadyReleasesAreClean`: an application that
  reports itself ready releases only content that is clean by the Web gate, unless
  the deterministic gate was bound under a version of its own.

A type invariant is checked where the run has room (`core`); those of the other
modules with proofs are proved, `ShellTypeOK` of `ProductShell` among them
(section 7).

Every property of a passing run has a mutant in `PROJECT.json`: a changed
definition, kept in the module under its own name next to the one it replaces,
under which TLC finds the property violated.

Three runs find the code at odds with its documents and stop at a counterexample:
`reused_revision` (MCProjectControl), `late_release` (MCDurableDelivery, one version
and one key, so that the release goes through the ledger step by step) and
`lost_cancel` (MCAgentLoop), see section 8.

## 5. Bounds, and why they are enough

| bound | where | value | why |
| --- | --- | --- | --- |
| `MaxCandidateRevision`, `MaxArtifactRevision` | ProjectControl | 2 (1 in `late_release`) | one revision by feedback; the number 2, and an artifact's 1, can come up again after a restore |
| `MaxSnapshots` | ProjectControl | 6 to 8 | distinct restorable contents; enough to prepare, design, approve, produce, revise and go back to each of them |
| `Notes` | ProjectControl | 2 (3 in `reused_revision`, 1 in `late_release` and `shell`) | a sound and a breaking text; a second sound text tells two sound contents apart |
| `Runs` | ProjectControl | 0 or 1 | the project reads one run per command; two runs do not read each other |
| `MaxRevision` | CommandStores | 3 | creation and two more, so that two threads can race on the same and on successive revisions |
| `Ids` | CommandPipeline | 3 | each id is sent with every expected revision, which also gives reuse with another payload |
| `Workers`, `MaxReleases` | DeliveryLedger | 3, 3 | one whose lease ran out, its successor, and a third; each can have released |
| `MaxAttempts` | StageRunner | 3 | a first, a middle and a last attempt |
| `Stages`, `Inputs` | StageRunner | 1, 1 | stages meet only in the run's status, which users change anyway, and in its set of completed stages |
| `MaxSteps`, `MaxRenders` | AgentLoop | 3, 1 | an edit, a build and a render, or fewer and the completion; the second render exhausts the budget |
| `MaxRuns`, `MaxUserOps` | AgentLoop | 2, 1 | a run and the one that resumes it; one user operation races with every step |
| `Files`, `Repos` | Intake | 2, 1 | two PNGs, whose observations have one key, so that a confirmation of one meets the other's; a repository has a root and a file |
| `MaxJobs`, `MaxContexts` | Intake | 4, 2 | two sources and two packages, or two callers racing and two calls after them; a package and its successor |
| `MaxSourceRevision`, `MaxLineage` | Intake | 2, 3 | rights revised once between two reads; observed, interpreted, confirmed |
| `MaxDerived` | Intake | 2 | a confirmation of each file, or an interpretation and its confirmation |
| `MaxScans`, `MaxEdits` | RepositoryIntake | 1, 2 | a scan starts from any tree, so a second scan shows nothing new; two changes make a file shrink and another grow |
| `MaxRevision`, `MaxRequests` | ProductShell | 8, 2 | eight revisions reach a delivery, a redesign without a package (7) and a validation without one (8); two requests race |
| `MaxBuilds`, `MaxEdits`, `MaxCrashes` | SandboxBuild | 3, 1, 1 | the two builds of an acceptance and one beside them; WORK changes once under a build; a host dies once |
| `MaxEvents`, `MaxStrayed` | WorkflowRuntime | 3, 1 | start and two changes, or two runs of a project and a change, with polls between any two; one run given a checkpoint too early, beside others that were not |
| `MaxRevision` | WebRelease | 3 | of a candidate and of its artifact together: one revision of either by feedback |

`MaxAttempts`, `MaxSteps`, `MaxRenders` and the limits of a scan are parameters of
the program, `MaxReleases` of the ledger bounds the external adapter.  The others
bound counters the code leaves unbounded.  For the safety properties of the
modules of section 7 none of them matters: they are proved for every value.  One of
the cases of `Lacking` is beyond the bounds of `shell`: a production without a
direction takes nine revisions (create, prepare, design, approve, produce, feedback
that breaks the artifact, feedback on the direction, a restore of that revision, and
a validation in vain).  With `Runs = {}` and
`MaxRevision = 10` TLC reaches it; in the run it rests on the proof.  So does a
restore that meets late releases in `core`, where it takes seven snapshots.

## 6. Fairness and deadlock

Two properties need fairness.  For `CallsEnd`, `StageRunner`'s `Spec`, and
`WorkflowRuntime`'s `RuntimeSpec` that the run checks, have weak
fairness of `WorkerStep(w)` for each worker `w`: a call of `run_stage` is
straight-line Python between operations and transactions that return, so a worker
that is in a call takes its next step or dies.  For `LoopEnds`, `AgentLoop`'s
`Spec` has weak fairness of `LoopStep`: the body of `run` is one thread whose
calls of the model and of tools have timeouts (the client's and the sandbox's).
There is no fairness for users, for crashes, for starting calls, or for any choice
of the model's answer.  That the operations of a stage return is an assumption
about the external operation; the code has no timeout for it.  The other
specifications state safety only.

`pipeline`, `ledger` and `stages` check for deadlock.  The other runs do not: their
bounds (revisions, requests, jobs, runs, builds, events) leave states in which
nothing more can be done, and a session that is completed, a scan that is over or
a delivered project may really stop.

## 7. What is proved

All proofs are for every value of the constants, under the named assumptions in
the modules (None differs from the values it stands beside, bounds are natural
numbers, at least one attempt, at least one candidate, subsets are subsets, the
paths of a tree are numbered in the order of the walk and a file holds nothing).
TLC evaluates the assumptions in the runs above.

`ProjectControlProofs`

- `TypeCorrect`: the type invariant, with the fact that the transient states
  INGESTING, DESIGNING and DELIVERING are never stored.
- `SafetyHolds`: `Safe`, the conjunction of the gate, the authorization, the
  release, the delivery and the validation invariants, is inductive with the
  types.  They are proved together because they lean on each other: that nothing broken is
  released rests on the gate of the project that delivers, that the gate holds
  at READY_TO_DELIVER on what held at the approval, and that a delivered project has a
  bundle of its version on `ReleasesAreSound`.  `ExportGateCorrect`,
  `AuthorizationCorrect`, `ReleasesCorrect`, `DeliveredCorrect` and
  `ValidatingCorrect` follow.
- `EndedCorrect`: an action property, by cases on how a command can leave an
  ended state: only `Restore` does.
- `ProtocolImplemented`: every step is a step of `ReleaseProtocol` or a stutter.
  It needs `CopiesAreSound`, a part of `Safe`: what a thread has read for its
  delivery was through the gate, and stays so whatever the project becomes.
  `ProtocolIsSound`: the protocol itself hands out nothing unsound.
- `EffectPromiseKept`: for each target and profile, with `effects` and `deliveries`
  read as what is settled and told, every step is one of `EffectPromise` or a
  stutter.  `PromiseImplemented` says the same of the ledger that stands behind it.
- `DurableImplementsControl` and `DurableImplementsLedger`: `DurableDelivery`
  implements `ProjectControl` and `DeliveryLedger`.  Leases that run out under a
  worker, repeated releases and dead threads are, to everybody but the ledger,
  nothing or one `DeliverUncommitted`; a `Save` is a `Deliver`.  It rests on `Linked`:
  whoever works for the key has read the project first (`WorkersHaveRead`); what was
  read is among the copies and passes (`ReadingsStand`); as long as nobody has saved,
  it is the project (`FreshAreCurrent`); the row of the key is the effect
  (`RowIsEffect`), and who was answered was answered with it (`AnswersAreOfRow`).
  The ledger's invariants are not proved again: its theorems are cited through an
  INSTANCE, under `DurableAssumption` (no worker is None, `MaxReleases` is a number,
  the profile is one of `Profiles`).
- `DurableCorrect`: of the external world, which `ProjectControl` does not have: all
  that the adapter was made to release, a second time, too late or by a thread that
  died, had passed the gate (`WorldIsSound`), and what the project shows was released
  and is what the ledger holds (`ShownIsReleased`).
- `ShellImplementsControl`: every step of `ProductShell`, any pages, threads and
  losses included, is a step of `ProjectControl` or leaves the project alone.  So
  `ShellIsSafe`: what holds of the control plane holds behind the shell.
- `ShellTypeCorrect`, from `ShellTypes`: with the types, that a request under way is
  about a project that exists and an answer shows a revision it has had
  (`TasksAreInformed`), and that a page that was drawn holds a project
  (`PageIsInformed`).
- `DemoCorrect`: no step but the creation's own puts it in "made"; the revisions of
  the timeline stand (`TimelineGrows`), and the one that the demo was prepared at is
  among them, after the one it expected and not NEW (`PrepareRecords`, `StepKept`).
  A restore may take the project back to NEW, not that revision.
- `OffersCorrect`: every action on offer finds the checks of its handler and the
  transition it ends with satisfied, but for what is `Lacking` after a `TakeBack`
  (`OffersAreMet`).  Two invariants carry it.  `HasGrounds` holds of every behaviour of
  `ProjectControl`, restores and resumed runs included (`StepKeepsGrounds`): what a
  state has whatever brought the project there.  `CameByCommands` holds as long as
  nothing was taken back: package and brief with the candidates, a direction with the
  artifact.  `CommandsDemand` shows the demands to be what the handlers check,
  `GroundsMeetOffers` that the two invariants meet them.

`CommandPipelineProofs`

- `ConsistencyHolds`: the invariant adds to the three safety invariants that
  each command in the history expected the revision before it
  (`ExpectationsMet`), and what a thread knows between its steps
  (`CallsConsistent`): its copy is a prefix of the current project, as long as
  its command expects.  A commit that finds the project as long as the copy
  therefore finds the project it copied, although it compares only numbers.
- `LedgerCorrect`, `HistoryCorrect`, `DoneCorrect`, `LogImplemented`.
- `StoresImplementPipeline`: with either store behind them, the commands are those of
  `CommandPipeline`; the plain calls of other callers leave its variables alone.
- `StoresStayConsistent`: `StoresConsistent` relates the dictionaries of one store to
  the tables of the other: the history of a project is the revisions before it, each
  with the events up to it; the rows are these, one by one; a record names a revision
  that is there; what a thread has read before its write is a revision of its project;
  what a follower has is a prefix of the events.
- `StoresCorrect` and `ReadersCorrect` follow: both answer every query alike, and no
  later call takes back what a reader was told.

`DeliveryLedgerProofs`

- `ConsistencyHolds`, in two halves.  Without any assumption on leases: who
  reports a bundle does so after its release, and the first completion is the
  last.  While no lease has run out under a worker: who is at work holds the
  live claim of the row (`ClaimIsHeld`), so nobody else is, and who is about to
  release finds that nothing was released (`ReleaseIsFirst`).
- `ExclusionCorrect`, `OneReleaseCorrect`, `ResultsCorrect`, and
  `PromiseImplemented`, which needs no assumption on leases.

`StageRunnerProofs`

- `ConsistencyHolds`: besides the invariants, calls for one item are apart as long as
  none has overlapped, who completes the run has saved outputs, and every call
  is at one of its attempts.
- `NotRerunCorrect`, `OutputsCorrect`, `LoopCorrect`, and the action property
  `StandsCorrect`.
- `RuntimeImplementsStages`: `WorkflowRuntime`, fairness included, implements
  `StageRunner`; the calls on the port change nothing a stage reads.
- `RuntimesStayMatched`: by `AdaptersMatch`, a run in memory that has not strayed and
  its row agree but for the reason of a pause that is over; the events of the run,
  numbered from 1, are its rows in the one table of all runs, numbered across them
  (`Tallies`, `Matches`); and what a reader has heard is, in either numbering, the
  events up to its cursor, of a run that strayed too (`ReaderFits`, `StrayedMoves`).
- `AdaptersCorrect`, `PollsCorrect` and, for one number over all runs of a project,
  `ProjectPollsCorrect` (`WatchMatches`) follow.  What is selected from a sequence is
  stated by sets of places and a counting argument, since the prover has no
  induction over sequences.

`AgentLoopProofs`

- `TypeCorrect`: the types, with `Control`, what is certain about the record that
  is about to be saved at each point of `run`.
- `GateCorrect`, from `LocalsAreCurrent`: as long as no tool has raised after
  writing in that run, the loop's locals about the last build and render are true of
  the disk.  It is needed because the gate reads locals and `GateIsCurrent` speaks of
  trees.  Where a tool has (`strayed`), the gate does pass what it should not; the
  theorem is about the other runs.
- `BudgetCorrect`, from `Accounts`: what was done and is not counted yet is at most
  one thing, and nothing while a turn is recorded; a record that was loaded and is
  not stale differs from the file by the turn due.
- `StopCorrect`, from an invariant that work done too late happens once, and that
  the loop is then on its way out.

`WebReleaseProofs`

- `BypassCorrect`, `ReadyCorrect`, from `ReleaseInv`: an export approval that is not
  `outlived` is active only where the project may deliver, has delivered or was given
  new material since, or would be resumed there (`ApprovalsStand`), and is then the
  one of the version in hand (`ApprovalIsCurrent`); every bundle left with a decision
  of the bound gate on the export itself, under an approval of the version that the
  export names (`ReleaseIsAssessed`).  `ReadyUsesWebQuality`: an application that is
  ready has bound the Web gate, or the deterministic one under another version.

`IntakeProofs`

- `TypeCorrect`: the types, what a job holds at each step, and a bound on lineages.
- `NothingHalfMadeCorrect`, from `HalvesHaveMakers`: what is half-made has a caller
  at the step that makes it, or was cut short; a bare mount and a partial one have
  makers at different steps, which is why the invariant keeps them apart.
- `ConsistencyHolds`: rows come after their bytes (`RowsAreFiled`), records after
  their parents (`RecordsAreRooted`), a draft cites rows and records that are still
  there and, as long as nobody has saved a package since it was begun, has the facts
  of every package (`DraftsAreCurrent`), by their keys; so packages are sound when
  saved, and stay so because rows and records only grow (`StoresGrow`).  What a
  package cites are files, roots and observations of their revision (`CitedLeads`),
  and a file that only one caller has made stays whole (`FiledStays`).
- `ReferencesCorrect`, `DeliveryCorrect`, `FactsCorrect` follow, and
  `IntakeImplementsIntake`: with the scan beside it, the intake is still `Intake`.
- `ScanStaysWithinLimits` and `ScanCorrect`: by `ScanFits`, the files collected add up
  to the total, which is within the limits, and what was measured of the next one
  fits what is left; so reading one byte more than that is enough to notice growth.
- `QuietScanStaysComplete` and `QuietScanCorrect`: as long as nobody disturbs it, the
  walk holds, in order, the place it is at and what can be come to ahead of it
  (`Ahead`), and what is behind it is collected and counted (`HasCome`).  Each step
  goes to the next place because nothing that can be come to lies between the two.
  That `IsReached` and `BytesUpTo`, which are defined by recursion on a path, are
  functions at all is shown first, by a least closed set and a least counterexample.

`SandboxBuildProofs`

- `TypeCorrect`: the types, with what a build holds at each step (a source, a letter,
  a bundle) and an acceptance run in each phase.
- `RunsAreConfined`, from `Confined`: the lock is its caller's from the look at the
  free letters to `subst /D` (`LocksAreHeld`), and a letter that was mapped is nobody
  else's (`DrivesAreHeld`), which holds across hosts because `subst` refuses a mapped
  letter and a dead host's letters stay mapped.
- `LatestAccepted`, from `Accepted`: an acceptance run has its workspace to itself
  (`RunsStandAlone`), so all that is made there is of its source (`SourcesStand`),
  and its first two builds find what they copied and compiled
  (`FirstBuildsAreSound`).
- `OutHoldsOneBuild`, from `OneBuild`: a build that is alone finds its source,
  dependencies and output undisturbed (`AloneIsUndisturbed`), and one that is not
  leaves OUT marked mixed (`SharedIsMixed`).

`ValidatingHasArtifact` (ProjectControl), `CompletedIsNotRerun` and `LoopHasResult`
(StageRunner) and the four properties of `DurableDelivery` are proved and not listed
in a run.  `MCDurableDelivery` can be given them: with two workers, two releases and
`MaxSnapshots` 5 TLC finishes in under a minute and finds them true.

Only model-checked: the liveness properties `CallsEnd` and `LoopEnds`, because
fairness and ENABLED are outside the prover; `OfferedIsLegal`, for the same reason,
which says with ENABLED what `OffersCorrect` says of the checks one by one; and the
counterexamples of section 8.

## 8. Findings

Each is a counterexample TLC finds, with the sentence of the documents it
contradicts (quoted in full in `PROJECT.json`).

| run | what happens |
| --- | --- |
| `reused_revision` | Revision 2 of an artifact is delivered; a restore brings revision 1 back, and feedback on it makes another revision 2.  Approval, side-effect key and delivery are named alike, so the second content is DELIVERED with the bundle of the first. |
| `late_release` | A thread reads a project that may be delivered; feedback withdraws the approval; the thread claims the key and releases what it read.  Its save is refused, the bundle is out and the project knows nothing of it. |
| `lost_cancel` | A cancel falls between the load and the save of a turn; the turn is saved over it and the session runs on. |

What the findings do not break is as telling: in spite of `reused_revision` no
broken content is ever released (`ReleasesAreSound`), because the export gate
assesses the version in hand; in spite of `late_release` whatever leaves was once
assessed and approved as it is (`ProtocolImplemented`), and each key keeps to one
bundle (`EffectPromiseKept`), down to what the adapter does (`DurableCorrect`); in spite of `lost_cancel` the loop ends, and the gate
it completes through is sound.

The models contain the following behaviours too.  They are what the code does, and
the properties above hold with them; none has a run of its own.

Commands and runs:

- `_restore` withdraws every approval but may keep the approved direction, and
  `_produce` looks only at the direction (`control.py:938`).  A restore brings
  candidates back without their decisions, so a used revision number can meet an
  old verdict (`:402`).  `_reconcile_workflow` records states as the state to resume
  to from which the transition table has no way back (`:891`).
- A retry that looks its id up before the first execution commits and reads the
  project after it is told STALE_REVISION about its own command (`:230`).
- `fail` clears the lease whoever holds it (`persistence.py:488`); after a crash
  between the two transactions of `checkpoint` the stage is reused and the run
  never learns that it is completed (`runtime.py:331`).
- `pause` and `resume` together bring a canceled or failed run back; a worker
  resumes a run the user has paused.
- Without a transactional writer, a command that raises on `ledger.record` has
  already changed the project; audit rows can be out of revision order.
- The memory runtime numbers events per run, so a cursor over a whole project loses
  some; its pause reason differs from SQLite's for runs that are not paused.  It
  stores a checkpoint of an unknown run before it raises (`memory.py:281`, the tables
  look for the run first, `runtime.py:298`): when that run is started, the same
  checkpoint is answered from the dictionary and never completes its stage.
- A late worker of two that were in one stage writes its failure over a completed
  checkpoint, and a later one its own outputs over that.

Agent, sources and builds:

- A session that exhausted its budget can be resumed.  A render of WORK satisfies
  the gate where a message speaks of the latest build (`agent_engine.py:676`).
- Two savers of one session share its temporary file (`agent_engine.py:1231`): one
  may put the other's record in place, and the other's replace then raises, in the
  loop out of `run`.  A render of WORK leaves its screenshot there
  (`renderer.py:111`), and the next build refuses the tree.
- A crash while a source, a snapshot or a workspace is made leaves what every later
  call refuses (`context.py:101`, `repository.py:317`), or takes for complete (a
  partial mount, `agent_engine.py:860`).  Two callers that write the same new source
  can cut a registered file short.
- Rights revised later do not reach the observations of a source; facts of a
  source that is PROHIBITED are still used.
- The locator of a repository's root names the file `.` (`repository.py:365`), which
  `read_file` never finds, so that it cannot be resolved.  Once the rights of a
  repository are revised, a package cites it by nothing else (`context.py:599`).
- Confirmations are selected by `evidence_key` (`context.py:540`), which is the same
  for, say, the dimensions of every PNG (`:256`): a confirmed fact of one file
  displaces that of another from the package, and a required key counts as confirmed
  whichever file the confirmation is about.
- A snapshot of several files is not atomic: it may be a mixture the directory
  never held.  A root that is replaced during the scan is not noticed.
- Drive letters leak when a host dies.  What a render left in WORK a later acceptance
  feeds to the contract, which refuses it (`framework_artifact.py:312`).  The evidence names the second build although the
  loop may have built again.

Shell and release:

- The shell has no action for a project in NEEDS_INPUT, nor for one that a crash
  left in NEW; the page draws a new id per submit, so its retry makes another
  project.  Late replies can bring an older revision back to the page, and an
  approval may be of content that is no longer on the screen.
- `product-shell-stub-flow.md:86` says "UI 根据 Project state 只开放合法动作" (the UI
  opens only legal actions), and `_actions` goes by the state and the artifact.
  After a restore (`control.py:938`, `:949`) or a resumed run the shell may offer a
  production without a direction, a validation without a package or a redesign
  without package and brief, and the control plane refuses it (`control.py:471`).
- A creation that is repeated after another caller has restored the project to NEW, or
  changed it between the two commands, may be refused; it is then answered with an
  error and never with a project that was not prepared.
- `_reconcile_workflow`, `_prepare` and `_generate_candidates` withdraw no approval
  (`control.py:314`, `:878`).  An artifact is approved, a run asks for input, new
  material is prepared and new candidates are designed, and the approval of the old
  artifact is still active beside that of the next.  An artifact port of its own that
  answers with an export of the old version has it released as the new one:
  `authorize_transition` looks for an approval of the version that was assessed, and
  only the delivery validation (`delivery.py:82`), which nothing calls, compares it
  with the artifact.
- Readiness goes by version strings (`phase6.py:87`): the deterministic gate bound
  under a version of its own makes an application ready, as
  `tests/test_phase6_scaffold.py` has it, and what that releases need not be clean.
- `ValidatedDeliveryPort` is composed and never called; `require_real_slice_ready`
  is called only by tests; the attempts of a remediation are not counted.

## 9. What is not modelled, and why

- `capabilities.py`, `broker.py`: HTTP and pure checks of one answer; the
  interleavings they are part of are in `AgentLoop`, where the model's client may
  answer anything.  `serialization.py`, `paths.py`: encodings.  `src/spikes`,
  `src/lab30min`: experiments.
- Of the partly modelled parts: the DOM and texts of the client; the content checks
  of plans, HTML and images (their verdict is a trait or a property of a version);
  access control entries, pipes and handles of the sandbox; the browser.
- In the modelled parts: wording, identifiers as strings, the metadata of audit
  records, audit records of refused commands, SQLite itself (a transaction is atomic
  and durable), and time beyond whether a lease has run out, a process has timed out
  or a budget of seconds is exceeded.
