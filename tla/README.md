# Agent Teams for Paseo: TLA+ models, checks and proofs

Agent Teams is a Paseo plugin: a page, and a server part that runs inside the host's
daemon. This directory models the parts of it whose correctness depends on order,
failure, restarts and stale reads, checks them with TLC on small instances, and proves
the most important invariants with TLAPS for all sizes. Paths below are relative to
`src/paseo-agent-team/` unless they start with `docs/`.

Contents: [the system](#the-system) · [modules](#the-modules) · [how the code is
modelled](#how-the-code-is-modelled) · [runs](#runs) · [what the violations
show](#what-the-violations-show) · [proofs](#proofs) · [limits](#limits) · [plan](#plan)

## The system

| Component | State it keeps | Operations | What is hard, and what makes it correct |
|---|---|---|---|
| **Designer job service** `server/designer/service.ts`, `recovery.ts`, `timeline.ts` | one stored record per job; in memory a promise queue per job and the sets `pending`, `observed`, `creating` | start, status (the page's poll), result, cancel, continue (recheck, repair), prepareSave, markSaved, saveFailed, the turn-ended hook, reconcile | every await may let a cancel, a poll or a hook in; the create and every prompt may be lost, doubled by a retry or answered late; the plugin may restart at any await. A prompt is sent at most once, nothing is acknowledged that was not received, a canceled job leaves no agent behind, every job settles |
| **Designer job store** `server/designer/store.ts` | one JSON file per job, a lock file, a reclaim guard | initialize, dispose, list, get, create, update | several plugin processes on one data directory; processes die; the update is a compare-and-swap by revision. One owner at a time, a live lock is never stolen, a terminal job stays terminal |
| **Designer validation** `shared/domain/design-validation.ts`, `design-merge.ts`, `server/designer/planning.ts` | none | validate a proposal, revalidate a result, merge it into the catalog | two programs decide what may be saved; the catalog and the host change between result and save |
| **Designer save on the page** `client/designer/design-save-service.ts`, `use-design-save.ts` | the save in progress | save Roles, save the Team, settle an unknown write, compensate a canceled save | two settings documents with their own revisions, written one after the other under a lease that expires |
| **Designer page** `client/designer/submission-state.ts`, `use-design-jobs.ts`, `TeamDesignerCard.tsx` | draft, request id, job list per host | submit, retry, prefill, switch the host | a lost answer and a retry with the first request's id; answers for another host |
| **Run ledger base** `server/ledger/process-lock.ts`, `atomic-json.ts` | lock, guard, run files | acquire, release, read, commit | as the store's lock; a crash between the temporary file and the rename, a lock lost between the check and the rename |
| **Run engine** `shared/domain/run-engine/*` | the run record: tasks, assignments, gates, claims, budget, effects | reduce an event, schedule, lock, reserve, wake | long sequences of legal events; dispatch, retry and cancel cross on their way |
| **Version management** `server/version/*`, `client/version/*` | the update job, a directory lock, the checkout, private refs | check, start, the detached runner, rollback, confirmation after the reload, the panel | a crash at every step, a second updater, a rollback that fails, answers that overtake each other |
| **Launch** `client/launch/*`, `server/launch-service.ts`, `shared/domain/launch-*.ts`, `seat-plan.ts` | the dialog, launch jobs in memory | preview, start, status | a preview that is stale when it is started; some seats fail to start |
| **Team plans** `server/team-plan-service.ts`, `client/teams/team-plan-state.ts` | the plans the page shows | plan in chunks, probe, plan a draft, refresh | answers for a scope, a text or settings that are gone |
| **Catalog and presets** `client/catalog/*`, `client/roles/*`, `server/templates/*` | Roles, Teams, what was imported | edit, copy, delete, import, synchronize | two revision-checked documents, two windows |
| **Run list and progress** `shared/domain/run-{list,progress}.ts` | none | project the host's agents | pure; not modelled |
| **Host adapter** `shared/paseo/*` | none | create, send, archive, read agents and timelines | external: it is the environment of the models |
| **Wiring, UI, texts** `index.server.ts`, `client/**/*.tsx`, `shared/zh*` | | | not modelled |

How they interact: the page calls the services by RPC; the designer's service reads the
settings, keeps its record in the store, and drives one agent through the adapter; the
host calls back with turn-ended events; the page writes a ready design into the settings
under a lease of the service. A launch and a design use one planner. The run engine is a
reducer over a ledger record that the ledger base would store; the executor between the
two is not in the repository. `PROJECT.json` lists the hazards of each part at their
lines, with the properties that cover them.

## The modules

| Module | Models |
|---|---|
| `DesignRecord` | the stored design job, what the store's `update` accepts, the changes the service writes |
| `DesignService` | one design job: its queue, the RPCs beside it, polls, hooks, the agent on the host, restarts |
| `DesignSave` | saving and compensating a ready design: pages, the lease, two settings documents |
| `DesignStart` | from the draft on the page to the admission of a job |
| `DesignValidation` | when a proposal becomes a result and a result may be saved (extends `TeamModel`) |
| `StoreLock` | the lock file of the job store and its takeover, by several processes |
| `RunLedger` | the ledger's lock and the commits made under it |
| `AtomicRecord` | what the ledger promises of a record: an atomic register (abstract) |
| `RunEngine` | the reducer of a run: dispatch, delivery, review gates, escalation, cancel, retry, revision |
| `RunPlanning` | what is planned from a run: claims, seats, budget reservations, wakes |
| `VersionCheck` | the check for an update, its private refs, the button, the preflight |
| `VersionUpdate` | an update: start, lock, detached runner, rollback, reload, panel |
| `TeamModel` | how a Team becomes seats, Profiles, agents and rows (pure) |
| `Launch` | the dialog, the two RPCs, the job (extends `TeamModel`) |
| `TeamPlan` | the client that keeps the plans of the Teams page current |
| `Catalog` | editors, copy, delete, import and sync of Roles in two windows |

`MCDesignService`, `MCDesignSave` and `MCStoreLock` give the constants of one module.
`MCLocks` (`StoreLock`, `RunLedger`), `MCUpdates` (`VersionUpdate`, `Launch`), `MCPages`
(`DesignSave`, `VersionCheck`, `TeamPlan`, `DesignStart`, `Catalog`, `DesignValidation`,
`TeamModel`) and `MCRunEngine` (`RunEngine`, `RunPlanning`) hold several parts that
share no state: a behaviour is one of one part, chosen at the start, while the others
stay in one initial state. They are bundled to be checked by one run, and are no claim
about how the parts interact.

Where parts do interact they are one module: the service with the host and the page's
RPCs (`DesignService`), pages with the service and the documents (`DesignSave`), the
card with the admission (`DesignStart`), the panel with the service, the runner and the
boot (`VersionUpdate`), the dialog with the service and the job (`Launch`).

## How the code is modelled

**Atomicity.** Page and server are JavaScript: between two awaits a function runs alone,
so an action reaches from one await to the next, and `pc[p]` names the await at which
`p` is suspended. Runs of awaits that only read settings or build prompts are one step:
what is read there is a free choice. Where several processes share files (`StoreLock`,
`RunLedger`, `VersionUpdate`) one action is one file operation or one command, and a
process may die between any two.

**Stale reads.** What a function remembers of an earlier read is in its locals.
Decisions the code takes on a remembered record use the locals, decisions it takes on a
fresh one use the record.

**Mutants.** Every property of a passing run has a mutant in `PROJECT.json`: the same
definition with a plausible mistake, which the run then catches. The mutants stand
before their originals, are marked "A bug", and are used by nothing else.

### DesignRecord and DesignService

The processes are the job's queue, which runs one task at a time (`enqueue`), and the
RPC callers, which do not pass through the queue (`cancel`, `continue`).

`rec` keeps the fields that decide the control flow. The `attempts` array is the
functions `ack` and `turnKnown` of the attempt number, a result is the number of the
attempt whose output it was made of, and `creation.request` is not kept apart from
`creation`, since the code only clears it when the agent exists or the job has ended.
`outputContractVersion` and `existingRolesOnly` are fixed when a job is created; a job
is taken to be one that may report a gap.

`updateRecord` reads, changes and compare-and-swaps until it wins, so `Update` is atomic
on the current record: the change succeeds if the store's guards accept it (`Accepts`),
and otherwise throws. What happens after a throw is a parameter of `Update`, because the
code catches it at some places (a create, a send) and not at others. `StoreFault` is a
write that throws for another reason: a disk error or three lost races.

| Actions | Code |
|---|---|
| `StartRun` `BeforeIntent` `WriteIntent` `AfterIntent` `CreateReturns` `MarkCreated` | `runStart` and `markAgentCreated`, await by await |
| `CreateFailed` `CreateLookup` `CreateUnsure` `ClaimAgent` | `handleCreateFailure`, `claimDiscoveredAgent` |
| `Reconcile` `ReplayLookup` `ResumeLookup` `RecoverSend` `SendEchoed` `SendTimedOut` | `reconcile`, `resumeUnconfirmedCreate`, `recoverPendingSend` |
| `Observe` `Look` `LearnTurn` `Candidate` `WriteReady` `WriteGap` `WriteCorrection` | `reconcileDesignJob`, `processCandidate`, `finishWithRoleGap`, `handleFailure` |
| `SendReturns` `Sent` `SendUnknown` | the send in `handleFailure` and in `continue` |
| `TurnEnded` `TurnFailed` | `handleTerminalOutcome` |
| `Resolve` `CancelLookup` `Adopt` `Archive` `ArchiveReturns` `CancelWrite` | `resolveCancellation`, `archiveForCancel` |
| `Cancel` `AskCancel`, `Recheck` `WriteRecheck`, `Repair` `RepairLook` `WriteRepair` | `cancel`, `continue` |
| `RunTask` `Poll` `HookArrives` `Restart` | `enqueue`, `status`, `onTurnEnded`, a new `createDesignService` on the old record |
| `HostCreates` `HostReceives` `TurnEnds` `CreateLands` | the host, external |

The host creates at most one agent per job (the request carries the agent id and an
idempotency key), sends it the kickoff, starts a turn per prompt, and emits an event
when a turn ends. A request may take effect and its answer be lost; a create whose
outcome was reported unknown may land later (`CreateMayStall`); lookups and archives may
throw (`HostMayFail`). An agent that a lookup shows does not become invisible again, and
after an archive the agent receives nothing.

### DesignSave

A ready design is written by the page, not by the service: its Role first, then its
Team, into two documents with a revision each. The service gives the page a lease of the
job (`prepareSave`) and takes a receipt (`markSaved`) or a report (`saveFailed`).

| Actions | Code |
|---|---|
| `Start` | the runner of `use-design-save.ts`, and when the panel cleans up |
| `Prepare` `PrepareContext` `PrepareLease` | `prepareSave`: record, settings, write of the lease |
| `Fresh` `WriteRole` `WriteTeam` `Settle` | `saveDesign`: `readFresh` and `mergeDesign`, the two writes, `settleUnknown` |
| `Mark` `MarkContext` `MarkWrite` `MarkClear` `ReadBack` | `complete` and `markSaved` |
| `ReportFailure` `WriteFailure` | `recordFailure` and `saveFailed` |
| `Fresh` `RemoveRole` `After` `Restore` | `compensateDesign` with `finishDelete` |
| `Cancel` `Archive` `CancelEnds` | `cancel` and `archiveForCancel` |
| `Lands` `UserEdits` | the settings, external: a timed-out write lands late, users edit |

Documents are counters: how many Roles and Teams of this job they hold, whether a user
has edited the Role, whether another Team names it, and a revision. A write is saved,
refused for its revision, refused as invalid, or fails; a failed write has taken effect,
has not, or (`LateWrites`) takes effect later. The page compares the lease's expiry with
its own clock, so the outcome of that test is a free choice. The job starts out ready;
`needs_continue` ends it here, since what follows belongs to `DesignService`.
`overlapped` is a history variable: a page was given its lease while the run of another
page, which had one, was still under way.

### DesignStart and DesignValidation

`DesignStart` is the card: a text stands for the whole draft. `Press` submits, the
answer is accepted, refused, a conflict, or lost; a lost answer keeps the request id for
the retry (`submission-state.ts`). `Move` switches the host, prefills come from
`/team-design` and from a retry after a gap, and the admission counts active jobs.
`DesignValidation` compares the validation of a proposal, the revalidation when a result
is saved, and the merge on the page, which are separate programs in the code, while the
catalog and the host change in between.

### StoreLock, RunLedger, AtomicRecord

One action is one file operation of `initialize`, `reclaimAndCreateLock`,
`acquireReclaimGuard`, `releaseReclaimGuard` and `dispose`; every read may fail. A store
that died does not come back; its successor is another member of `Stores`. `Gone` stands
for `isReclaimable`: a dead pid, a lock of an earlier boot, or a reused pid. `displaced`
is a history variable: it becomes true when a guard is moved away while its owner still
relies on it, which a takeover by age can do.

`RunLedger` is the ledger's own version of that protocol with the commit of
`atomic-json.ts` on top: `Read`, `Compare` (the digest), `WriteTemporary`, `AssertHeld`
(the guard of the commit), `Replace` (the rename). A record is the sequence of processes
that wrote it, so a lost update is visible as a record that does not extend the one it
replaced. `AtomicRecord` is the abstract register; `Register` says that `RunLedger`
implements it under a refinement mapping, except for commits that *slipped*: the lock
was lost between `AssertHeld` and the rename.

### RunEngine and RunPlanning

Each action of `RunEngine` is one event of the reducer with the inputs the engine may
give it; `Send`, `SendArchive` and `Answer` are the executor and the user. A rejected
event leaves the record alone, so only accepted events are steps. The reducer checks its
own invariants on every new record (`invariants.ts`). Of that check the model enforces
the parts that a legal event really runs into (`Sound`: I2, I3, I7, I8); the others (I4
to I6: counters, gates, nonces, capacity) are *not* enforced but stated as invariants,
and [proved](#runengineinvariant-and-runengineproofs) to hold.

`RunPlanning` holds the pure decisions around the reducer: `Grant` (conflicts between
claims whose paths are spelled in different ways), the seat of every ready task, the
reservation of a dispatch, and the wakes of the coordinator.

### VersionCheck and VersionUpdate

`VersionCheck` reads the installation, its git state and its remote (`facts`), may fetch
the target into a private ref, records that ref first and removes those of earlier
checks, and gives the panel a verdict; a start and the runner's preflight then ask the
same checkout again. `VersionUpdate` takes a fresh and actionable check for granted. A
start looks at the lock, reclaims a stale one, writes its job and spawns a runner; a
command of the runner is one step that may fail without effect or be killed by its
timeout after the effect; the plugin restarts and reads boot records; the panel polls,
and its answers may overtake each other. `disturbed` is a history variable: a lock was
removed that another start had taken meanwhile.

### TeamModel, Launch, TeamPlan, Catalog

`TeamModel` is pure: recursive functions over the members of a Team, as in
`seat-plan.ts`, `profile-resolver.ts`, `launch-plan.ts` and `team-plan-service.ts`.
`Launch` is the dialog and the job; a request reads the settings first and the host
after, both of which change at any time. `TeamPlan` has one operator per function of the
client, from its state to the next one, since they run to completion and call each
other. An answer (`Outputs`) carries the host's contract, the fingerprints it planned
under and the Teams that are planned: a host that cannot read its own facts answers
without a context (team-plan-service.ts:628–635), and a host of another version may
speak the legacy contract or leave Teams out. Or the method is missing, or the transport
fails (`Errors`). Where the code tries alternatives in order the model has `IF`/`ELSE`;
the arms of a `CASE` exclude each other. In `Catalog` a document is written with the
revision it was read at, and a call may fail before or after it took effect.

## Runs

| Run | Instance | Shows |
|---|---|---|
| `DesignFlow` | one caller, one cancel, one repair | a prompt goes out once per attempt, a ready design is the latest output, a canceled job leaves no agent, an ended job sends nothing, late turn events end nothing |
| `DesignRecovery` | one caller, one cancel, one recheck, one restart at any await | the job settles, and a recorded cancel ends it |
| `DesignFaults` | one caller, one repair, one store write that throws, failing lookups and archives, creates that land late | no acknowledgement is guessed |
| `Locks` | three processes, two attempts each; two commits; symmetric | the lock's invariants, for the store and for the ledger; commits implement the register |
| `RunEngine` | nine plans, four agents, two tasks, at most five assignments and turns; two tasks with ten kinds of claim, two seats of ten kinds each, seven intents, four decisions | one writer per task, done means reviewed, counters agree with the history, slots, cancels and terminal states; planning |
| `Updates` | five settings of one update or two that overlap; one launch with two starts, two changes, one trouble | one runner, the end tells what is installed, the panel and the dialog end up showing it; what was confirmed is launched |
| `Pages` | seven parts, listed below | what pages do with documents and answers that change under them |
| `DesignReplay`, `DesignUnsure`, `DesignRepairs`, `StoreLockTakeover`, `DesignSaveLeases` | the smallest instance that shows it | [see below](#what-the-violations-show) |

### Bounds, and why they are enough

Every bound is a guard of the action that spends it; for most of them the theorems
remove it.

**DesignService.** `MaxCancels`, `MaxRechecks` and `MaxRepairs` count the RPCs made,
`MaxCrashes` the restarts, `MaxFaults` the writes that throw. One of each meets every
await of the queue; two requests follow or overlap each other, and two restarts need two
records that matter. `MaxAttempts` is 2 in the runs and 3 in the code: a first, a
following and a last one. That hides one thing: a *second* repair of one user, which
needs a third attempt and behaves like the second user of `DesignRepairs` ([see
there](#what-the-violations-show)). The theorems cover every `MaxAttempts` and therefore
carry the number of repairs as a hypothesis.

**Locks.** Three processes are a dead owner and two contenders; with two attempts each
they meet their own earlier lock. A takeover of a live guard needs a fourth, slow
process. Two commits are one that is compared with the other.

**RunEngine.** The nine plans fix the tasks' tiers, risks and edges so that each reaches
one hard region: late and repeated rejections, escalation to D3 and D4, smoke, reissue,
a cancel in flight, a retry, overlapping tasks, a revised graph, two tasks for one slot.
Four agents are two producers and two reviewers.

**Updates.** One runner that fails or is killed at any command, with restarts and a user
who commits in the checkout; and two starts that overlap. Two changes let the settings
and the host differ at preview, start and create.

**Pages.** `DesignSave` has three runs of save and compensation, two pages, two turns
per document, two conflicts, two lease tries, one edit, one cancel, two faults, and
together two of these troubles, or one with both pages: a compensation needs an earlier
failed save, so that two runs cannot make two that overlap. `VersionCheck` starts in
every checkout and compares every other installation. `TeamPlan` has three scopes, three
drafts and two host snapshots, and plans Teams one per chunk, two at once. `DesignStart` has
two hosts, two texts, a limit of one job, two presses, three moves, one lost answer.
`Catalog` has two windows, one Role of the user and one preset, three tasks and one
failure. `DesignValidation` has two catalogs, three proposals, six hosts and two
changes; `TeamModel` a set of sample Teams.

Deadlock is not checked: a job that has ended or waits for its user does nothing, every
process may die, and a page whose requests are answered is idle.

### Fairness

Weak fairness goes to what runs without a user: the continuation of a settled promise
(the queue's and each caller's own steps, `RunnerMoves`, `JobStep`), timers that the
page keeps while something is pending (`Poll`, `PollLaunch`), recovery at the plugin's
start (`Recover`), and the host's turns, landing creates and clocks (`TurnEnds`,
`CreateLands`, `SendAges`). `Adopts`, by which a panel takes up the job it is told of,
is fair only where a panel stays open (`Followed`). Users, hooks, restarts and faults
are not fair: no property relies on an event that is delivered, on a user or on a crash.
`CancelCompletes` excepts a restart, since what it then needs is shown wrong by
`DesignReplay`. Liveness of the design job is checked where the store does not throw and
lookups answer.

## What the violations show

- **`DesignReplay` / `EndedIsQuiet`.** `resumeUnconfirmedCreate` (service.ts:1499) tests
  `cancelRequested` on a record it read before asking the host for the agent. A cancel
  during that lookup finds neither an agent nor a create in flight and ends the job; the
  stored create is then sent. Steps: start, intent stored, restart, poll, lookup begins,
  cancel completes, create is sent. The store then refuses `markAgentCreated` on the
  ended job, twice, so the agent stays. `runStart` has the second look that is missing
  here.
- **`DesignUnsure` / `Settles`.** An uncertain create sets `outcomeUnknown`, and nothing
  clears it when the agent is found; the observation stays `outcome-unknown` and the job
  stays designing at every poll.
- **`DesignRepairs` / `EachAttemptPromptedOnce`.** Two repairs with the same
  `expectedRevision` both pass, because the revision is compared only with the record
  read first. The proofs showed that one user can come to the same: the send of a repair
  throws although the prompt was received, its turn ends, the queue judges the output
  while the RPC has yet to write its own failure, the job asks for the user again, and a
  second repair (the third attempt) runs beside the first.
- **`StoreLockTakeover` / `OneOwnerAlways`.** A guard that is 30 seconds old is moved
  away from a process that is only slow; that process may already have passed its look
  at the guard.
- **`DesignSaveLeases` / `OneSaveLease`.** `prepareSave` refuses a second client on the
  record it read first and writes the lease after reading the settings; two calls that
  overlap are both given one. What follows is the reason for `~overlapped` in
  `SavedIsWhole`: after a save that failed between Role and Team, one page may retry
  while another compensates. The second has found the Role unused; the first writes the
  Team and marks the job saved; then the Role is removed, for the revision of its
  document has not changed. Restoring it is tried but may fail.

## Proofs

Eight modules, checked by `tlapm` to the last leaf, from the named assumptions on the
constants only: bounds are numbers, switches are Booleans, the queue is no caller, no
constant doubles as a job or a lock, the Roles of `Launch` are well formed. Where the
theorem needs more, it says so in an `ASSUME` of its own, explained below. Each main
theorem follows the same line: an inductive invariant, one lemma per action, and a last
temporal step. TLC checked every invariant on the run's instance first.

| Module | Theorems |
|---|---|
| `DesignServiceProofs` | `TypeCorrect`, `AckedMeansReceivedHolds`, `EachAttemptPromptedOnceHolds`, `LateTurnEndsNothingHolds`, `ReadyIsLatestHolds`, `NoOrphanAgentHolds`, `EndedIsQuietHolds` |
| `DesignSaveProofs` | `RowsOnceHolds`, `EditedKeptHolds`, `SavedIsWholeHolds` |
| `LocksProofs` | of `StoreLock`: `LockInvHolds`, `MutualExclusion`, `LockKept`, `LiveLockSafe`; of the behaviours of `Locks`: `LedgerTypesHold`, `LedgerHasOneHolderHolds`, `LedgerSlipNeedsDisplacementHolds`, `LedgerIsRegisterHolds` |
| `RunEngineInvariant` | the inductive invariant of `RunEngine` and the lemmas of half of its events |
| `RunEngineProofs` | `RunInvHolds`, `RunTypeOK`, `RunSingleWriter`, `RunDoneIsReviewed`, `RunCountersMatchHistory`, `RunSlotsBounded`, `RunCancelledIsQuiet`, `RunTerminalIsFinal` |
| `UpdatesProofs` | of `Launch`: `LaunchTypeCorrect`, `LaunchSoundHolds`; of `VersionUpdate`: `TypeCorrect`, `OneRunnerHolds`, `EndTellsTheTruthHolds`; `TypedHolds`, of the behaviours of `Updates` |
| `PagesProofs` | of the behaviours of `Pages`: `CatalogSoundHolds`, `CheckSoundHolds`, `DesignStartSoundHolds`, `PlanPageSoundHolds` |
| `DesignValidationProofs` | of the behaviours of `Pages`: `DesignSoundHolds` |

### DesignServiceProofs

For every number of attempts, callers, calls, restarts and store faults.

- **`TypeInv`** is `TypeOK /\ RoundLeft`. `TypeOK` alone is not inductive:
  `WriteCorrection` stores attempt `att + 1`, which is in range only because `Candidate`
  prepares a correction while a round is left, several awaits before.
- **`AckInv`** says what the record and each process's place tell of the host. Before
  the create is asked for, nothing exists (`NotAsked`); once an agent is known it is
  there and was kicked off (`AgentThere`, `KickedOff`); a process that holds a confirmed
  answer is at a place where the prompt was received (`QueueFits`, `CallerFits`); and no
  repair runs beside the queue's way of a create (`CreateAlone`). `AckedMeansReceived`
  is one conjunct.
- **`PromptInv`** relates what was delivered to the attempt in the record and to the
  attempts that processes carry in their locals. A prompt of an attempt is `Fresh` until
  the attempt's sender has sent it; the queue and a repair are never both about to send
  (`Apart`, `OneRepairs`). Most steps are `Calm`: they send nothing, leave the attempt
  alone and only settle entries that nobody is about to send. For those one lemma
  suffices.
- **`ReadyInv`** says that a job that offers a result offers that of its last attempt
  and nobody judges anything (`Offers => IsLast`). Most steps keep the round.
- **`OrphanInv`** follows the create request, which is sent once where nothing restarts
  and no write fails: by the first task, if it saw no cancel when it looked last. From
  the stored request to the settled create the job is in the `creating` set, where no
  cancel looks for the agent; whoever is past `resolve` (`CallerTells`) therefore finds
  the queue elsewhere, and a job without agent is one nothing was asked for (`Lacking`).
  When a cancel is written the agent is gone (`AgentIsGone`), and that stays.
- **`EndInv`** says who may end a job while a prompt is about to be sent: nobody. A
  prompt is sent from a job that is `fixing` (`SendingTells`); a cancel that writes has
  archived the agent; and the queue fails a job only for a round that was received
  (`FailTells`, `FirstTells`, `TurnsAreReal`), while the prompt about to be sent was not.

*Hypotheses.* Each excludes a real behaviour of the code that breaks the property, found
while the invariant failed to be inductive and then confirmed with TLC:

- `NotBoth == ~HostMayFail \/ MaxCancels = 0 \/ MaxRepairs = 0`. If the archive of a
  cancel fails, the job is parked, the user may repair it, and the repair crosses the
  queue, which is still at `claim`; the acknowledgement of the create is then guessed.
- `MaxRepairs <= 1`. Two repairs are `DesignRepairs`, with one user or with two.
- `MaxRechecks = 0 \/ MaxRepairs = 0`, for `ReadyIsLatestHolds` only. A recheck of an
  older result that overlaps a repair makes the job ready with the older one.

- `MaxCrashes = 0` and `MaxFaults = 0`, for `NoOrphanAgentHolds` and
  `EndedIsQuietHolds` only. After a restart the stored create is replayed beside a cancel
  that saw no agent: `DesignReplay` is that counterexample. A failed store write has the
  same effect without a restart: it leaves a job `designing` without an agent, and the
  lookup on behalf of the next poll asks for the create again. TLC finds `NoOrphanAgent`
  violated with one fault and no restart.

Restarts and store faults are *not* excluded from the other theorems, stalled creates
from none, and failing lookups and archives only where `NotBoth` says so.

### LocksProofs

For every set of processes and every bound. As long as no guard was displaced, the guard
belongs to whoever is in the guarded section (`GuardIsHeld`), a lock about to be removed
is that of a dead process (`Condemned`), nobody counts as the creator before he is
(`Unmade`, of the store's variant), and who created the lock has it (`LockIsHeld`).
Mutual exclusion alone does not carry over a step: a removal is harmless only because
the removed lock's owner is dead and stays dead, and because no second process is in the
section. `~displaced` cannot be dropped: `StoreLockTakeover` is the counterexample.

The refinement `LedgerIsRegisterHolds` uses `CommitReady`: whoever is past the comparison of the
digest and still has the ledger has read the record that is on disk. So a rename either
extends the record it replaces, which is the register's `Write`, or was made by a
process that lost the ledger after `AssertHeld`, which is what `slipped` records and
`SlipNeedsDisplacement` says cannot happen without a displacement.

### DesignSaveProofs

For every set of pages and every bound, without a condition on the leases. Whoever is
about to add a row, a page at `writeRole`, `restore` or `writeTeam` as well as a write
in flight, carries a revision not later than the document's, and if it is the document's
own, the row is missing (`RoleNote`, `TeamNote`); whoever is about to remove the Role
likewise knows it unedited (`EditNote`). `DocsMove` says what any step may do to the
documents: leave one alone or give it a later revision. Notes survive such a step
(`NotesStay`), a write that fits makes one (`ApplyMoves`), and each action is one or the
other (`StepKeeps`). The action property follows because every step is a `DocsMove`.

`SavedIsWholeHolds` adds `WholeInv`. Only a run with a lease writes (`Leasing`), and
unless two overlapped there is one such run. A page `Answers` for the design when it told
its user so, is about to store the receipt, or came to the receipt without a lease, which
happens only for a job that was saved. A page begins to answer in `MarkContext`, where it
sees both rows; if it still has its lease then, no other page is about to remove the
Role, and once both rows are there none finds the Role removable. Two conditions remain:
`~overlapped`, which is part of the property (`DesignSaveLeases` is the reason), and the
hypothesis `NoLateRemoval`, that `LateWrites` does not contain `removeRole`. With a late
removal TLC violates `SavedIsWhole` with one page, as *Limits* tells.

### UpdatesProofs

**VersionUpdate.** For any number of overlapping starts, restarts, edits and answers under way. `TypeInv`
adds to the types that a runner and its job are in step (`InStep`) and that what a start
or the panel knows was written (`Known`). `RunnerInv` adds that, unless disturbed, a
runner that works has its lock on disk and a start that is about to spawn one holds it
(`LockIsHeld`, `LockIsTaken`): `OneRunner` follows since there is one file. `TreeInv`
adds what is in the checkout at each step of the runner (`TreeIsKnown`), which step is
due next (`StepIsDue`) and when a stale lock may be reclaimed (`ReclaimIsDue`):
`EndTellsTheTruth` is a step out of such a state.

**Launch.** `LaunchInv` says that requests and the dialog only refer to jobs that were made, that
the plan on the screen is the one whose fingerprint is confirmed (`ShownIsConfirmed`),
and what a job's counters say of its agents (`JobInv`). What it rests on is a fact about
data: equal fingerprints of plans without blockers mean equal agents. `TeamModel` is
made of recursive functions on numbers, and the facts about them are proved by induction
through the well-foundedness of the natural numbers, which is a theorem without an
operator parameter.

### PagesProofs

Four parts of `Pages`, each with an invariant of its own while the behaviour is one of
that part (`PartsKeepApart`).

- **Catalog**, for any windows, Roles, presets and bounds, where the presets are among
  the Roles (`CatalogAssumption`). `CatalogInv` says of everything a window
  remembers (an opened editor, the copy of the document behind a task, a notice) that its
  revision is not later than the document's, and with the document's own revision it *is*
  the document (`RoleNote`, `PrefNote`). A write that fits therefore replaces what the
  window has seen, which is `NothingIsLost`. The presets in what it remembers were once
  in the document (`RowsTold`), hence `SeenIsHonest`. For `ImportStaysDone`: a preset is
  in the document, or was deleted, only after an import was recorded or its record had
  failed (`Touched`), so an import that starts by itself and still fits finds nothing
  deleted (`PresetHolds`).
- **VersionCheck**, for any number of checks that overlap and restart, on every
  installation the run explores. A check between its listing and its write-back has every
  private ref on record, and there is one such check (`RefsInv`); what a finished check
  promises is true of the installation, which is what the start looks at (`Promised`).
  The restart clears neither, since both speak of files.
- **DesignStart**, for any hosts, drafts, losses and limit, where `None` is none of the
  records (`StartAssumption`). A request keeps its id as long as its outcome is unknown
  (`AsksInv`); a call knows the card that waits for it, and is accepted only if its job
  exists (`CallsInv`), so what a late answer clears is what the job was made from; a host
  with a job under creation has room for it (`AdmitInv`); and every prefill is in one
  place: queued or being read, in the slot, asked about, or applied (`PrefillsInv`).
- **TeamPlan**, for any scopes, drafts, snapshots, bound on steps, chunk of at least one
  Team, and number of chunks under way, where `NoScope` and `None` are none of what they
  stand beside (`PlanAssumption`). Every function of the client is proved to keep
  `ClientInv`, so a step of a hook, a timer or an answer keeps it however these call each
  other. The list under way is counted (`UnderWay`): its chunks that were answered, those
  on their way, which are of its batch and epoch, and those to be sent make up the total.
  Hence the last answer clears the guard and no earlier one does, and while chunks wait
  all places for calls are taken (`Pumped`). What is shown or kept carries the epoch, and
  no call is of a later one (`ShownInv`, `CallsFit`), so an answer that passes the
  comparison belongs to what is shown. Answers without a context forget the one before
  and drop nothing, so a kept list may be of an earlier snapshot; but as long as it is
  young enough to be shown no other list of its scope is asked for, and the context stays
  its own (`KeptInv`). A pending draft has its timer or its call (`DraftInv`).

### DesignValidationProofs

For any catalogs, hosts, proposals and edits of Roles and any number of changes, where a
proposal names its members in a list and `None` is no seat id (`DesignAssumption`).
`DesignInv` says of a stored design that its Team and its Roles were built from a
proposal and its reused Roles are the rest of those it uses (`Well`), that what it shows
is told by its own texts, labels and reasons (`Shows`), and that it passes the check as
long as only its own rows were written.

- `SaveCanBeRetried` is inductive because a row that the save wrote counts as the
  design's own (`OwnRows`): it drops out of the ids and names that are taken, and the
  plan sees the same Profiles with or without the retired keys.
- `SavedIsAsDesigned` relates two catalogs that differ in more than their order: the
  planner takes the design's row of two with one id, the save keeps the one that is
  there. Where the check passes the two are `Alike`, a plan only looks at what is alike
  (`AlikeLaunch`), and the agents of a plan without blockers are `View` of texts,
  labels and Profiles (`ShownIsView`), by induction over the members.
- `GapIsReal` needs no invariant: a Role for which no Profile resolves blocks every plan
  that uses it.

### RunEngineInvariant and RunEngineProofs

For every number of tasks, assignments and turns, every set of agents and every set of
plans with a well-formed policy (`WellFormedPolicy`: a slot and an attempt at least,
seats with a tier, overlaps between two different tasks). The six properties the run
checks and `TerminalIsFinal` follow from one invariant, `Inv`: the plan is one of
`Plans`, the record is `Good`, and it passes `Sound`, the part of the reducer's own
check that the model enforces. `Good` is, for each task,

- **`History`**, what its assignments tell: producers take over from each other only
  when those before have ended and can report no more (`OneAtATime`); the last one is of
  the current attempt and nobody's predecessor (`LastIsHead`); attempts are counted
  without a gap (`AttemptsCounted`); reviewers and smokers were asked about a delivery
  of this task that was reported done (`RepliesFit`); a nonce is accepted together with
  its proof (`ProofsAccepted`); what the task refers to is its last producer's delivery
  (`RefIsDelivery`); failures are counted once per delivery, by the task and by the
  escalations up to their attempt (`FailuresCounted`);
- **`Status`**, what its state says of them: nothing has happened to a task that is
  absent, one that waits has its dependencies in the graph, whoever may still run holds
  the claim, a done task was reviewed, an open cancellation lists every actor that is
  not settled, a withdrawn actor is frozen;

and the slots are not exceeded (`CapacityHolds`). None of the six is inductive alone.
`CountersMatchHistory` needs to know which delivery a late reply is about, and that an
earlier attempt no longer gains failures; `DoneIsReviewed` needs that nobody is asked
about a delivery after its task is done, hence where the references come from;
`SingleWriter` needs what a takeover leaves behind, and that a cancellation keeps the
claim until its last actor is settled.

`RunEngineInvariant` proves the events that bring nothing new into the history, the
cancellation, the turns of the host and the lifecycle. `RunEngineProofs` proves the
reports, the gates with their failures and escalations, the reissue, the takeover and
the dispatch, and then every action of `Next` (`NextKeeps`), together with `Final`,
which is the step of `TerminalIsFinal`. Every event ends in the same `Finish` (open
gates, recomputed tasks), so that is one lemma which all events use. `Commit` lets a
record pass only if it is `Sound`; a send is not such an event, and that it keeps
`Sound` is proved. What the model does *not* enforce of the reducer's check follows: I4,
I5 and I6 (slots, counters, gates and nonces) refuse no event.

### What is only model-checked

- Liveness: `Settles`, `CancelCompletes`, `EndIsShown`, `LaunchIsShown`. TLAPS proves no
  liveness under fairness.
- Of `Pages`: `Typed`.
- `RunPlanning`, whose decisions are folds over sequences.
- `TeamsAgree`: it compares recursive definitions over samples.

## Limits

**DesignService.** One job; jobs share only the admission limit (`DesignStart`) and the
store. The save RPCs are in `DesignSave`, on a record with the fields they use, so a
lease that blocks `continue` is in neither module. The adapter is bound and the store
initialized whenever a function runs, as every RPC does first; a hook that arrives
before is dropped by the code, and hooks are not fair. An agent with the job's id and
foreign labels is not modelled, nor is the displayed agent status. `attempts` may hold
two entries of one number after concurrent repairs; the model keeps one. When an archive
fails, a canceled job is parked with `cancelRequested` set and no poll takes it up
again, so `CancelCompletes` is checked where the host answers. A late acknowledgement
after a timeout leaves `outcomeUnknown` set when a repair was sent, the state
`DesignUnsure` shows; `DesignRecovery` has no repair.

**DesignSave.** `SavedIsWhole` is checked with late writes that add a row. If the
removal of a Role may land late as well, TLC violates it with one page: the removal
times out, the user retries, the Team is written, and the removal lands with a revision
that still fits. A cancel whose archive returns after the job was saved overwrites
`saved` with `canceled` (`archiveForCancel` writes on whatever the record has become);
no document says which should win, so no property is stated. A compensation that finds
the Role gone reports success without asking whether a Team names it.

**DesignStart, DesignValidation.** After an unknown outcome, leaving the host and coming
back forgets the request id, so a second job may start (excepted in the property).
`DesignJobsPanel`'s count of saves per result is left out. Revalidation does not look at
the Team's id again (the merge does); a Profile's setup may change under the same id;
wording rules are left out.

**StoreLock, RunLedger.** A second taker of the ledger's guard can rename away a live
guard and then remove a live lock, in spite of the comment at process-lock.ts:222;
`displaced` records it. A crash between the exclusive open and the write leaves a lock
nobody can read; a failed read-back leaves one's own live lock.

**RunEngine, RunPlanning.** No executor is in the repository, so `Grant` and the commit
of a new record are external, and the model shows what the reducer allows rather than
what a particular executor does. Seen while modelling: cancelling a task whose retry is
prepared but not sent leaves D1 with empty pairs (reducer.ts:295–303); `dag-revised` has
no lifecycle guard (690); a review may be dispatched to the producer's own agent
(961–1000); an observation after a local withdrawal is rejected by I8; the dispatch does
not check lock conflicts; "decision" is rejected, so D3 and D4 stay open; a turn that
ends in review moves a dev-smoke task to smoke early. In `RunPlanning` claims are stored
with the path as spelled, a task's own claim passes unless frozen, reads are never
frozen, and wakes are deduplicated by category and subject.

**VersionCheck, VersionUpdate.** The private ref is deleted only on success, and
overlapping checks lose records of stale refs (service.ts:899–952). An enabled button
may still be refused when the target's objects were not there at the check. The unlock
reads, then removes (store.ts:99–103): if `disturbed`, two runners. A merge killed by
its timeout after it moved HEAD ends as "failed" without rollback, against
README.md:215–216; `EndTellsTheTruth` excepts it. A commit of the user between a
rollback's read and its reset is dropped. The catch of `runRequest` writes
`recovery_required` from the job it read first (runner.mjs:60–73), which `EndIsShown`
excepts; a failing `log.close()` unlocks while the runner runs (service.ts:1115–1131); a
runner that dies in "running" keeps its lock for ever.

**Launch, TeamPlan.** A start whose answer is lost after the host acted may lead to a
second team. Jobs beyond fifty are pruned. A create that throws after its effect leaves
an agent no job knows, and a job may say archived though the archive failed;
`JobTellsTruth` excepts both. In `TeamPlan` a stale probe clears the flag of the new one
(906–908, 920–921), a chunk mixed of two host snapshots is cached for its lifetime
(596–665), and stale requests count against the limit of requests. Contexts are compared
only when neither is null (602): a list is kept under snapshot A, a minute passes, a
retry sends two chunks, the first is answered without a context and the second under B,
and the list of A is still kept, against the comment at 611. It is past its lifetime and
not shown; that no kept list is shown under a context that is not its own is
`PlansAreCurrent`.

**Catalog.** The Team editor reseeds its draft when `roles` changes
(TeamEditor.tsx:187–216). A delete removes whatever the fresh read has. An import whose
write of the Roles was answered "failed" but took effect is never recorded as done;
`ImportStaysDone` excepts it.

**Not modelled**: prompts and decoding, the run list and progress projections, wiring,
components and texts. They keep no state that another part relies on.

## Plan

The last part of `Pages` without a theorem: `TeamModel`, of which `TeamsAgree` compares
recursive definitions.
