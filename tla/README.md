# PhoneHarness: a TLA+ verification of governed execution

PhoneHarness lets an agent on a host act on an iPhone. An action is planned,
bound to a capability, judged by a Risk Controller, written to a durable ledger,
sent to the MCP server on the phone, observed and verified; the host process may
die at any point and another may take over. This project models the part of the
repository that has to get this right, checks it with TLC on small instances, and
proves its central properties with TLAPS.

Line numbers are those of `src/phoneharness_agent.py` unless another file is named.

## The system

| component | state it keeps | operations | hard behaviour |
|---|---|---|---|
| `ActionObligationLedger` (31497) | obligation records, archive, two idempotency windows | create with rotation, transition, recover_interrupted | rotation chosen on an unlocked read; archive-then-trim over a crash; bounded window; saturation |
| `TaskCoordinator`, dynamic path (22779-23713, 24375-24637) | in-memory session, step states | admit, run_dynamic_step, cancel, replan, recover_dynamic_plan | cancellation from another thread; recovery beside a live runtime; stale checkpoint |
| `GovernedCapabilityBindingRuntime` (25666) | one-use bindings, executor results | bind, validate, execute, verify, evidence | a binding is consumed before the obligation exists |
| `PlanExecutor` (24747) | none of its own | execute | ledger writes that fail around a phone call already made |
| `CoordinatorStateStore` (21187) | checkpoints, recovery leases, lifecycle records, legacy tasks | put/get, acquire/renew/validate lease, cleanup | lease validated and checkpoint put under separate locks |
| `MCPClient` (7143) | none | _rpc, call_tool | an answer lost after the phone acted; exceptions that are not `MCPCallError` |
| `PrivateRecordWriter` (31143), `PrivateAppendJournal` (30890) | a primary and a recovery file | mutate, read, append_once | torn or corrupt files, a sync failing after the replace |
| legacy coordinator (24054-24373) | task records | create, run_next, pause, resume, cancel, restart | work outside the lock between claim and outcome |
| `RiskController` (19506) | one-time authorizations | assess, validate, consume | expiry and reuse |
| `TaskProgressMonitor` (20545) | progress of a task, in its record | assess, mark, clear | a stall reported while a subgoal runs |
| `TaskStateStore`, `LongRunningTaskController` (20046-20544) | task records | transitions, timeouts | restart in the middle of a task |
| binding stores (5664, 6383, 6886, 36502) | one-use bindings with expiry | issue, resolve, discard | use after expiry, double use, capacity |
| `phoneharness_async.py` | tasks, scopes | start, cancel, complete, close | completion racing cancellation and timeout |
| `phoneharness_runtime.py` | supervised components | start, stop, recover | partial start |
| `phoneharness_store.py`, `phoneharness_checkpoint.py`, `phoneharness_multistep.py` | program, step and checkpoint records, claims | run, prepare, commit, assess, resume | two resumers of one checkpoint; a crash between checkpoint and program record; resuming after an unknown outcome |
| `phoneharness_uncertainty.py` | evidence, outcomes | reconcile | a late or contradictory observation |
| `phoneharness_retry.py`, `phoneharness_provider_health.py` | budgets, health windows | decide, record | limits, cool-down, repeated failures |
| `phoneharness_intervention.py` | interventions, credentials | request, answer, expire, use | an answer racing its expiry |
| planning, knowledge, perception, language components | data | pure validation | none that needs a state machine |
| Objective-C server, helpers, preferences | device state | tools | private frameworks; seen here only as the phone that acts on a call or does not |

What makes each correct:

- **Ledger.** An obligation, once stored, is never forgotten or reopened; the store
  stays within its bounds; the archive never contradicts the primary; history is
  moved before it is cut; a create is refused only when it has to be.
- **Governed execution.** A call leaves only after its dispatch is on record and
  after the checkpoint shows the step as begun; one obligation is sent at most
  once; a step whose effect may have happened is not repeated blindly; a
  checkpointed success is backed by the ledger; a cancellation stops what follows.
- **Lease.** At most one recovering runtime writes; a fenced one stops; a task
  whose owner died can be taken over.
- **Retention.** A task is called a success only if it was one, and nothing that a
  recovery still needs is erased by a verdict that is stale by then.
- **Stores.** An acknowledged record survives a crash, a failed write and a power cut;
  a retry is applied once; a damaged primary falls back.
- **Async tasks.** Every task ends on record; an old result never replaces a newer one;
  a cancelled task is answered, and its scope closes.
- **Programs.** A checkpoint is gone on from once and nothing behind it is called
  again, over any number of crashes and resumes.
- **Legacy tasks.** Each subgoal counts once, and only when it passed; recovery ends by
  proof; a cancel is not undone by work under way.

The coordinator calls the binding runtime, which calls the executor, which calls
the ledger and `MCPClient`. All share files guarded by `flock`, so other processes
may act between any two accesses; the in-memory session is shared with other
threads of the process.

## Modules

- `ObligationProtocol` - the states and the transition table of an obligation,
  shared by the two models.
- `ActionObligationLedger` - the ledger and its archive. Each access to one of the
  two locked files is one step, so `create()` is three: `RotateRead` (the unlocked
  choice of the victim), `ArchiveVictim` (the mutation of the archive) and one of
  `CreateInserts`, `CreateReturnsExisting`, `CreateRefused` (the mutation of the
  primary, which counts and trims again under the lock). `Abandon` is a crash or a
  storage error between them. `Move` is `transition()`, used by the executor's and
  the recovery's event names; `RecoverInterrupted` is the one mutation that marks
  every obligation in flight as uncertain. An idempotency event in the window makes
  a call return without effect; one that has left the window is evaluated anew.
  Timestamps matter because oldest-first choices use them and because a record
  newer than the call's clock makes the call fail. `evicted` and `cleanTrim` are
  history variables for `HistoryMoved`.
- `GovernedExecution` - one task of one plan, worked on by several runtimes (process
  epochs). Variables: the ledger, what the phone received, the durable checkpoint,
  the lease, and for every runtime its session, executor results, used bindings and
  the call under way (`job`). `run_dynamic_step` is `Run*`, then `BeforeExecution`
  and `Put`, then the executor's `Claim`, `Create`, `Authorize`, `Dispatch`, `Send`,
  `Respond`, `Verify` or `Unknown`; every ending computes the session the coordinator
  keeps and goes through `Saving`, the whole of `_persist_dynamic_checkpoint` up to
  its put (ownership check, evidence from memory or the earlier checkpoint,
  downgrade of an unproven VERIFIED, validation). `recover_dynamic_plan` is
  `RecoverRead`, `Acquire`, `Reconcile`, `Decide`. `replan_dynamic_task` is `AskPlanner`,
  which looks at the status, and `Replan`, which replaces the session with what the
  planner returned. `cancel_dynamic_task` may come at any moment from another thread of
  the process: `Cancel` changes the session and prepares the checkpoint
  (`cancelling`), and `CancelPut` or `CancelPutFails` ends it any number of steps later.
- `GovernedPromise` - what governed execution promises the user: an obligation is
  recorded, committed to, called at most once and settled for good; until then its
  effect is in doubt. Processes side by side (`shared`), and errors that say nothing of
  the call or cancellations put late (`uncertain`), end part of the promise.
  `GovernedExecution` implements it under `outcome <- Outcome` (ledger states as a user
  tells them apart), `sent <- Sent`, `announced <- Announced` (VERIFIED in the
  checkpoint): `KeepsPromise`.
- `TaskLifecycle` - EXTENDS `GovernedExecution` with the end of a task: evaluation of
  the terminal state, acknowledgement and cleanup (22864-23001, 23715-24001). `client`
  is the call under way: `Open` and `Birth`/`Register` read and write the lifecycle
  record, `Artifacts` reads checkpoint and lease, `Judge` reads the ledger and decides,
  `Permit`, `Erase` and `Settle` carry the decision out. Each is a store access of its
  own and every action of `GovernedExecution` may come between. A checkpoint's digest
  covers `executor_invocation_count`, so that a BEFORE_EXECUTION put makes the view of a
  call under way differ even where the step states are the same (`outdated`).
- `DurableLog` - what a private store promises: events are appended whole, the ones
  acknowledged stay, only an unacknowledged tail may be lost. Damage ends the promise.
- `PrivateStores` - the three writers of private files (`kind`): `PrivateRecordWriter`
  copies the old primary over the recovery file before it writes the new primary,
  `PrivateAppendJournal` writes the primary first, `CoordinatorStateStore` has one file
  and syncs no directory. `disk` is the set of contents a file may come back with after
  a power cut: every rename adds one, a sync leaves the last. It implements
  `DurableLog` under `log <- Visible, intact <- ~harmed` (`KeepsPromise`).
- `AsyncTasks` - `AsyncTaskScope` and its registry in `phoneharness_async.py`. One event
  loop runs everything, so a step lasts from one `await` to the next; `task[i].state` is
  what the handle shows, `task[i].raw` what the asyncio task under it does, and the
  hazards are where the two could part.
- `ProgramResume` - the semantic program runner over the runtime supervisor, the
  checkpoint manager and the resume coordinator. Every transaction of
  `PhoneHarnessStore` is a step. `Boot` to `CleanStop` are the supervisor, `Begin` to
  `OutOfSteps` the runner's nodes and records, `Prepare`, `Commit`, `Deactivate` the
  manager, `Assess`, `Claim`, `Resume`, `Drop` a thread that resumes.
- `LegacyTasks` - the goal-level `TaskCoordinator` for read-only work (24054-24373):
  every look at sessions or claims and every store access is a step of the thread that
  makes it (`call`). `Runs` is `run_next` from its claim to its release.
- `MC...` - the instances TLC checks; `..._proofs` - the theorems.

### What the models leave out

- `GovernedExecution` has the ledger without capacity (a full ledger is a create that
  fails, `budget.faults`) and with an idempotency window that forgets nothing: one task
  makes a handful of events and the window holds 256.
- `READY` and `AWAITING_VERIFICATION` are entered and left inside one step of a call
  with nothing in between that another actor could see on disk, and are not
  represented; `PENDING -> AWAITING_RISK` and `EXECUTING -> VERIFIED` stand for them.
- Only runtimes with the governed interface (`execute_governed_dynamic_step`,
  `risk_plan_for_dynamic_step`) are modelled, which is what the program builds.
- `cancel_dynamic_task` on a settled task or with a stale revision only writes the
  checkpoint anew; concurrent with a running call this is not modelled. Of the
  cancellations of one process one is under way at a time, and a cancellation's look at
  the session, its ownership check and its read of the previous checkpoint are one step.
- `Saving` is one step with the move before it: the ownership check and the read of the
  previous checkpoint (24588-24592) are therefore early by the time of one step. That the
  lease is lost before the check is in `PutFails`; the previous checkpoint
  matters only for evidence of steps that are already over.
- A renewal of the lease (24620) uses the time at which the call began, when the lease
  was valid; it may extend the lease, or grant it anew where cleanup erased it
  (`Renewals`). Otherwise time is only that a lease expires.
- `TaskLifecycle` has one evaluate, acknowledge or cleanup call at a time, and leaves out
  a call that only returns the record. A task is admitted once, because its id is new.
  Of the verdicts those that no call acts on are one (`NONE`), SUPERSEDED_REVISION among
  them; that the executor was never called (23866) needs no disjunct of its own, because
  then no step refers to an obligation.
- `PrivateStores` has `mutate` and `append_once` and no others, and abstracts records to
  their event ids. After outside damage of its primary the record writer promises
  nothing here: it copies the primary over the recovery file without reading it. A
  success told to the retry of a call whose sync had failed is not counted as an
  acknowledgement: the code finds the event in the window and returns. `DurableAck` is
  therefore silent on that case, which a power cut can undo.
- `AsyncTasks` has one scope of one owner. A `CancelledError` nobody asked the registry
  for (`Stray`) is in the model; when the TaskGroup notices the end of such a task
  (`Notice`) it aborts the others. `aborting` says that it aborted by itself, and
  `NobodyLost` and `CancelAnswered` claim nothing from then on. The abort that is part of
  an exit by an exception is no such abort: the registry has been asked before it for
  every live task, so that their cancellations are accepted.
- `ProgramResume` has top-level sequences, and supposes of its environment: the port
  reports an outcome it cannot know as unknown; a resumer names the revision of the
  checkpoint it read; the clock that orders the starts does not go back; work is stopped
  before a clean shutdown; a checkpoint continues at the next node; a read-only call
  tells of no consumed authority. If it told of one, the code would store it
  unchecked (`phoneharness_multistep.py` 880, 924-925, 1025-1026), and `AuthorityOnce`
  would not hold.
- `LegacyTasks` has one coordinator object: its claims are in memory and do not
  serialize two processes on one store. Which signals are a stall is a free choice.
  The task starts when `create` has stored it and its session (24075-24081): its id is
  returned to the caller only then, and no other call can name it before.
- Risk decisions, bindings, verification and the planner are nondeterministic; owner
  digests, contract comparison and integrity digests are taken as matching (a
  mismatch makes recovery return before it takes the lease).
- A record's 16-event limit is not modelled: its fixed event names bound a record well
  below it.

## Runs

| run | instance | shows |
|---|---|---|
| `ledger` | 3 obligations, 2 callers, one full record, two records in all, archive of 1, window of 1, clock 0..1 | `TypeOK`, `StoreBounds`, `ArchiveAgrees`, `HistoryMoved`, `OutcomeIsForever` |
| `governed` | 2 dependent steps, 3 runtimes, 1 replan, 1 expiry, 1 storage error, no overlap; 1 cancellation, not followed into storage errors, expiries or recoveries (`CancelAlone`) | `TypeOK`, `CheckpointAhead`, `AtMostOnce`, `NoBlindRepeat`, `LedgerUndisturbed` |
| `overlap` | 1 step, 2 runtimes, 1 expiry, 1 cancellation, 1 overlapping recovery, but not all three (`NotAllAtOnce`) | `WriteAhead`, `DurableSuccess`, `AtMostOnce`, `KeepsPromise` |
| `lifecycle` | 1 step, 2 runtimes, the second one evaluates; 1 replan, 1 cancellation, 1 expiry, 2 leases; `OneDetour` follows a behaviour until the second of the first three, or a recovery after a cancellation put late | `LifecycleTypeOK`, `SuccessIsReal`, `NeededIsRetained`, `SuccessIsFinal` |
| `stores` | each kind of store, 2 processes, 3 events, window 2, log of 4, 2 storage errors, 1 damage, 2 power cuts | `TypeOK`, `DurableAck`, `AppliedOnce`, `JournalRecovers`, `KeepsPromise` |
| `async` | 3 tasks of 2 kinds, one kind with a deadline, registry of 2 records | `TypeOK`, `CommitsInOrder`, `NobodyLost`, `CancelAnswered`, `ErrorExitCloses` |
| `resume` | 4 programs with every kind of node around a checkpoint, 2 resumers, 2 authorities, 7 steps, 12 revisions, 3 runtimes | `TypeOK`, `ContinuedOnce`, `SuccessIsComplete`, `AuthorityOnce`, `OneEnding`, `NeverBehind`, `UnknownStops` |
| `legacy` | 3 threads, 3 subgoals, any number of crashes | `TypeOK`, `CountIsHonest`, `RecoveryIsEarned`, `CancelHolds`, `ClaimIsReleased` |
| `twice` | 1 step, 2 runtimes, 1 overlapping recovery | `NeverTwice` is violated |
| `repeat` | 3 steps, the last needs the other two; 2 runtimes, 1 replan, 1 expiry | `NeverBlindlyRepeated` is violated |
| `full` | 3 obligations, 1 caller, two records in all | `RefusedOnlyWhenSaturated` is violated |
| `forgotten` | 1 step, 2 runtimes, 1 crash and recovery | `UnknownIsRetained` is violated |

Why the bounds are enough to be interesting.

- Ledger: with one full record every second obligation rotates, with three obligations
  the archive evicts and the tombstones fill the store, two callers suffice for each race
  between a choice and its commit, and a window of one event makes every replay arrive
  after its event was forgotten.
- Governed execution: two dependent steps make a verified step followed by a failure, a
  replan that drops the verified step, and a doomed dependent; three runtimes allow a
  crash during recovery; each environment event occurs once, and most defects need one.
  A cancellation meets every step of a run, of its replan and of its put; the
  constraints keep it from multiplying with the other events, which the proofs do not.
  `overlap` gives two runtimes the same task at the same time.
  It has no replan, so that the clause of `GovernedPromise` about revised plans is checked
  as `NoBlindRepeat` in `governed`, where the refinement itself would take too long; both
  are proved for all bounds.
- Lifecycle: the caller is a process beside the admitting one, which may also take the
  task over and call in its own session; two leases let either process follow the other.
- Stores: three events overrun a window of two, a log of four refuses the next event,
  two errors hit both syncs of a call or a call and its retry, and two power cuts
  meet a file already rolled back once. `Callers` and `Events` are interchangeable.
- Async: the third task evicts the record of a finished one, and a parent with a child
  leaves room for an unrelated task.
- Resume: three runtimes allow a resume of a resumed program; seven steps are fewer than
  the longest program may record, and twelve revisions fewer than it may take, so both
  bounds of the code are met. Programs are short and name every kind of node.
- Legacy: a runner, a slow caller and a third thread that moves the task on between
  that caller's look and its write. Nothing is counted, so nothing else is bounded.

Deadlock is checked in `legacy`, where a call can always be made. Elsewhere a finished
task or program, a closed scope, a full store or an exhausted bound is a place where
these systems may stop.

Every property is shown to depend on the code by a mutant: a definition marked
"Mistake" in the module replaces the faithful one and TLC finds the property violated.

### Fairness

Only what the scheduler or the caller of a step guarantees is assumed.

- `AsyncTasks`: `WF(Loop(i))`, `WF(Close)` - asyncio runs what is ready: a task's first
  step, its done callback, the exit that waits for the last task; and an operation that
  was interrupted, or whose deadline passes, ends in the end. Nothing
  is assumed of an operation that was neither, and no cancellation, spawn or exit has to
  come. With that, `CancelAnswered` and `ErrorExitCloses` say that a cancelled or timed
  task gets a result and that a scope left by an exception closes, also when an
  interruption is swallowed once or the owner is cancelled while it waits.
- `LegacyTasks`: `WF(Runs(t))` - `run_next` goes on, and `execute_subgoal` returns or
  raises. `ClaimIsReleased` says that the claim is then given back.
- The other specifications state no fairness: recovery, retry, acknowledgement and
  resumption happen when a caller asks for them, which the code does not guarantee.

### What the violated runs say

1. `twice`: a session that admitted its plan holds no lease and is never fenced
   (24607). If a recovery starts in another process while it is alive, and reads the
   checkpoint before its BEFORE_EXECUTION record, both find the obligation movable,
   because an executor event already applied is a successful replay, and both send.
   `docs/architecture.md` promises recovery "without double-executing".
2. `repeat`: a process dies after a call; its checkpoint has the step EXECUTING and no
   `ledger_ref`. The first recovery makes it BLOCKED, and the checkpoint it writes
   inherits the missing reference (22418-22428). A second recovery therefore sees a
   hindrance like any other (23523) and asks for a replan; a step independent of the
   first one whose binding is missing sets `failed_step_id`, `replan_dynamic_task`
   accepts a new revision, and a recovery of that sends the step again, while the ledger
   has UNKNOWN_SIDE_EFFECT. `docs/PROJECT-TECHNICAL.md:112` excludes this.
3. `full`: tombstones count toward `MAX_TOTAL_RECORDS` and are never removed, so a
   store of finished obligations refuses every new one, against 31510-31514.
4. `forgotten`: a process that dies after it recorded DISPATCHED leaves a checkpoint
   that does not refer to the obligation. After recovery the retention verdict skips the
   step (23792), calls the task a terminal failure, and an acknowledged cleanup erases
   checkpoint and lease while the ledger holds UNKNOWN_SIDE_EFFECT; ADR-072 (line 52)
   says "retain everything".

More things the models show without a run of their own. An exception other than
`MCPCallError` during a call (for instance a connection reset while the body is read) is
reported as recoverable (25968), and the replanned step is sent again; `history.rawLoss`
marks such a behaviour. A verified failure whose FAILED could not be recorded (24970)
ends like `repeat` when an independent step asks for the replan. A cancellation made
durable after `run_dynamic_step` has looked at the status is overwritten by
BEFORE_EXECUTION (23194), and the step is sent; `SuccessIsFinal` and `CheckpointAhead`
therefore exclude cancelled steps (`history.stopped`, set whether or not the
cancellation could be written). The other way round, the cancellation's put (24603) may
come when the call it was meant for has gone on: it takes no lock before, and
`put_dynamic_checkpoint` (21279) compares neither revision nor lease. A checkpoint that
shows a step as sent is then replaced by one that does not, or revision 2 by revision 1,
and after a recovery the step may be sent again under the other revision. TLC finds both
where `CheckpointAhead` and `NoBlindRepeat` make no exception for it; `history.late`
marks such a behaviour. In the repository only a test calls `cancel_dynamic_task`; the
coordinator's sessions are locked for several threads (22804).

That a task is acknowledged as a failure does not end it: `recover_dynamic_plan` never
looks at the lifecycle record. If the planner gives up on a task with a step still
PENDING beside the failed one, the task is BLOCKED, its failure is acknowledged, and a
recovery then sends that step. The same happens in a chain of steps after a storage error,
when VERIFIED was recorded but reported as failed: the recovery finds the step VERIFIED
and sends the next. The record may also say more than happened: `Settle` writes what the
call read (21312) over an ACTIVE that a replan has put there meanwhile. What holds of
every plan is the statement about successes, `SuccessIsFinal`. `NeededIsRetained` has one
exception, found while proving it: a cancelled task that two runtimes work on, or whose
cancellation was put late, may lose a checkpoint whose step is in doubt, since the
verdict is made between the cancellation that was written and the dispatch that the
work still under way records.
In `LegacyTasks` a resumer that is slow to prepare its goal writes "blocked" over
whatever the task is by then (24671), a recorded cancel included, and the outcome of a
run under way sets a blocked task running or completed (24358-24361); `CancelHolds`
therefore promises only that nothing else overwrites a cancel. In the same way the
outcome of a run makes a task runnable that stalled meanwhile, without the resubmitted
goal that `record_progress` asks for; what holds is `RecoveryIsEarned`.

`AtMostOnce`, `CheckpointAhead`, `NoBlindRepeat` and `LedgerUndisturbed` therefore carry
the condition under which they hold: no two runtimes on one task at a time
(`history.overlap`), for `CheckpointAhead` and `NoBlindRepeat` no cancellation put late
(`history.late`; both together are `Disturbed`), and for `NoBlindRepeat` no raw
transport exception (`history.rawLoss`) and a plan in which each step needs the one
before (`Chained`): then the steps after a blocked one are doomed with it and none of
them can ask for a replan. `WriteAhead` and `DurableSuccess` need none of these.

## Proofs

`ActionObligationLedger_proofs` proves, for every number of callers and obligations
and all capacities allowed by `CapacityAssumption` (the full-record bound does not
exceed the total bound, capacities are positive), the type invariant, `StoreBounds`,
`ArchiveAgrees`, `OutcomeIsForever` and `HistoryMoved`. The inductive invariant is
`TypeOK /\ StoreBounds /\ ArchiveAgrees /\ JobsSound`: `ArchiveAgrees` alone is not
inductive, because the copy that a creator carries from its unlocked read to the
archive must be known to agree with the primary still - `JobsSound` says so, and it
survives other callers' steps because settled outcomes are permanent. `HistoryMoved`
needs a second layer over it: an archival event in the window means that its record
was archived (`WindowMoved`), and a creator that nobody has disturbed would still cut
the record it rotated (`RotationCurrent`).

`GovernedExecution_proofs` proves, for every plan allowed by `PlanAssumption`, any
number of runtimes and all bounds, `TypeOK` and `WriteAhead`. `WriteAhead` is not
inductive: `SendRecorded` adds that a runtime about to send, or waiting for an answer,
has DISPATCHED applied in the ledger, and `StepKnown` that a call past its risk
decision names a step of the plan. Events applied to the ledger are never removed, so
no other runtime can take this away, overlapping or not.

Its second part adds `DurableSuccess`, `AtMostOnce` and `LedgerUndisturbed` in two
layers. `BInv` holds whatever overlaps: `EntryOk` says which states an obligation has left
behind given the events applied to it, `LedgerSound` that none is observed without a call
the phone received, `CallBacked` that a call past its creation has an obligation, and
`SessionProven` and `RecordProven` that every VERIFIED in a session, a checkpoint or a
recovery's copy of one is the ledger's. `DurableSuccess` follows, because VERIFIED is
never left. `OInv` is about one runtime at a time: `Alone` says that at most one has a
session or is recovering, so that nobody else moves the obligation a call relies on
(`InTune`), and a call about to be sent was not sent (`SentOnce`). `Alone` itself needs
that a call has a session (`HasSession`), and that there is a checkpoint as soon as
somebody works on the task, so that nobody admits it a second time.

`GovernedAhead_proofs` adds `CheckpointAhead`. `AInv` says, while nothing is
`Disturbed`, the same of every session and of every copy of a checkpoint that may yet be
written back (`Ahead`), also by a cancellation, as of the checkpoint itself
(`RecordAhead`): what the phone received is of an earlier revision, is withdrawn, or is
past its first states there. The durable record alone is not inductive, since the next
put comes from a session. A cancellation's checkpoint is harmless as long as it is what
the session would still be written as: that is where `history.late` stays FALSE.

Its second part proves `NoBlindRepeat` from `NInv`, for chains of any length. In a
session (`SessionLine`) and in the checkpoint (`RecordLine`) whatever precedes a step at
work is over: VERIFIED with the ledger's word for it, or gone from a later revision. An
obligation in doubt (sent, and not a verified failure) keeps its step halted or over,
so that every later step waits for it, and a session that may be replanned
(`Replannable`) has every doubtful step over: a new revision cannot name it. The
checkpoint alone may lag behind the ledger, and `Shown` says what a recovery will find
VERIFIED through its references. `Lasting` carries all of this over a step: settled
ledger states are permanent. `Chained` is what the run `repeat` lacks: there an
independent step asks for the replan.

Its last part is the refinement: `Spec => KeepsPromise`. A move of the executor is
`Commit`, `Refuse`, `Conclude` or a stutter according to the state it leaves
(`MovePromised`), a reconciliation changes no outcome, and a put announces what
`RecordProven` backs. For `Send` the guard of `Call` is what `NInv` says: DISPATCHED is
applied, without overlap the obligation was not sent, and in a chain the state after the
step is no blind repeat.

`TaskLifecycle_proofs` proves the four properties of the run `lifecycle` for every plan,
any number of runtimes, callers, replans and faults, over the task's own layers in the
form that holds with or without a checkpoint (`HInv`: `AInv` without `Present`, which a
deletion ends). Each layer is inductive by itself:

- `LBase`: record and call keep their shape and agree with how far the call has come
  (`CallSound`). It gives `LifecycleTypeOK`, and `LifecycleStillSafe`: `WriteAhead`,
  `DurableSuccess`, `AtMostOnce` and `LedgerUndisturbed` also hold while checkpoints
  are deleted and written anew.
- `RInv` follows the plans: what a session, a checkpoint and the copy that is being put
  or recovered from leave out is verified in an earlier revision (`Accounted`), also in
  the view a verdict is made from. It gives `SuccessIsReal`.
- `WInv` is about what a verdict was made from. While a runtime works on a step alone,
  and no cancellation was put late, the checkpoint shows the step EXECUTING, and so does
  every view read since the step began, which therefore gets no permission to delete
  (`Displayed`); such a step has no reference yet in any record (`NoRef`), and its
  binding is used exactly once the call has claimed it (`Binding`). A view that has
  permission has nothing under way, and nothing in doubt but what changed since, which
  its digest shows (`Cleared`). It gives `NeededIsRetained`.
- `FInv` adds, while nothing was withdrawn, or put late, and runtimes do not overlap:
  once a task is called a success, checkpoint, sessions and recoveries have only
  verified steps (`Finished`). Up to then a checkpoint is never ahead of the session,
  and one of an earlier revision has a step left (`Trails`, `Behind`), a checkpoint
  about to be put is of the session's plan (`Matches`), the step at work is not verified
  yet (`Fresh`), and neither is the one that a plan may be revised around (`Reopens`).
  It gives `SuccessIsFinal`.

`PrivateStores_proofs` proves, for any number of processes, events, faults and power
cuts, every property of its run. `Typed` adds to `TypeOK` what a call knows at each of
its steps; `OnceSound` that each generation a file may come back with has no repetition
the window does not explain; `RecoverySound` that a spared recovery file is replaced only
after the primary is good again; `KeptSound` that every generation of the primary on
`disk` is readable and holds every acknowledged event, and that a call about to return
has had its event synced. `StoresKeepTheirPromise` is the refinement: each step appends,
acknowledges, loses a tail, damages, or changes nothing of what is visible; the step that
writes needs that the caller's reading of the log is still the visible one.

`AsyncTasks_proofs` proves `TypeOK`, `NobodyLost` and `CommitsInOrder` for any number of
tasks and any capacity. The invariant `Sound` says that a record is evicted only when its
task is over, that the current task of a kind is its newest record, and that the applied
result is not newer than any task that may still commit.

`ProgramResume_proofs` proves every property of its run for all programs, runtimes,
resumers and bounds. `ClaimsSound` (who may still continue from a checkpoint, counted
with those who did), `AuthoritiesSound` (the runner's set covers what the steps record),
`AheadOfCheckpoint` (the node under way is not behind the record's checkpoint),
`UnknownSound` (after an unknown outcome the runner is on its way out) and
`ProgressSound` (every call behind the node under way has its verified step) join the
type invariant. `SuccessesAreComplete` needs `ReturnsLast`: a program that returns
before its last node may succeed with calls it never reached.

`LegacyTasks_proofs` proves the four safety properties for any number of threads and
subgoals. `TakenIsNext` carries what `CountIsHonest` needs over the unlocked call of the
runtime: the index that was read when the subgoal was taken is still the next one when
its outcome is recorded, because only the holder of the claim advances it.
`SomethingLeft` says that also a paused or interrupted task has a subgoal left.

Each proof has lemmas for the actions (`...Step`, `...Facts`, `...Kept`, `...Sound`),
gathered in one lemma about `[Next]_vars`; one temporal step gives the invariance.

Every safety property of the passing runs is proved. Only model-checked are the liveness
properties (`CancelAnswered`, `ErrorExitCloses`, `ClaimIsReleased`): fairness and ENABLED
are out of the prover's reach. So is what a recursive definition computes for every input
(`Downstream` is only shown to be a set of pending steps).

## Not modelled

- `RetryController`: budget and attempt are written in two transactions whose
  compare-and-set is by revisioned identity; nothing in the repository calls it yet.
- `OutcomeReconciler`, `UserInterventionManager` and `CredentialBroker`,
  `ProviderHealthTracker`: what they decide is mostly a function of the evidence they are
  given. Worth a model next: the half-open probe of
  a provider over a crash, and an answer that races its expiry.
- One-time authorizations and one-use bindings: in memory under one lock. The executor's
  use of them is in `GovernedExecution`; expiry and capacity are not.
- The lease's clock. That a recovered task which replans can run no further step (24630)
  is in the model, but not stated: it is a question of liveness.
- Capacity of the coordinator's file: a full store drops finished tasks.
- Planner, skills, knowledge, language, perception, semantic UI, diagnostics, and most of
  the 36,900 lines of `phoneharness_agent.py`: they validate, parse and shape data
  without state that another actor could see. A model of them would restate the code
  line by line. For the same reason the lines that `map` names remain a small share of
  the repository: they are those of its protocols.
- The Objective-C server, the privileged helpers and the preferences run on the phone
  and rest on private frameworks; the phone is an environment that acts on a call or
  does not.

## What is left to do

1. `NoBlindRepeat`, and with it all of `GovernedPromise`, under `LifecycleSpec`: a live
   session whose checkpoint was deleted no longer inherits evidence when it writes anew.
2. The lease with a clock: mutual exclusion and token monotonicity,
   and a takeover after the owner's death under fairness of time and of recovery.
3. Retry budgets and attempts; the provider's half-open probe; interventions.

## Running it

    tlc -config MCGovernedExecution.cfg MCGovernedExecution.tla
    tlapm GovernedExecution_proofs.tla

The `runs` of `PROJECT.json` name the module and the configuration of every run; its
`map` ties each definition to the lines it stands for.
