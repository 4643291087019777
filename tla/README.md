# bounded-agent-harness in TLA+

TLA+ models of the parts of `bounded-agent-harness` in which several callers, processes
or failures meet, the TLC configurations that check them on small instances, and TLAPS
proofs, for every size of instance, of every safety property that those runs check.
Source references are to `src/src/*.mjs` unless they say otherwise.

## 1. The system and its parts

The harness is a set of ECMAScript modules. A *plan* is compiled to a *workflow
artifact*; `executeWorkflow` runs it step by step through *adapters*, and records
everything in a `FileMemoryStore`: an append-only hash chain of events and one
checkpoint file. Beside that, agents share a *task queue* on disk, *shared memory*
records, *heartbeats* in the event log, and an *owner wake* that a host polls.

There are no threads. What interleaves is: promises of one process (every `await` is a
point at which another call runs), several processes on the same files, and the operator
who cleans up after dead ones. What fails is: the file system between and inside
operations, adapters, and the processes themselves.

| Component | State | Operations | Talks to | What is hard | What makes it correct |
|---|---|---|---|---|---|
| Event log, `memory-store.mjs` | `events.jsonl`, `events.lock`; per process a chain of promises | `append`, `envelopes`/`events`, `lockStatus` | executor, heartbeats, shared memory append to it; operators remove orphaned locks | lock leaked by a failed write, short write, crash holding the lock, late removal by an operator, release that fails after the write | one writer at a time; one chain, readable until a write fails; acknowledged = in the file, refused = never in it; program order; every call is answered |
| Checkpoint file, `memory-store.mjs` | `checkpoint.json` and one `checkpoint.json.tmp` | `checkpoint`, `readCheckpoint` | executor | two writers share the temporary name; a write cut short | a reader sees one whole checkpoint, and a true one |
| Executor, `executor.mjs`, `recoveryCheckpoint` | the run object in memory; its events and checkpoint | `executeWorkflow`, `reconstruct` | log, checkpoint, adapters | failed append or checkpoint at any await, crash, resumption, overlapping attempts, ambiguous external effects, cost of failed attempts | steps in order and once; an unkeyed external effect asked for once; approvals per attempt; memory agrees with the log; cost ceiling; completed is terminal |
| Task queue, `shared-task-queue.mjs` | `ready/`, `claims/`, `results/`, the reservation ledger, the lock directory | `enqueueSharedTask`, `claimSharedTask`, `completeSharedTask`, `inspectSharedTasks` | agents, each in a process | two files per command, rollback, torn writes, leases that run out, dates given by the callers, orphaned locks | overlapping scopes are never held at once; answers are honest |
| Shared memory, `shared-memory.mjs` | `records/<key>.json`, one event per revision | `get`, `put` | event log | check, rename and append are separate awaits without a lock | no lost update; every revision linked into the log |
| Heartbeats, `heartbeat.mjs`, `observability.mjs` | receipts in the event log | `recordHeartbeat`, `summarizeHeartbeats`, `summarizeEvents` | event log | receipt checked against a log that has moved on | receipts of a worker do not go back; the summary shows the latest |
| Owner wake, `file-wake-store.mjs`, `continuation-scheduler.mjs`, `owner-timeout-runner.mjs`, `owner-timeout-watchdog.mjs` | `owner-wake.json`, `owner-wake-schedule.json` | `armOwnerTimeout`, `persistWake`, `scheduleWake`, `readPendingWake`, `pollOwnerWake`, `acknowledgeWake` | hosts; continuation control is the dispatcher | crash between two files, two hosts, dispatch before acknowledgement, a dispatcher that refuses | a scheduled wake is dispatched at least once, consumed once, and the two files agree |
| Continuation control, `continuation-controller.mjs`, `-fork.mjs`, `-gate.mjs`, `model-policy.mjs`, `floor-policy.mjs`, `sandy-review.mjs` | forks, kept by the caller | `decideContinuation`, `createContinuationFork`, `resolveContinuationFork`, validators | wake runner | repeated dispatch, resolution of a fork that is already resolved | no continuation without current reviews; one fork per checkpoint and version |
| Step lifecycle, `step-state-machine.mjs`, `recovery-policy.mjs`, `work-loop-policy.mjs` | a step's state | `transitionStepState`, `decideRecovery`, `decideWorkLoop` | a host, its heartbeat and the owner | lost and late answers, deaths, gated steps beside safe ones | an external effect at most once; every step ends or is the owner's; attempts bounded |
| Token gate and adapter, `token-capacity.mjs`, `token-efficiency.mjs`, `capability-envelope.mjs`, `adapters.mjs` | the adapter's identity and tool list; the provider's window, kept outside | `withTokenCapacityGate`, `evaluateTokenCapacity`, the envelope, `mcpAdapter` | executor, provider | read, evaluate, reserve, identify, list, call in separate awaits, while time passes | a call only within its envelope, its reservation and a known account |
| Compiler, `workflow-compiler.mjs`, `contracts.mjs`, `governance.mjs`, `capability-index.mjs`, `specialist-router.mjs`, `floor-policy.mjs` | each specialist's evidence | `assignSpecialists`, `recordSpecialistOutcome`, `compileWorkflow`, `verifyWorkflowArtifact` | executor runs its result | the layered topological order, ranking by rates | dependency order, cycles refused, authority and floor never exceeded |
| Project context, `project-context-scope.mjs`, `project-context-materializer.mjs` | none of its own; the files of several repositories | `validateProjectContextScope`, `materializeProjectContext` | command line | files written while they are read | one declared version of every source, or nothing |
| Takeover checkpoint, `takeover-checkpoint.mjs` | none of its own; a document kept in the repository | `validateTakeoverCheckpoint` | hosts, which take the snapshots of git and files | the repository moves on after the checkpoint | a valid checkpoint describes what there is; one's own commit of it does no harm |
| Proof release, change impact, package audit | none | validators and classifiers | command line | pure functions of their inputs | - |
| Adapters, CLI, ports, index | none | wiring and I/O | everything | - | - |

`PROJECT.json` lists the same components with their source files and what of each is
modelled, and under `hazards` every place at which this code can go wrong in a way that
a test would hardly reach.

## 2. Modules

| Module | What it is |
|---|---|
| `AtomicLog` | what `append` promises: an abstract log into which every call puts its event at most once |
| `EventLog` | `append` with its lock, reads, writes, releases, crashes and the operator; implements `AtomicLog` |
| `FoldLemmas` | induction over the naturals, and what a function defined by recursion on them is |
| `EventLogProofs` | seven theorems about `EventLog`, that it implements `AtomicLog` among them |
| `Run` | what one run is to those who read its log: steps complete in order within the budget, then the run closes |
| `Executor` | `executeWorkflow` attempts, one action per `await`, and the checkpoint file with its temporary file; its log implements `Run` |
| `ExecutorProofs` | ten theorems about `Executor` and `RunSummary`, that it implements `Run` among them |
| `SharedTaskQueue` | the queue's commands, one action per file operation that changes the disk |
| `SharedTaskQueueProofs` | six safety theorems about `SharedTaskQueue` |
| `TempFile` | files replaced by a write to `<file>.tmp` and a rename, by writers that share the temporary name |
| `OwnerWake` | arming, polling, dispatching and acknowledging an owner wake, one action per `await`, on `TempFile` |
| `OwnerWakeProofs` | five theorems about `OwnerWake` |
| `SharedMemory` | `get` and `put` of shared records, and the events that link them into the ledger |
| `Heartbeats` | `recordHeartbeat` and `summarizeHeartbeats` |
| `ContextPacket` | scope check and materialization of a project-context request while its files are written |
| `Handoff` | the comparison of a takeover checkpoint with a repository that has moved on |
| `RecordsProofs` | theorems about `SharedMemory`, `Heartbeats`, `ContextPacket`, `Handoff` and their composition `MCRecords` |
| `RunSummary` | `summarizeEvents` over the log of `Executor` |
| `PlanCompiler` | routing, the checks of a plan and of its floor, and the compiled order |
| `CompilerProofs` | theorems about `PlanCompiler` and its operators |
| `ContinuationGate` | the review gate, model tiers, `decideContinuation` and its forks while what is reviewed is replaced |
| `StepLifecycle` | the transition table, `decideRecovery` and `decideWorkLoop`, under a host that dies and an owner who may do nothing |
| `ProviderCall` | envelope, token-capacity gate and MCP adapter, for calls that share an adapter and an account |
| `ControlProofs` | theorems about `StepLifecycle`, `ProviderCall`, `ContinuationGate` and, with the compiler, their composition `MCControl` |
| `MC*` | the instances TLC checks; `MCRecords` and `MCControl` put four independent modules each side by side |

`Executor` is built on the abstract log and not on `EventLog`: its `append` either lands
or not, and one that rejects may have landed. What `EventLog` is shown to provide
(`Linearizable`) is that log of what has been *written*, so the two modules compose
without their states being multiplied. One thing does not carry over: after a write that
failed before its newline the file may become unreadable for good, and then an
acknowledged event is in it and cannot be found (`event_log_unreadable`). `Executor`,
`SharedMemory` and `Heartbeats` are about logs that can be read; an attempt at one that
cannot is `RefuseBegin`, or an append that rejects.

Operators named `X_Something` just above `X` are mutated forms of `X`, each the model of
a plausible bug. No action uses them; replacing `X` by one shows that a property really
depends on what `X` does.

### EventLog

State: `log` (the envelopes whose bytes are on disk), `tail` (whether the file ends in a
newline, in an envelope without one, or in a fragment), `lock` and `stamped` (the lock
file, and whether `{pid, acquiredAt}` was written to it), `phase`, `turn`, `view`,
`verdict` (each process's place in `append`, and its local variables), `outcome` (what
each call's promise came to) and `inspected` (what `lockStatus` last told the operator).

One action per await of `append` (70-101): `Invoke` and `Dequeue` are
`serializeLocalAppend`, `OpenLock`/`GiveUp` the `open(..., "wx")` loop, `StampLock` the
write of the pid, `ReadLog` `envelopes()`, `WriteEnvelope` and `ShortWrite`
`appendFile`, `ReleaseLock` and `ReleaseFails` the `finally` block. Two things in the
code deserve notice: the write of the pid is outside the `try`, so its failure leaks the
lock (`StampLock`, second disjunct), and `appendFile` may write an envelope without its
newline, after which the next append is acknowledged while it joins two envelopes on one
line, and the log is unreadable (`TailAfter`). `OutcomesHonest` therefore says that the
bytes of an acknowledged event are in the file and that readers find it there as long as
no write has failed (`FailedWrite`); that they find it always is `AcknowledgedReadable`,
which the code does not provide.

Abstractions. A digest is what it commits to (the sequence of payloads hashed so far),
which is what a collision-free SHA-256 gives. The retry pause changes nothing and is not
an action. A pid is not reused while its lock file stands. There is one operator, who
acts on one report at a time. That the directory or the lock file cannot be created for
another reason than `EEXIST` is a call that rejects at once, and is left out.

### Executor

State: `log`, `checkpoint` and `temp` (what is in `checkpoint.json` and in
`checkpoint.json.tmp`), and per attempt `handle` (whether it has the temporary file
open, and under which name that file can be found by now), `phase`, `run` (the object
`reconstruct` builds and the loop updates, with the call's `approvals`) and `outcome`.
`invoked`, `delivered` and `consumed` record what the adapters saw, and no guard reads
them.

`Begin` is `reconstruct` and its checks (33-53). An attempt is any call of
`executeWorkflow` for the run, with or without `resume`, and with any set of approvals.
`Announce`, `Govern`, `AwaitApproval`, `Park`, `VerifyApproval`, `StartStep`, `Invoke`,
`Answer`, `RecordCompletion`, `SaveProgress`, `Finish`, `SaveResult` are the awaits of
the loop in their order, `RecordFailure` and `SaveFailure` the catch block. Every append
and checkpoint may reject, an append that rejects may have landed, adapters may answer,
be refused, or never answer, and a process may die at any of these points. `checkpoint`
is three steps, as in the code: `OpenTemp` truncates the temporary file, `FillTemp`
writes it, and `CheckpointThen`, inside each action that awaits it, renames whatever has
the temporary name by then, or rejects. Attempts that overlap share that name, so an
attempt may rename another's record or its empty file, find nothing to rename, or go on
writing into a file that has become the checkpoint. A file is a record, empty or torn.
`Answer` updates the run object *before* the completion is appended, as lines 130-132
do.

The constant `Exclusive` says whether attempts may overlap: nothing in the executor
prevents it, so one run checks what holds without it.

Abstractions. Inputs, context projection and outputs are reduced to whether a step's
checks pass (`RefuseStep`, `AnswerRefused`). The compiled order is 1..NumSteps:
dependencies of a step are earlier steps, which is what the compiler produces.
`consumed` counts what adapters used within the step's reservation. The configuration
with `Budget = 1` and two steps of cost 1 is one that `compileWorkflow` refuses; it
reaches `executeWorkflow` in an artifact without `canonical`, which lines 34-35 do not
verify, and it is the instance in which `BUDGET_EXCEEDED` can occur.

### SharedTaskQueue

State: the files (`ready`, `claims`, `results`, `ledger`, `locked`), a `clock`, and per
agent `pc` and `op` (the command's place and its local variables: task, lease end, next
ledger, whether there was no ledger before). `answers` and `handed` record what callers
were told and which results passed `validateTaskResult`.

`Lock`/`Unlock` are `withQueueLock`; `CheckClaim` is `claimSharedTask` up to its first
write (366-386), `CheckResult` the same of `completeSharedTask` (394-403); then
`WriteLedger`, `WriteClaim`/`WriteResult`, and `Undo`, the rollback. Files that a
command reads under the lock are written under the lock only, so all of its reads and
checks are one action; a task that is enqueued meanwhile is either seen or not. Every
write may leave its file as it was, whole, or torn. `Undo` does what the code does:
`previousRaw` is the parsed object, so `writeFile` throws before it opens the file and
the new ledger stays (244-253).

Abstractions. Digests bind a claim to its task and are not modelled apart from that. A
path is a sequence of components in one spelling. `ClearLock` is the person who removes
a lock directory after its holder died; the code has no command for it, and with
somebody removing a live lock the queue gives no guarantee.

Dates. `claimedAt` and `completedAt` are what the caller passes (`--claimed-at`, or the
result packet), and the code compares them with no clock: `Dates` lets them lie in the
past, or up to `MaxAhead` in the future. A claim drops the reservations that have ended
by *its* date, so one that is dated ahead is given a scope that is still held.
`NoSharedScope` is what holds all the same, with `latest`, the latest date of any claim
so far, in the place of the clock. `ScopeKeptForLease` says it of the clock itself; it
is proved for `MaxAhead = 0`, and false otherwise.

### TempFile and OwnerWake

`TempFile` is `atomicJson` (file-wake-store.mjs 14-18) in its three steps: `Open`
truncates the temporary file, `Fill` writes it, `Rename` replaces the target. Because
all writers use one temporary name, `opened` follows each open file: after another
writer's rename it is the target that a writer still writes to (and after a second
rename a file without a name).

`OwnerWake` state: the two files, the `clock`, per host `pc` and `job` (the call's local
variables), `forks` (kept by the dispatcher's caller), and two records of what callers
were told: `armed` and `movedOn`. `DecideWait`, `BuildRecord`, `PersistWake`,
`CheckWake`, `ScheduleWake` and `Confirm` are `decideContinuation` and `armOwnerTimeout`
with the store's two writers; `Poll`, `ReadEither`, `ReadOther`, `Dispatch`,
`Acknowledge` are `pollOwnerWake`, whose two reads run at once and so in either order.
`Dispatch` is `decideContinuation` again, with the fork it may create; `Resolve` is
`resolveContinuationFork`, which looks at no status. `Fail` is a rejected file
operation, a dispatcher that throws, or a death; a host that has failed is idle and may
be called again.

`Decision` also refuses: with `FORK_NOT_LOCAL_ONLY` where the floor is not `localOnly`,
and with `MODEL_BUDGET_EXCEEDED` where an owner who is back cannot be given the tier
that was asked for. `LocalOnly` and `Affordable` name the waits for which it does not. A
refusal is `DispatchRefused`: the poll throws and the wake stays where it is, for every
later poll to throw again.

Abstractions. A wake is its digest. `decideContinuation` is reduced to whether the
reviews pass, whether the owner is there, whether the time is over, whether the class is
C or D, and what the floor allows; the budget of a fork always pays for its tier, the
cheapest. The owner is not prompted again for one checkpoint. Hosts see one clock.

### SharedMemory and Heartbeats

`SharedMemory` state: each key's `record`, the `ledger` of `memory.updated` events, and
per agent `putPc` and `put` (the key and the record it read). `Get` is `get`; `Put`,
`CheckRevision`, `ReplaceRecord`, `LinkRecord` are `put` (36-51) at its awaits,
`AbandonPut` a rejection or a death at any of them. Nothing is held between the check
and the rename, so two puts that overlap may both find the revision they expect.
`TurnTaking` names the keys for which that does not happen; that is an assumption about
the agents, which `put` does not enforce. The properties of order are stated of those
keys, and the other keys are in the model because `acked` is about all of them: there,
two overlapping puts may both succeed. Abstractions: a process makes one put of a key at
a time (its temporary file is named after the process and the key), and a record is its
revision and its author.

`Heartbeats` state: the `receipts` in the log and what each sender is about to append.
`CheckReceipt` is `recordHeartbeat` up to its append (26-37), `AppendReceipt` the rest.
The check is against a log that may have grown since; `OneSender` names the workers for
whom it has not, an assumption as above, and two senders of another worker may bring its
receipts out of order. `Alive`, `Reported` and `AliveAt` are `heartbeatStatus` and
`summarizeHeartbeats`.

### ContextPacket

State: the files (`inode`: what there has been at each path, `name`: which of these the
path names), the `manifest`, and `materializeProjectContext`'s own variables: `request`,
`opened`, `bytes`, `selected`, `findings`, `packet`. `ManifestValid` and `ScopeFindings`
are the scope module; `RootsAccepted` is `normalizeRoots`. `Walk`, `OpenSource`,
`StatHandle`, `Identify`, `ReadLine`, `RestatHandle`, `Reidentify` are the awaits of
`loadSource` (256-297), and `Write` is anybody who changes a line in place, replaces the
file, or removes it between two of them. `past` remembers what every path has held since
the request began: a released section must come from one of these. `TextCode` and
`Section` are `extractHeading` on files of two lines.

Abstractions: each write in place changes the file's size or `mtimeNs` (two writes of
one length within one tick of the clock would go unnoticed). Replacing directories or
links on the way to a file while the request runs is outside the program's own claims
(README.md:87, THREAT-MODEL.md:43) and outside the model. JSON locators are left out,
and so is the order in which a blocked packet lists its findings. A locator `heading:
x`, with a space after the colon, passes the scope check but has no place here.

### Handoff

State: a repository (`branch`, `history`, `work` tree), the `card` once it has been
written, what was `kept` then, and the last `verdict`. `WriteCard` is the host, with any
choice of what is registered, has a digest or is local only; `Edit`, `SwitchTo`,
`CommitOf` and `TakeToClone` are what happens afterwards; `Validate` is
`validateTakeoverCheckpoint` with both snapshots. Without them it compares nothing, so
that case is left out, and so are rewritten histories, renames and the index. The
checkpoint's own file appears in commits only: a host whose status snapshot lists it
must have committed it first, or have recorded that entry. `HandoffSound` says of a file
that was already modified only that it was: the code compares status entries, so a
further edit of such a file goes unnoticed unless the file is registered with a digest.

### RunSummary

`Absorb` is the body of the loop of `summarizeEvents` and `Summarize` the loop, a
recursive function over `Executor`'s log; `SummaryAgrees` relates what an operator is
shown to what the last attempt was told. It is checked in the `executor` run.
`run.failure` is set by `run.failed` and cleared by nothing, so `SummaryAgrees` says
that it is on show from the first failure on, whatever the status beside it, a wait for
an approval included. Providers and times are left out.

### PlanCompiler

State: each specialist's `evidence` and the last compilation with its inputs.
`RecordOutcome` is `recordSpecialistOutcome`; `Compile` is `assignSpecialists` followed
by `compileWorkflow`. The refusals are a set: a plan is refused with the first check
that fails, and which one that is is left out. `Before` compares acceptance rates by
cross-multiplication; the code divides floating-point numbers, which agrees for the
small counts of evidence there are. `OrderedBy` is the layered order of lines 28-34:
each round appends, sorted by id (`Sorted`), the steps whose dependencies are in the
order already, and `OrderOf` is what as many rounds as there are steps have ordered.
Plans are as the shape checks at the head of `validatePlan` leave them (`PlanSteps`,
`PlansAssumption`). `FloorValid` leaves out what a floor says of review roles and
waiting. Ids are numbers in sorting order; digests and governance bundles are left out.

### ContinuationGate

State: the `version` there is now (a workflow and a floor), the `reviews` handed in, the
`forks` the host has kept and the last `answer`. `Review` and `Replace` are the
reviewers and those who edit the plan or its floor; `Ask` is the whole of
`decideContinuation` with the fork it may make; `CarriedOut` lets the host ask again.
The roles required are all roles, as in line 24 of the controller. `due` is the
watchdog's answer, which `OwnerWake` models with its clock.

An absent owner is waited for (`WAIT_OWNER`) under a floor that is not `localOnly`,
although the fork at the deadline is then refused every time; `OwnerWake` follows that
to its end. Another thing the model shows no document rules out: a fork that the owner
has rejected is returned with `CONTINUE_FORK` when the question is asked again, so that
the host must look at the fork's status.

### StepLifecycle

State: each step's `state`, its `tries`, the running `call`, how often its effect was
`applied` and whether a call given up may still land (`late`), and the host with its
`mode`, `window`, `saved` and `alarm`. `Transitions` is the table of
`step-state-machine.mjs`. The policies are pure functions; what calls them is a host the
repository describes (README.md:187-189, 267) and does not contain. `Decide` to
`Conclude` are such a host: it asks `decideWorkLoop` after each unit of work, does what
it says, and takes a failed call to `decideRecovery`. `Stop` ends its window, raises one
of the conditions of escalation, or kills it; `Heartbeat` starts it again. `Provide` and
`Land` are a provider that honours idempotency keys and may answer late or never.
`OwnerActs` is the owner, who finds effects as they are.

### ProviderCall

State: the `clock`, what is `left` of the account's window, and per call its place,
`envelope`, `seen` availability and reservation; `pinned` and `listed` are the
adapter's, shared by all calls. `Request` is the executor issuing the envelope, for a
step that need not have been compiled (an artifact without `canonical` is not verified);
`ReadCapacity`, `Evaluate`, `Reserve` are `withTokenCapacityGate`; `Identify`,
`ListTools`, `CallTool`, `CallAnswered` are `mcpAdapter`. Time may pass between any two.
Abstractions: the adapter pins a server and lists tools; the reservation is the host's,
and atomic, as README.md says it must be; a retry of a call is another call.

## 3. Runs

| Run | Instance | Shows |
|---|---|---|
| `event_log` | 2 processes, 2 calls each | type, `MutualExclusion`, `ChainIntact`, `HistoryReadable`, `OutcomesHonest`, `ProgramOrder`, the refinement `Linearizable`, and `EveryCallSettles` |
| `executor` | 2 steps (external, gated, unkeyed; then local), 3 attempts in sequence; 2.0 million states | type, `ApprovalPerAttempt`, `UnkeyedInvokedOnce`, `MemoryMatchesLog`, `CheckpointLead`, `CheckpointAtomic`, `SummaryAgrees`, the refinement `OneRun` |
| `executor_ends` | the same steps, keyed, with governance, 2 attempts in sequence, under fairness | `EveryAttemptEnds` |
| `executor_overlap` | 2 steps without cost, 2 attempts at once, which share the checkpoint's temporary file; 7.0 million states | `DependenciesFirst` and `CheckpointDelivered`: what survives the overlap |
| `shared_task_queue` | 2 agents, 3 tasks (a directory, a file in it, a directory beside it), leases of 1, clock to 1, dates up to 1 ahead of it; 7.4 million states | type, `LedgerDisjoint`, `NoSharedScope`, `AnswersHonest` |
| `owner_wake` | 2 waits with deadlines 1 and 2, the second under a floor that refuses, clock to 2, one host arms, two poll, 2 faults | type, `ArmedIsDurable`, `ConsumedWhenDecided`, `NoReplay`, `ArmedIsDispatched` |
| `records` | 2 agents with 2 puts each on 2 keys; or 2 senders, 2 workers, 3 receipts; or a request of up to 2 of 9 references, 9 manifests and 2 changes of the files; or a checkpoint over 2 files and 2 branches and 3 changes of the repository | type, `NoStaleOverwrite`, `LedgerFollowsRecords`, `SummaryIsNewest`, `PacketSound`, `HandoffSound` |
| `control` | 231 plans of at most 3 steps, 2 specialists, 6 floors; or 2 workflows, 3 floors, 2 roles, 3 reviews and a replacement; or 2 steps (external with a key; external, gated, without) with 2 tries and 2 stops; or 2 provider calls, clock to 3 | type, `CompiledSound`, `ContinuationSound`, `EffectsAccounted`, `CallWithinGrant`, `StepsEndOrWait` |
| `event_log_unreadable` | as `event_log` | violated: `AcknowledgedReadable` |
| `executor_ceiling` | 2 attempts, budget 2 | violated: `ConsumptionBounded` |
| `queue_overlap` | 2 tasks, leases up to 2 | violated: `OverlapRejected` |
| `owner_wake_competing` | both hosts arm, no faults | violated: `ArmedIsDurable` |

The bounds. *Event log:* two processes are the least that can race, two calls the least
with an order to keep and with an append after a failed one; a third process adds no
kind of step (the proofs cover any number). *Executor:* two steps are the least with a
"before", three attempts the least in which a resumption of a resumption reads what the
first resumption wrote; one step is external and gated so that every branch of the loop
is taken. `EveryAttemptEnds`, which needs the whole graph of states, has a run of its
own with two attempts. Where attempts overlap, two are the least that share a temporary
file, and neither costs nor governance tell the properties apart there. *Queue:* three
tasks give an overlapping and a disjoint pair; with a lease of 1, a clock to 1 and dates
up to 1 ahead of it a lease starts, runs out and is taken over by the clock or by a date
ahead of it, commands are dated back, and a date equal to the end of a lease occurs.
Agents are symmetric (no liveness is checked in that run). In the queue's counterexample
the clock runs to 2, and `MaxAhead = 0`, so that no date ahead of the clock can be to
blame. *Owner wake:* two waits are the least that can compete for the store, both
deadlines are reached exactly and one is passed; two hosts dispatch and acknowledge one
wake at once; two faults let a host die between persisting and scheduling and another
fail afterwards. One wait is under a floor that allows work to go on and one under a
floor that refuses it, locally and by its budget. That only one host arms is the
condition under which `ArmedIsDurable` holds, and `owner_wake_competing` shows what
happens without it.

*Records:* two writers are the least that can overlap, two puts the least with which an
agent can come back with what it read before another's put; three receipts let one go
back behind two; a request of two sources shows a buffer carried over and a second
failure after a first success, and two changes let a file be replaced and restored. The
nine references and manifests are one good and one for each way of being wrong. One
tracked and one untracked file give every status, and three changes are a commit of the
checkpoint with something before and after it. *Control:* three steps are the least with
a cycle that is not a pair, and with two layers of which one has two steps; the
compiler's mutant is found there. Two reviews of each role, a duplicate and one
replacement make every reason of the gate occur. Two steps let one wait for the owner
while the other goes on; two tries are the least with a retry, two stops let a host die
and its successor lose its window. Two calls share the adapter's checks and compete for
a window of 8 tokens that takes only one of them beside the headroom; envelopes live for
2 and the clock runs to 3, so that they expire, and a window turns, between any two
awaits. In both runs a behaviour belongs to one of the modules, so that their states add
up.

Deadlock checking is off in all runs: a log whose calls are all answered, a run whose
attempts have ended and a queue of completed tasks rightly stop.

### Fairness

`EventLog` and `Executor` assume weak fairness of each live process's own next step
(`AppendStep`, `OwnStep`, the operations on the checkpoint's files included): the event
loop runs continuations whose promise has settled, and file operations finish, well or
badly. Nothing is assumed of crashes, of the operator, of `Invoke`, and in `Executor` of
`Answer`: an adapter need not answer, and `EveryAttemptEnds` says that this is the only
thing a call can wait for. `append`'s loop ends by its timeout (`GiveUp` is part of the
fair step `AppendStep`); that is why a leaked lock does not block its callers for ever.

`OwnerWake` assumes that time passes, that file operations and dispatchers of live hosts
finish, and that every host keeps polling (README.md:265 gives polling to the host).
Arming is not assumed, and at most `MaxFaults` failures happen. A dispatcher that
refuses is not a failure and not bounded: `ArmedIsDispatched` is about the waits whose
floor refuses nothing; the wake of any other stays where it is.

`StepLifecycle` assumes that a host that runs goes on, that a dead, yielded or waiting
host with something to do is started by the next heartbeat (README.md:267), and that
calls end, if only by a timeout. The owner and the late landing of effects are not fair:
`StepsEndOrWait` says that every step ends or is the owner's to decide, unless the host
has escalated.

### Findings

Four runs refute a statement of the repository's documents:

1. `event_log_unreadable`: "Run history remains inspectable" (THREAT-MODEL.md:18). After
   a write that failed just before its newline, the next append is acknowledged onto the
   same line, and no reader accepts the file again.
2. `executor_ceiling`: "Cost and authority limits remain enforced under adapter failure
   and malformed output" (PRODUCT.md:29). What a refused or unrecorded answer consumed
   is charged to nobody, and a resumption spends it again.
3. `queue_overlap`: "Same or overlapping file/directory scopes are rejected"
   (README.md:45). The rollback of the ledger throws a `TypeError`, so a completion
   whose result cannot be written has given its scope away.
4. `owner_wake_competing`: the host "cannot acknowledge `WAIT_OWNER` without a durable
   next wake" and the store "rejects competing wake identities" (README.md:261, 263).
   Two hosts that arm different wakes at once both find the store empty and share one
   temporary file: one is told its wake is armed while the file is torn or holds the
   other's.

Nine more were met while modelling. They are behaviours of the models, which follow the
code; no run is spent on them, and no property promises what they deny.

- "Completed runs are terminal" (OPERATOR-GUIDE.md:62). The final checkpoint is inside
  the `try` block (`executor.mjs:138`); when it fails, `RecordFailure` appends
  `run.failed` behind `run.completed`. No step is run again (`OneRun`).
- "checkpoints are written atomically" (THREAT-MODEL.md:18, and PRODUCT.md:13). Attempts
  that overlap share `checkpoint.json.tmp` (`memory-store.mjs:126`): one renames the
  file that the other has truncated and not written. `CheckpointAtomic` is about
  attempts that take turns.
- "approval waits remain visible and resumable rather than failures"
  (test/observability.test.mjs:34). No event clears `run.failure`
  (`observability.mjs:33`), so a resumed run that waits for an approval is shown with
  the failure before it; `SummaryAgrees` says so.
- "Same or overlapping file/directory scopes are rejected" (README.md:45). Reservations
  are dropped by the claim's own `claimedAt` (`shared-task-queue.mjs:374`), which no
  clock confirms; `NoSharedScope` therefore ends with a claim dated past the lease.
- "A result ... after lease expiry ... fails closed" (README.md:45). Expiry is judged at
  the `completedAt` inside the result (`shared-task-queue.mjs:399`), as in
  `CheckResult`.
- The watchdog "makes owner absence non-terminal" (README.md:259; ROADMAP.md:101). Under
  a floor that is not `localOnly` the wait is armed, and at its deadline every poll
  throws (`continuation-fork.mjs:50`): `DispatchRefused`, for ever.
- "A stale agent cannot silently overwrite a newer fact" (README.md:203). The check of
  the revision and the rename are separate awaits without a lock
  (`shared-memory.mjs:41`): two puts at one revision can both succeed.
- "Heartbeat identity, timestamp, and cumulative cost cannot regress"
  (THREAT-MODEL.md:31). The check against the last receipt is not under the lock of the
  append (`heartbeat.mjs:32`): two senders of one worker can land in the wrong order.
- A heartbeat is not continuous work (README.md:267). `decideWorkLoop` gives it safe
  work to do before it resumes a continuous run, when a step waits for the owner or for
  a repair.

What does hold beside the findings: the bytes of an acknowledged event are in the file
(`OutcomesHonest`); a checkpoint that can be read is true, however attempts share the
temporary file (`CheckpointDelivered`, `CheckpointLead`), and it can be read where
attempts take turns (`CheckpointAtomic`); until an agent hands a valid result in, nobody
else gets an overlapping scope before a claim is dated past the end of the lease
(`NoSharedScope`); an armed wake comes to a decision where the floor refuses none
(`ArmedIsDispatched`); records and receipts keep their order where puts and senders take
turns (`NoStaleOverwrite`, `SummaryIsNewest`).

## 4. Proofs

Every invariant and every action property of a passing run, and both refinements, is the
statement of a theorem, for any number of processes, calls, attempts, steps, agents,
tasks, scopes, hosts, wakes, keys, workers, files, plans, floors, reviews and times.
What is assumed of these constants is the named `ASSUME` of the module that declares
them, and TLC evaluates it on each run: bounds and times are naturals, `Nobody` is no
process, costs are naturals, gated and external steps are steps, and the like.

Four conditions are not on data but on the use of the code, and each has its reason:

- `Exclusive` (attempts take turns): the theorems of `Executor` that say so. The code
  does not enforce it, so the theorems that do without it are stated without it.
  `executor_overlap` checks two of those with attempts that overlap.
  `CheckpointsAreAtomic` is false without it.
- `MaxAhead = 0` (no command is dated ahead of the clock): `ScopesAreKeptForLeases`. The
  code compares the dates with no clock; `ScopesAreNotShared` is for any dates.
- `OneArmer` (one host arms): `ArmedStaysDurable`, `ConsumedStaysConsumed`.
  `owner_wake_competing` shows that two hosts that arm lose a wake.
- `TurnTaking` keys and `OneSender` workers, in the statements of the properties
  themselves, which are about those keys and workers beside any others.

### Induction

The library's induction theorems take an operator as a parameter, which the provers
cannot instantiate. `FoldLemmas` derives from the well-foundedness of `<` the form that
takes the *set* of the numbers with the property (`Least`, `Induction`), and from that
what a recursive function is (`FoldExists`, `FoldUnique`). So the proofs can speak of
the loops of the code, which the models write as recursive functions or folds: the
reading of a log by `reconstruct` (`CompletedSteps`, `RecordedCost`, the pending steps),
`summarizeEvents`, and the rounds of the compiler, for every log and every plan.

### EventLog

The invariant `IInv` is the conjunction of five parts:

- `TypeInv`, the types;
- `LockInv`: a process between `OpenLock` and `ReleaseLock` is the one on the lock file,
  and the owner the operator was told of is dead; without the second half the operator's
  late removal could remove a live lock;
- `ChainInv`: the log is a chain, and a process about to write has a view that is still
  its end. This is where mutual exclusion is needed;
- `CallInv`: turns, outcomes and phases agree, so that a call that is not yet run is
  pending or unmade and a settled one is not running;
- `LogInv`: what is in the log belongs to a call that reached its write, and every
  acknowledged call, and every running call about to be acknowledged, is in it, in the
  order of the calls.

`HistoryReadable` needs in addition that a log without its newline has an excuse
(`Excused`): a call whose outcome is unknown to its caller, or one about to release the
lock after a write that failed. Every step keeps it (`ExcuseStays`). `StoreIsAtomicLog`
maps each step, under `IInv`, to one call taking effect, one answer, or a stutter
(`AtomicStep`); it is the safety that `AtomicLog` specifies. Its history is what has
been written, which is what readers return until a write fails; `OutcomesStayHonest`
makes the same distinction.

### Executor and RunSummary

Without `Exclusive`, `SharedInv` is inductive: the types, `LogInv` (the log completes
steps in dependency order, and only delivered ones), `AttemptsInv` (an attempt's memory
holds an initial stretch of the order, of delivered steps, ahead of the log by its last
step at most) and `CheckpointInv`, the same of every record in the checkpoint or the
temporary file (`FileOK`). Attempts may swap these files between them by their renames,
and write on in each other's; as both files are only ever filled with an attempt's own
record, emptied, torn or renamed (`FilesKept`), what can be read stays true. It gives
`DependenciesFirst`, `CheckpointDelivered`, `CheckpointLead`.

With `Exclusive`, `AloneInv` adds that one attempt is live (`OneAtATime`), that this one
holds what the log holds, with what its place in the loop adds (`AttemptsAlone`), that
the log completes each step once, in order, within the budget and by an attempt with the
approval it needed (`LogAlone`), that what was told of a completed run is so
(`ReportsInv`), and that a step that was ever invoked has been started in the log
(`CallsAlone`), by which the next attempt knows not to repeat an unkeyed effect.
`ApprovalPerAttempt`, `UnkeyedInvokedOnce`, `MemoryMatchesLog` and the refinement
`OneRun` follow; each step of an attempt is a step of `Run` or a stutter. `SummaryInv`
relates the summary, as a fold of the log, to what was appended last: `TurnsInv` (which
attempt that was), `TotalsInv` (with the failure that stays on show, `AbsorbFailure`),
`ShownOK`.

`CheckpointsAreAtomic` adds `FilesInv` to that: at most the one live attempt has a file
open, that file is the temporary one, and what it closes is its whole record, so that
what is renamed can be read.

### SharedTaskQueue

`QueueExclusive`, mutual exclusion by the lock, is inductive with the types and is
proved only, as what the rest stands on. `LedgerDisjoint` needs `LedgerInv`: the ledger
a command is about to write is disjoint as well. `NoSharedScope` needs `HoldInv`: every
held task has its reservation, with the same end, on file (unless the ledger is torn,
after which no command gets past its checks) or in the ledger about to be written; a
command about to write its claim has its own reservation on file; and where `Undo` would
delete the ledger, nothing is held. All of that is relative to `latest`, which only a
claim that passes its checks moves, and a claim can drop only reservations that have
ended by its own date. Where nothing is dated ahead `latest` is not past the clock,
which gives `ScopeKeptForLease`. `AnswersHonest` needs `HonestInv`: a result file is
there for a claimed task only (`ClaimBeforeResult`), a whole result has freed its
reservation (`ResultsFreed`), and an agent's local variables are what the files are
under its lock (`OpHonest`).

### OwnerWake

`DecidedInv`, for any number of hosts that arm: what a host dispatches is due
(`DispatchedIsDue`), a poll's time is past, and whatever acknowledges a wake, down to
the temporary file, is of one that a decision has ended (`EndedFirst`,
`ConsumedIsEnded`). Where one host arms, `ArmedInv` says who may write what: only the
armer writes new records, and into absent files (`WritesNew`), the wake before its
schedule (`WakeFirst`), what it renames is what it wrote (`OwnTemp`), and other hosts
write consumed records of ended waits only (`ConsumesEnded`). `OwnTemp` is what two
armers break. `ForkDecisionStands`, that a repeated dispatch does not undo what the
owner decided of a fork, needs the types only and is proved without a run.

### SharedMemory, Heartbeats, ContextPacket, Handoff

- `MemInv`: `Counted` (an agent's puts), `Turns` (one put at a time of a turn-taking
  key), `SeenIsPast`, `SeenIsCurrent` (a put past its check replaces the record it
  read), `NewIsUnannounced` (the revision about to be linked is not yet).
- `BeatInv`: one receipt of a one-sender worker is on its way, it follows those in the
  log, and these are ordered; so the best one is the newest.
- `PacketInv`: the contents read are of an inode that its path has named since the
  request began (`HandleKept`), unchanged between the two `stat`s, so the `bytes` kept
  are a past content of the file (`BytesTell`), and so are the sections
  (`SelectedTell`).
- `HandoffInv`: what the card says of the commit it names (`CardTells`), that commits
  are not rewritten (`HistoryTells`), and what a verdict says of the two
  (`VerdictTells`).

### PlanCompiler, ContinuationGate, StepLifecycle, ProviderCall

- The compiler's state is its evidence and its last compilation (`CompilerInv`), so the
  work is in lemmas about its operators: sorting orders without losing ids
  (`SortedFacts`); each round keeps the order right (`RoundOrdered`) and, until all ids
  are in, adds one or leaves a set of steps each waiting for another of the set
  (`RoundGrown`), so that what is refused for a cycle has one (`OrderFacts`); comparison
  of rates by cross-multiplication is total and transitive (`BeforeTotal`,
  `BeforeTransitive`), so that a best specialist exists and is the one routed to; a plan
  that is not refused is within its budget and floor.
- `GateInv`: the types, and that a version has one fork at most, of at most half its
  floor's budget or of one unit (`ForksFit`). That `GatePasses` finds nothing only when
  each role has one passing review of this version is the lemma `PassingIsReviewed`.
- `WorkInv`, of each step: its tries fit its state (`TriesFit`), a step that may not be
  repeated is tried once (`TriedOnce`), effects applied and outstanding are not more
  than the tries (`Counted`), or than one with a key (`KeyedOnce`), and a result means
  an effect (`ResultIsApplied`).
- `CallInv`: what a call past each check of envelope, capacity and adapter has seen.

### Compositions

`records` and `control` check four modules in one run. `PartsAreAlone` (a behaviour of
`MCRecords` is one of each part) and `PartsInv` carry the theorems of the parts over to
`RecordsSpec` and `ControlSpec`: `RecordsTyped`, `RecordsAreSound`, `ControlTyped`,
`ControlIsSound` are about the very specifications these runs check.

### Only model-checked

`EveryCallSettles`, `EveryAttemptEnds`, `ArmedIsDispatched`, `StepsEndOrWait`: liveness
under fairness rests on `ENABLED`, which is beyond the proof system. The four findings
with a run are counterexamples, which only TLC gives.

## 5. Not modelled, and the plan

Not modelled:

- SHA-256, canonical JSON and schema validation: a digest is what it commits to;
- `governance.mjs`, `capability-index.mjs`, `sandy-review.mjs`, `proof-release.mjs`,
  `change-impact.mjs`, the package audit and `token-efficiency.mjs`: checks or reports
  over one finished document, pure functions of their inputs without a state of their
  own; so are the checks of a takeover checkpoint's shape, texts, evidence and
  authority;
- building task packets, the declarative runtime, the command line, the demos and the
  website: wiring and I/O.

Left to do: one log for runs and heartbeats, so that a run id used by a heartbeat before
its run (the hazard at `executor.mjs:12`) becomes a state; the fate of an unreadable log
in `Executor`, which now takes it as appends that reject; and a model of the governance
bundle's digests, if the compiler comes to keep state about them.
