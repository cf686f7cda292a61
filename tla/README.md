# aiDesk: a verification project

TLA+ models of the aiDesk runtime: the durable workflow engine that runs the
tasks of a project, the tables it keeps, and the jobs that repair them. Every
definition is translated from the code under `src/`; `PROJECT.json` maps each
one to the lines it stands for. The TLC runs check small instances, and TLAPS
proves the main results for every instance.

## The system

aiDesk starts *workflow runs*. A run is a set of tasks with dependencies. A
Temporal workflow executes the run. Its steps are *activities*, which write a
relational database that the API, the web console and a recovery job read, and
which the recovery job also writes.

| Component | State | Operations | Correct when |
|---|---|---|---|
| Status machines (`workflows/state_machine.py`) | none | check a transition | the rows only take the steps the tables list |
| Runtime persistence (`runtime_persistence/service.py`) | run, task, attempt, claim, event, checkpoint rows | transition, append event, claim, heartbeat, release, reclaim, reconcile | one holder per task, ended claims stay ended, a closed run has nothing in flight |
| Workflow engine (`workflows/definitions/base.py`, `workflows/activities/runtime_activities.py`) | remembered run and task status, current attempt, approval slot, heartbeat loop, topological sorter | execute, retry, gate, claim, dispatch, verify, finish | dependencies respected, no orphaned claim, every run ends |
| Recovery (`workflows/recovery.py`, `workflows/router.py`) | the list of stale claims it scanned | reclaim stale claims, reconcile closed runs | it ends what a dead workflow left and harms no live one |
| Runtime API (`workflows/router.py`) | none | start a run, signal an approval, read models | a started run has its rows; a signal reaches the waiting workflow |
| Approval review (`review/`, `workflows/approval_bridge.py`) | approval rows | request, resolve then signal | the decision stored is the decision acted upon |
| Executor dispatch and security gate (`executors/service.py`, `security/service.py`, `workflows/execution_policy.py`) | attempt summaries, artifacts, evidence | evaluate the gate, execute, persist the result | no write beyond what the task may or somebody approved; what is stored of a result refers to what is stored |
| Event log (`events/`, `runtime_persistence/projectors.py`) | events per run with a sequence | next sequence, append, project | gap-free sequences; what is shown of a run follows its rows |
| Memory governance (`memory/`) | versioned records | evaluate, write, supersede, expire | a content is kept once; superseded records leave recall, current ones stay; a remote memory is its record's own |
| Notifications (`notifications/`) | delivery records | send through each adapter, retry, record | what is announced as sent was accepted |
| Control plane and authentication (`control_plane/`, `auth/`) | projects, iterations, users, sessions | create, update, log in | unique keys, sessions expire |
| Agent graph runtime (`agent_runtime/`) | graph checkpoints | execute, interrupt, resume | a result comes from one pass through the graph, however often it was cut |
| In-memory claim manager (`workflows/lease_manager.py`) | claims in a dictionary | as the claim table | the same lease as the database |
| Executor providers (`executors/providers/`, `executors/transports.py`) | a session with a reader, a queue of notifications, what the turn left | open, request, read, time out, close | an execution ends, its success is the provider's, its verification is its own |
| Context assembly (`context/`) | none | query, rank, limit, cut to a budget | an attempt is told what binds it and how the one before it ended |
| Observability, health, integrations, web, contracts | - | I/O, rendering, generated code | not modelled |

How the parts interact: the workflow *calls* activities (at least once, one at
a time); the activities write the *shared tables*, each in one transaction; the
heartbeat loop is a second coroutine of the workflow; people send *signals*
into the workflow's only approval slot; the recovery job runs in the API
process, on the same tables, and never talks to the workflow. A dispatch
activity runs its work in a *thread* that outlives it; an executor talks to an
external provider; memory has a second store outside the database.

What is hard here: the workflow never reads the tables, and the tables never
look at the status they overwrite, so the two agree only by the order of the
calls; activities are repeated after a lost answer; leases lapse while their
holder works; the recovery job acts on a scan that is out of date; a denied
approval closes a run that may yet be retried; the workflow may die at any
await. An answer of a person may be late, doubled, overwritten or meant for
another gate; a thread stores its result after its activity was given up; what is
shown of a run is computed from events that the rows do not wait for; two
requests decide on what a database session read and write in another. `PROJECT.json` lists each hazard at its line.

## The modules

| Module | What it is |
|---|---|
| `StateMachine` | the statuses, the two transition tables, which statuses are in flight or terminal |
| `Lease` | abstract specification: a one-shot lease |
| `RuntimeStore` | the tables of one run; one action per transaction of `RuntimePersistenceService`; `StoreSpec` lets any caller make any call |
| `WorkflowRun` | the workflow, its heartbeat loop, the signals, time, the recovery job and the death of the workflow, over `RuntimeStore` |
| `MCWorkflowRun` | the requests TLC runs it with |
| `AppendLog` | abstract specification: an append-only log in order of time |
| `EventLog` | one stream of events and its concurrent emitters |
| `GraphRun` | the graph executions of the attempts, over `WorkflowRun` |
| `Notifications` | the completion notification and its delivery rows |
| `ReadModels` | composes `GraphRun` and `Notifications` with the log of the run's events, and computes the task graph and the recovery times from it |
| `MCReadModels` | its requests and adapters |
| `SecurityGate` | the gates a bundle has to pass and the bundle a workflow builds: operators |
| `ApprovalFlow` | approvals of one run from the gate to the stored result, over `SecurityGate` |
| `Context` | the queries, the ranking and the budget of a context: operators |
| `TaskContext` | the contexts of the attempts of `ApprovalFlow` |
| `MCApprovalFlow` | its workspace, policies, bundles and projects |
| `Execution` | one execution by a provider |
| `Memory` | memory records, their writers, the remote store, recall and maintenance |
| `MCMemory` | two contents and four candidates |
| `RuntimeStoreProofs`, `WorkflowRunProofs`, `EventLogProofs`, `ApprovalFlowProofs`, `ExecutionProofs`, `MemoryProofs` | theorems and proofs about the module each is named for |
| `ReadModelsProofs` | theorems about `GraphRun`, `Notifications` and `ReadModels`, on top of `WorkflowRunProofs` |
| `TaskContextProofs` | theorems about `TaskContext` and the operators of `Context`, on top of `ApprovalFlowProofs` |

### RuntimeStore

`run`, `task`, `att` and `claim` are the status columns of the four tables.
`stale` abstracts time: the active claims whose heartbeat is older than
their lease (`Lapse` adds one, a heartbeat or the end of the claim removes it).
`WriteRun` is both `transition_workflow_status` and the side effect of a workflow
event, which do the same to the rows, the finalization of a closed run
included. `TransitionTask` writes an attempt row only if it exists;
`TaskEvent` writes both rows, since `append_event` creates what is missing first.

Each operation opens one session and commits once, and the activities that call
it are coroutines without an await, executed by the one worker of
`workflows/workers/runtime_worker.py`. The operations are therefore atomic.
For `claim_task` this is an assumption about the deployment: its check and its
insert are protected by neither a lock nor a constraint.

### WorkflowRun

The workflow is sequential, so a program counter `pc` names the activity or
the wait it is about to do; there is one action per activity, named for it.
`wf` and `ts` are the statuses the workflow remembers, `cur` is the attempt
(task and number), `batch` and `finished` are the topological sorter, `slot`
is `_approval_resolution`. The shapes of an activity are operators: `MoveRun`
and `MoveTask` are the two transition activities, whose legality check uses the
remembered status; `Emit` is an event with its effect on the rows; `GiveUp`
stops the heartbeat and releases the claim. In each, the transaction is
committed and then the answer arrives or, with `lost_ack`, is lost, and the
activity is still to be done.

An activity that raises is retried by Temporal without a limit, so a
refused transition or a refused claim is an action that is not enabled.
Dispatch (one try) and context assembly (three) are the exceptions: their
failure ends the workflow (`Crash`), as `run_timeout` does at any point.

Folded away: events that change no status (todo lists, graph updates, periodic
heartbeats) only append to the log; they are not steps of their own, except
for the first one of an attempt, which creates the attempt row. The order of
the names inside a batch is left open. The graph execution of a task without
an executor always succeeds, as it does in the code unless it raises (and is
then retried). The notification after completion changes no row of the run.
`ReadModels` unfolds these three.

The environment: `HeartbeatLoop`, `Signal` (any answer, with the id of an
approval that was requested or with none, at any time), `LeaseLapse`,
`RecoveryScan` and `RecoverClaim` (two steps: what is reclaimed was read before),
`ReconcileTerminal`, `Crash`. `Faults` says which of them a run allows.

### EventLog

To emit an event takes five steps, each of which may be separated from the next
by those of another emitter: count the rows (`ReadSequence`), build and stamp
the event (`Stamp`), look its key up (`ReturnExisting` or `Lookup`), count again
(`Validate` or `RefuseSequence`), insert and commit (`Insert` or
`RefuseDuplicate`). The worker's activities are coroutines that emit without an
await, so among themselves they do not overlap (`Alone`), and Temporal repeats
one that raised or whose answer was lost. The other emitters are threads of the
API, which try once: today the deprecated development bootstrap, which reports
to the same worker-health stream as the workflows do.

`rows` is the stream's part of `run_events`; a row's `entry` stands for its payload:
who emitted it, which of its events it is, and the time. A stream holds events of one
type here, so the key is the sequence. That is what worker-health streams are, and for a
stream with a single emitter it makes no difference: no two of its
events are built with one sequence unless the first was never stored.
`WorkflowRun` has the other half of `append_event`, its effect on the rows of
the run.

### GraphRun, Notifications, ReadModels

`GraphRun` puts the execution of a graph where `WorkflowRun` has one step. It has
two stores: `thread`, the snapshots LangGraph saves under the attempt's name, one
a node, and `checkpoints`, the rows the service adds when the graph was
interrupted. They are written in separate transactions, and `Cut` ends an execution
between any two of them (a worker dies, an answer is lost); it is then repeated from
its beginning, as Temporal does. Without `Durable` a dead worker takes its threads along,
and the resume that needs one raises for ever (the run then ends by `run_timeout`).

`Notifications` is the activity after completion: the adapters in their order,
`MaxSends` tries each, a receipt that reads failed in place of one that never came, and
a recorder whose failure nobody hears of. A send that raised may have been
accepted; an activity that was cut starts over with the first adapter. `UpdateDelivery` is the
endpoint by which anybody who is logged in writes any status over any row, `sent` included
("failed" stands for every status but that one); a row so written carries
`delivery_updated_at`, the third part of a `DeliveryRow`. `MaxUpdated` bounds such rows.

`ReadModels` adds `log`, the events of the run that say something of a status, a
graph, a checklist, a retry or an approval, in their order. An event is logged by the activity
*after* the one that wrote the row, and some writes have no event. On the log it evaluates what
the API computes: `Shown` is `TaskGraphProjector`, `Checklist` the todo list of a
task, `Pair` the recoveries of `runtime_sla_snapshot`, for every window that starts
somewhere in the log.

### SecurityGate, ApprovalFlow

`SecurityGate` has both implementations of the gate, that of
`SecurityPolicyService.evaluate` and that of the OPA policy, and `BuildBundle`, what the
workflow asks the gate to pass. Paths are compared as in the code, by their names and nothing else:
OPA takes every name that starts with the root's name, siblings included (`Prefixed`), the service
only those where a slash follows it (`Beneath`, which is `_is_path_under_root`). Neither resolves a
link or a `..`: `root/../elsewhere` is `Beneath` the root, and the run has such a path. OPA's
policy file is assumed to be in place (without it OPA denies everything).

`ApprovalFlow` follows one task with an executor. `wf` is where the workflow is: at its
gate, about to dispatch, waiting for the dispatch, waiting for an answer. `slot` holds the
last signal. `job` has the thread of the dispatch activity and one the API may start; the steps of a
thread are the transactions of `ExecutorDispatchService`: the gate's row and the waiting summary, or
execute, check, artifacts, summary, evidence. `late` marks the thread of an activity that timed
out: only `Check` looks at it, which is what `is_cancelled` does. Reviewers
`Decide`, which commits, and then `Deliver`, perhaps twice, or not at all (`SignalLost`);
`SignalRun` is the endpoint that signals without a row. The dispatches of the API, which may name
any attempt, name one that is no attempt of the workflow here. `decided` remembers decisions that were
overwritten, `took` and `ran` what was acted on and executed.

### Context, TaskContext

`Context` has an operator for each query and each stage: entries with scores, ranked and
without repetitions (`RankEntries`), cut to blocks (`Blocks`) and to the budget
(`ApplyTokenBudget`, in closed form: what the blocks before have left). `TaskContext` gives it the
summaries `ApprovalFlow` has stored when an attempt is about to be dispatched. The
contexts for all limits and histories are computed once (`Informed`), and each state looks its own up.

### Execution

One call of an adapter's `execute`. For codex there are the coroutine that talks
(`at`), the task that reads (`reader`, which may die and leaves its exception in `death`), and the
queue between them; the wait for a notification and the whole dispatch have a timeout each. `__aexit__` is three
steps, because awaiting the reader may raise and skip the rest. OpenHands runs
its commands and the verification in sequence, in a thread; the harnesses answer at once.
`told` and `truth` are what the provider did, against which the result is compared.

### Memory

A writer evaluates (a session), may look up the memory of mem0 it will overwrite (another),
calls the remote store, and inserts, upserts or merges (a third). Maintenance selects a batch and
writes it in a later step, for each of its four parts. The unique constraint on project, namespace
and content hash, and the foreign key on `supersedes_record_id` with `ON DELETE SET NULL`, are
those of the Postgres schema. A memory of mem0 is
named by its id. An addition that was answered without an id is stored as `mem0://memories/unknown`,
which a later rewrite reads back as an id: `Unknown` is the memory all such records name and
overwrite, and `idless` the contents that came to it. `bumps` counts the superseding writes committed for a
record, `since` and `during` tell which records a finished pass has seen. A recall reads at most three
times its limit in no order, and returns the best: `Answers` is every set that may be.

## The runs

The `run_` runs and the two after them use two tasks. Two are enough for a dependency, a batch of two, a cycle
and an unknown dependency; attempts of different tasks touch only in the run
row, in the slot and in the recovery scan. The requests of `MCWorkflowRun` are the
shapes of a plan the workflow treats differently. `MaxAttempts = 2` has a
retry and a last attempt. `MaxSignals` bounds the approval signals of a run:
two are enough for an answer that is overwritten and for one that is left for a
later gate. Deadlock is not checked: a finished run stops, and one known
state hangs.

`run_leases` has a third attempt because a recovery can be paired with a wrong failure
only from the second failure on. In `approvals` a second attempt is enough for an answer to come
late and for a summary to be read; two deliveries for an answer that is copied or overwritten; two
reviewers who may contradict each other (they are interchangeable and no liveness is checked, so
TLC takes them as a symmetry set). The two scopes are nothing and a path nobody asked for
whose name is beneath the root's; a sibling of the root is granted where a run asks for it. In `execution` three
notifications let two of our own and a foreign one meet in the queue. In `memory` the
third write is what two racing writers leave to a rewrite; the bounds on weeks and on the age of
what is purged are zero or one, so that a record can be written, superseded, retired and purged within them.

| Run | Question | Bounds |
|---|---|---|
| `run_safety` | do the safety properties hold under all faults together, and is the claim table a lease? | 2 attempts, 2 signals, all faults |
| `run_leases` | without the recovery job and lost answers of the run's activities: is every working attempt leased, does its row keep to the table, and does the API show what the rows say? | 3 attempts, 2 signals; lapse, dispatch error, run timeout; one cut of a graph execution and one of the notification, two adapters, one row written over |
| `run_progress` | does every run end, and every claim? | 2 attempts, 1 signal; lapse, recovery |
| `event_log_shared` | is a stream with several emitters an append-only log in order of time, and are its activities answered? | 2 activities, 1 call, one event each, 2 times, losses up to 3 rows |
| `event_log_own` | is an emitter alone on its stream told of its own events? | 1 activity, 3 events, losses up to 5 rows |
| `approval_timeout` | does an approval timeout mark the run failed, as the runbook says? No | gated task, no fault |
| `reclaimed_attempt` | does a reclaimed attempt stay reclaimed until it is claimed again? No | 1 attempt; lapse, recovery |
| `approvals` | whatever answers arrive in whatever order, are writes authorized and results backed, and is a retry informed? | 2 attempts, 2 reviewers, 1 call of the API, 2 signals, 2 deliveries, 2 scopes, 5 policies; timeout, raise, crash |
| `break_glass` | is a break-glass run executed, as the README says? No | the break-glass policy, no fault |
| `execution` | does an execution end, and is its result the provider's? | 2 commands to verify, 3 notifications |
| `memory` | is memory consistent under racing writers, lost answers and maintenance? | 2 writers, 3 writes, 1 pass, 2 contents, both remote stores |
| `memory_supersede` | does cleanup spare what is current, as the plan asks? No | 1 candidate |

The safety properties:

- `NoOrphanClaim`: a claim is active only while its attempt is being executed,
  or after its workflow died.
- `HeartbeatsStop`: no heartbeat loop outlives its attempt.
- `TerminalClean`: a run that reads completed or failed has no task, attempt
  or claim in flight, whatever is written after it closed.
- `OneLiveAttempt`: only the attempt being executed is in flight.
- `DependenciesRespected`, `CompletedMeansDone`: no attempt before its
  dependencies are done, no completed run with a task that is not. With the
  recovery job a done task may read `reclaimed`, if it was reclaimed
  between its completion and its release (`DoneRow`).
- `RunFollowsTable`, `AttemptFollowsTable`: the rows take the steps of the
  tables although no write looks at the row.
- `WorkingHoldsLease`: an attempt that reads as working holds its lease. It
  needs the runs without the recovery job and without lost answers: both let an
  attempt work on under an ended claim.
- `ClaimsAreLeases`: the claim table implements `Lease`, with the mapping
  `LeaseOf`: no row is an unused lease, an active claim is a held one, every
  other status is an ended one.

Of the event log, where three emitters and two times are enough for any order of a
stale count, a stamp and an insert:

- `GapFree`: the sequences are 1 to the number of rows, each once.
- `TimesFollowSequence`: order by time and by sequence agree. The timeline uses
  one and the worker-health projector the other.
- `PendingFits`: why the two hold; see the proof.
- `IsAppendLog`: the stream implements `AppendLog`.
- `OwnEventLogged`: an emitter alone on its stream has each event it was
  answered for stored, and was not answered with another one. On a shared
  stream this is false by design of the key: two reports built with the same
  sequence are taken for one, and the second is dropped.
- `ActivitiesAnswered`: a refused or unanswered activity is answered in the end.

Of what the API shows, and of graphs and notifications (`run_leases`):

- `GraphFollowsRows`: a task nobody works on is shown as its row reads, and one that reads
  completed has its checklist done. The exception is a task the closing of its run took out of flight.
- `CompletedStaysShown`: no later graph event, which lists the task as queued, takes it back.
- `RecoveryFromLastFailure`: in no window is a recovery measured from a failure an earlier
  claim had answered.
- `GraphRunsOnce`: the result of a task comes from one pass through its graph, and of the rows
  cut executions left only the one answered is resumed.
- `AnnouncedTruthfully`: one receipt per adapter, none announced as sent that was not accepted, and
  no more rows that read sent than messages accepted. The last of these is said of rows nobody has written
  over: the others read what somebody wrote, whatever was sent. That a message may
  be delivered twice is not excluded, for it may.

Of approvals:

- `WritesAuthorized`: what executors are called with is named beneath the root (wherever it leads:
  the gate compares names), and in a gated task was
  answered with yes for this attempt or for none in particular (an answer without an id opens any gate);
  paths beyond those asked for come from a decision somebody committed.
- `OneAnswerOneGate`: no delivery is acted on twice.
- `RequestsBounded`: an attempt asks at most twice, whatever is granted.
- `ResultsBacked`: artifacts, summaries and evidence refer to what is stored, also when a late
  thread stores them or the process dies between two transactions. (The API's dispatches share one
  attempt id here, so nothing is said of their evidence.)
- `OpaAddsNothing`: the second implementation of the gate refuses no bundle of a workflow that the first
  lets pass, where its policy file is in place.
- `AttemptInformed`: each attempt before has left its summary when the next one starts, and
  ranking, limits and budget keep the binding constraints and the attempt just before as long as they
  keep anything recalled. It needs three blocks a level; with the limits a run has by
  default everything is kept.

Of executions and memory:

- `SuccessBacked`, `VerdictObserved`: see the comments; the ghosts `told` and `truth` say what the
  provider did. `Ends`: every execution ends.
- `OneCountedRecord`: one record per content, whose version counts the rewrites committed.
- `OwnMemory`: the memory of mem0 a record names by an id exists, is about its content and is its
  own. The memory "unknown" is not: the records that name it share it, and each rewrite of one
  overwrites the text of the others. The property says that this befalls only contents whose addition
  was answered without an id, and that no text of another content gets there. Candidates that
  name a memory of mem0 themselves are left out: one whose call fails would be stored with the
  name it came with.
- `RecallSkipsSuperseded`: after a pass, what is superseded is not recalled, unless written since.

### Four disagreements with the documentation

`approval_timeout`: a task whose own gate times out or is rejected while
attempts are left goes back to `execute_task` with the run in
`waiting_approval`. The retry then asks for `waiting_approval -> retrying`, which
the table refuses each time the activity is retried. The run row
reads `waiting_approval` for good (Temporal's `run_timeout` ends the workflow
later, but writes nothing). The runbook says such a run is marked FAILED. With
no attempts left, the run is failed as it says. `RunsEnd` names this one
state (`StuckAtGate`) and shows it is the only way to hang.

`reclaimed_attempt`: the recovery job reclaims a lapsed claim although the
workflow that holds it is alive; the workflow is not told and its next write
turns the reclaimed attempt into a verifying one, a step the task table
does not have. The task is not requeued, as the recovery result says.

`break_glass`: for a run with full access the workflow adds `break_glass_reason` to the permission
policy of the bundle. `PermissionPolicy` has no such field and forbids extra ones, so the
dispatch activity fails to read its payload at its only try, and the run fails. The README says such a
run is executed without the gate.

`memory_supersede`: a superseding write rewrites the record of its content in place. A caller
that names that record as superseded, as the test of supersede conflicts does, leaves a record
that supersedes itself, and the next maintenance pass retires it. The plan of the memory backbone
asks that cleanup spare valuable records.

### Fairness

`FairSpec` assumes weak fairness of the workflow's own progress: Temporal keeps
offering the next activity, timer or signal to a live worker, and an
answer eventually arrives. An approval wait has a timer, so it ends. Nothing is
assumed of the heartbeat, of people, of time or of the recovery job, which is only
an endpoint somebody may call. Lost answers are left out of `run_progress`:
a claim whose answer is lost is refused until a recovery that nobody
promises.

In `EventLog`, `FairSpec` assumes weak fairness of the steps of each activity, which
the worker gives; a call of the API may stop anywhere. `MaxRows` bounds the lost answers:
an activity whose every answer is lost is not answered.

In `Execution`, `Ends` assumes weak fairness of `Adapter`: timers fire, and commands, which have a
timeout of their own in the workspace, end. Nothing is assumed of the provider: it may stop talking,
leave a request unanswered or close the link. The OpenHands path has no timeout over
the whole; it ends because each command does.

## What is proved

`RuntimeStoreProofs`, for any tasks, any number of attempts and any callers:

- `StoreTypes`, the type invariant of the tables;
- `StoreOneHolder`: `claim_task` alone keeps a task from having two holders;
- `StoreImplementsLease`: each operation acquires one unused lease of a free task, ends a set of
  held ones, or stutters.

`WorkflowRunProofs`, for any requests and faults:

- `RunUsesStore`: every step of `WorkflowRun` is a call of `RuntimeStore` or leaves its tables
  alone. With `StoreImplementsLease` this gives `RunImplementsLease` without looking at the workflow
  again.
- `RunTypes`, `RunOrphansNoClaim`, `RunStopsHeartbeats`, `RunClosesClean` follow from one inductive
  invariant, `IInv`. The properties are not inductive alone: that a release ends *the* active claim
  needs that the only one is the current attempt's (`NoOrphanClaim`), that there is a current
  attempt at all wherever one is used (`CurrentAttempt`), and that the run row is open wherever the
  workflow may still put a record in flight (`OpenUntilClosing`).
- `RunRowFollowsTable` needs `Track`: the run row is the status the workflow remembers, or the
  target of the one transition whose answer is outstanding, and an event repeats the status of the
  transition before it.

The actions of `WorkflowRun` are grouped by what they do to the tables (`EngineSplit`), and each
lemma has a case per group.

`EventLogProofs`, for any number of emitters, events, times and lost answers:

- `EventTypes`, `SequencesGapFree`, `TimesInOrder`, and `EventsImplementAppendLog`, the refinement.
  The inductive invariant adds `PendingFits` to the properties: a sequence that was read is at most
  the next one, and all rows before it are not later than the time stamped with it. An insert that
  no constraint refuses therefore comes next (`InsertComesNext`), in sequence and in time. The
  argument does not use `Validate`: the unique constraint alone keeps the stream without gaps, since
  a stale sequence is too small and never too large. It needs one clock for all emitters, that never
  goes back.
- `PendingEventsFit` lists `PendingFits` itself. `OwnEventsLogged` has the assumption `OneEmitter`,
  which is what the property is about; the invariant says that a sequence read is still the next one
  when it is inserted.

`WorkflowRunProofs`, of the plan and its attempts, for any tasks, graphs, faults and numbers of
attempts:

- `RunHasOneLiveAttempt`. Alone the property is not inductive; `LiveAtItsPlace` says which attempt
  may be in flight where: only the current one, between its first write and its report, and after a
  denied or unanswered gate, which leaves it waiting while the workflow goes on.
- `RunRespectsDependencies` and `RunCompletesItsTasks`, from `PlanInv`: the sorter hands out only
  ready tasks, what it calls finished is done in the tables (`FinishedIsDone`, which needs
  `LandedIsDone` for the attempt about to report), and a prepared graph has no cycle, so that an
  empty answer of `get_ready` means that everything is finished (`NothingReadyMeansFinished`).
- `RunWorksUnderLease` and `AttemptRowFollowsTable`. They assume no recovery job (`NoRecovery`), the
  first one no lost answers either (`Undisturbed`). TLC shows that each assumption is needed: the
  recovery job takes the claim of a live attempt and rewrites its row (`reclaimed_attempt`), and
  after a lost answer of the simulated reclaim the attempt goes on without the claim it gave back.
  Their invariants say what row and claim the workflow believes in at each place, and which of the
  two rows a lost answer has moved ahead (`RowTracksTask`, `CurrentIsHeld`).
- Under every fault two theorems say how far those two can fail. `OnlyReclaimedRowsLeaveTheTable`:
  a row takes a step the table does not have only with or after the loss of its claim to the
  recovery job; this is exactly what `reclaimed_attempt` shows, and no other row is affected.
  `WorkingAttemptsWereClaimed`: a working attempt has a claim, active or reclaimed; none works that
  was never given one or has released it. Both rest on `EnvironmentSpares`: what goes on beside the
  workflow writes the records of an attempt only while it ends its claim.

`ApprovalFlowProofs`, for any workspace, policies, bundles, people and bounds:

- `FlowTypes`, `AnswersOpenOneGate`, `OpaRepeatsTheGates`, from an invariant that says whose the job
  of a thread is: the activity's is for the current attempt, with the bundle the workflow would
  build now, until a timeout gives it up, and then the workflow has ended. (`OpaAddsNothing` is
  about the bundles of workflows; what the API sends is not built by `BuildBundle`.)
- `WritesAreAuthorized` adds that approved paths come from a committed decision wherever an answer
  lies: with a reviewer, in the slot, or acted on (`AnswersBacked`). Of paths it assumes nothing but
  that `Beneath` and `Prefixed` hold of equal names.
- `RequestsAreBounded` counts the rows of an attempt against what it may still ask (`Allowance`).
- `ResultsAreBacked` follows a result through the three transactions of a thread. A thread that is
  given up after its check still runs them, and a process that dies leaves any of them out.

`ExecutionProofs`, for any commands, error texts and numbers of notifications: `ExecutionTypes`,
`SuccessIsBacked`, `VerdictIsObserved`. The invariant relates the queue to what was seen: a provider
ends our turn once and says nothing of it afterwards, and what the last result of a command said is
either seen or still in the queue (`SeenUpToQueue`), so that leaving the loop with the end of the
turn leaves nothing unseen (`AllSeen`).

`MemoryProofs`, for any contents, candidates, writers and bounds: `MemoryTypes`,
`ContentsAreCounted`, `RecordsOwnMemories`, `SupersededIsSkipped`. The ids given are 1 to their
number, so that the next is new; a memory of mem0 with an id has the content of every record and
writer that names it, and "unknown" has a content whose addition had no id, as has every one
that names it (`MemoriesOwned`). `RecordsOwnMemories` assumes that no candidate
names a memory of mem0 itself (`NamesNoMemory`), and `SupersededIsSkipped` a batch as large as all
that is written (`BatchSuffices`); the hazard at `memory/maintenance.py:50` says what happens beyond.

`ReadModelsProofs`, over `WorkflowRunProofs`, for any tasks, adapters and repetitions:

- `ReadModelsRun`: `ReadSpec` implements `Spec`, so every theorem about a run holds here too.
- `GraphPassesOnce`: the execution is at its place in its own thread, and the snapshot under the
  checkpoint the workflow holds is never overwritten (`GraphAtItsPlace`). `NotificationIsTruthful`:
  receipts are those of the first adapters in their order, and the rows that read sent and that
  nobody has written over never outnumber the messages accepted.
- `CompletedIsShownForGood`, under every fault, from `LogInv`: the first thing logged is a graph,
  every graph that names a task comes after an event of that task, and a task last said to be
  completed is finished or about to report it.
- `GraphFollowsTheRows`, without the recovery job (of whose reclaims there is no event), from
  `ShownInv`: finished tasks were last said to be completed, tasks not begun are not spoken of, and
  between its attempts a task's last event is what its row reads (`TakenFollows`).
- `RecoveriesStartAtTheLastFailure`, under every fault: between any two failures of a task the log
  has a claim of it (`FailuresAnswered`, an invariant), and so has every window of the log that
  holds both. What `Pair` computes of a window is then shown by induction over its passes.

`TaskContextProofs`, over `ApprovalFlowProofs`, for any policies, databases, limits and histories:

- `AttemptsAreInformed`. Its first half is an invariant: when an attempt that was not heard of is
  dispatched, each attempt before it has left one summary (`EarlierSummed`), since only the activity
  of the current attempt writes one and the workflow goes on after its answer only. Its second half
  is about lists of any length: ranking gives each text one place (`PlacesTaken`, `RankedTexts`), a
  level shows its first blocks (`LevelShows`), and the budget keeps a first part of all of them,
  whole but for the last (`BudgetKeeps`). So what is shown above a level stays while anything of
  that level does.
- `ContextsFitTheBudget`: for every context that is assembled, of any attempt with any history, the
  blocks add up to four characters a token at most. That no block but the last is cut is not enough
  for this; the running total (`Total`) neither shrinks nor passes the budget (`BudgetFits`).

The induction in these two modules does not use the library's induction theorems, whose parameter is
an operator. `LeastNumber`, from the well-foundedness of the numbers, gives the least counterexample
instead, and the recursive functions `Total` and `Pair` are first shown to exist, for the domain
they have, by the same argument.

The assumptions are the `ASSUME`s of the modules (`MaxAttempts` is positive, the constants are of
their types, the bounds are numbers, an absent value is no value, a text of the database has some
length) and those named above, which stand in the theorems that need them. Some pieces of the model
have the form they have for the prover's sake: `Memory` has its own `Put` for adding to a table,
`Emitted` has no overlapping `CASE` arms, `Pair` is a recursive function, and the places of a
ranking (`Said`, `Before`, `Place`) are operators of their own.

Only model-checked:

- `RunsEnd`, `ClaimsEnd`, `ActivitiesAnswered` and `Ends`: liveness under fairness is out of the
  prover's reach.
- The four disagreements, each a counterexample.

## The plan

Done: the run with its tables, leases and recovery; the event log; approvals, gate and results;
contexts; executions; memory; graphs, notifications and read models; and a theorem for every safety
invariant, action property and refinement that a passing run checks. What is left, in this order:

1. `GraphFollowsTheRows` with the recovery job: a task nobody works on is shown as its row reads,
   but for one whose claim was reclaimed, of which there is no event.
2. The hazards no property covers yet, first a start that fails after its rows are written
   (`workflows/router.py:298`) and a second execution under the same run id (`workflows/router.py:342`).

## Not modelled

- The control plane and authentication: reads and writes of single rows, one transaction each; no
  status machine, and nothing that another actor races.
- The in-memory twins: the claim manager (`workflows/lease_manager.py`), used by tests only, the
  event store and projector (`events/store.py`), used by nothing, and the modes of the services
  without a database, which the configured application never has.
- The web console, the generated contracts, the migrations (their constraints are those of the models), the
  models behind `integrations/llm` (called by nothing), metrics, traces, health endpoints and
  offline evaluation: rendering, generated code and calls that keep no state.
- A second execution under the same run id after the first one closed (`workflows/router.py:342`), and two
  workers that run the body of `claim_task` at once: see the hazards.
- Of approvals: the secret broker (nothing enables it), the hash of the provenance, attaching
  memory, expiring and cancelling (nothing calls them). Of memory: evidence affinity and namespace depth
  in the ranking, the boost for what was often recalled (`recall_count`). Of executions: prompts, logs, artifacts, provenance. Of contexts: skills,
  which a run never asks for, and evidence references. Of the read models: lists, counts and the other figures of the
  service-level snapshot.

Payloads, wording and timestamps are abstracted throughout. Several runs at once are not modelled: runs
share no row but the scan of the recovery job, which takes each claim on its own.
