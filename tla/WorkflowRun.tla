----------------------------- MODULE WorkflowRun ----------------------------
(***************************************************************************)
(* One workflow run: the Temporal workflow of workflows/definitions/base.py *)
(* that every workflow of the repository executes, the heartbeat loop it    *)
(* spawns, the approval signals people send it, and the recovery job that   *)
(* works on the same tables from the API process (workflows/recovery.py).   *)
(*                                                                          *)
(* The workflow is sequential: pc is the activity or wait it is about to    *)
(* do.  It runs no transaction itself.  It asks for activities, which write *)
(* the tables of RuntimeStore, and it remembers the status it asked for     *)
(* last (wf for the run, ts for the task); it never reads the tables.       *)
(* Between any two activities the other actors may act.                     *)
(*                                                                          *)
(* An activity is delivered at least once.  With "lost_ack" in Faults its   *)
(* effect may be committed while its completion is lost, and Temporal runs  *)
(* it again.  An activity that raises is retried for ever, so an illegal    *)
(* transition or a refused claim is an activity that is not enabled.        *)
(***************************************************************************)
EXTENDS RuntimeStore

CONSTANTS
  NoAttempt,      \* "no approval id", in a signal
  NoResolution,   \* the empty signal slot
  NoTask,         \* a name that no task of the run has
  Requests,       \* the requests a run may be started with
  Faults,         \* which faults the environment may cause
  MaxSignals      \* bound: approval signals per run

Request ==
  [deps     : [Task -> SUBSET (Task \cup {NoTask})],
   executor : SUBSET Task,     \* tasks with an executor_name
   gated    : SUBSET Task,     \* requires_approval or simulated approval
   reclaim  : SUBSET Task,     \* request.simulation
   retry    : SUBSET Task,
   terminal : SUBSET Task]

FaultKind == {"lost_ack", "lapse", "recovery", "dispatch_error", "run_timeout"}

ASSUME WorkflowAssumption ==
  /\ Requests \subseteq Request
  /\ Faults \subseteq FaultKind
  /\ MaxSignals \in Nat
  /\ NoTask \notin Task
  /\ NoAttempt \notin Attempt

Resolution == [approved : BOOLEAN, for : Attempt \cup {NoAttempt}]

VARIABLES
  req,       \* the request of this run
  pc,        \* where the workflow is
  wf,        \* current_workflow_status, as the workflow remembers it
  cur,       \* the attempt being executed
  ts,        \* current_status of that attempt, as the workflow remembers it
  granted,   \* approval_resolution is not None: the executor gate was passed
  outcome,   \* what this attempt reports if it ends here
  hb,        \* the heartbeat loop of cur is running
  batch,     \* ready tasks taken from the sorter and not yet executed
  finished,  \* tasks the sorter was told are done
  slot,      \* the workflow's single approval slot
  asked,     \* attempts an executor approval was requested for
  signals,   \* signals sent so far
  scan       \* recovery job: stale claims scanned and not yet reclaimed

attemptVars == <<cur, ts, granted, outcome>>
planVars == <<req, batch, finished>>
signalVars == <<slot, asked, signals>>
engineVars == <<pc, wf, attemptVars, hb, planVars>>
vars == <<storeVars, engineVars, signalVars, scan>>

Outcome == {"failed", "completed", "reclaimed", "approval_timeout",
            "approval_rejected"}

(* The places of the workflow between one attempt and the next.             *)
BetweenPcs == {"queue", "start", "started", "plan", "select", "complete",
               "completedEv", "failRun", "failedEv", "again", "againEv",
               "resume", "next"}
(* An attempt before its claim, and after it gave the claim up.             *)
UnclaimedPcs == {"todo", "gate", "gateEv", "gateWait", "gateOpen", "claim",
                 "reclaimEv", "result"}
(* An attempt that was given a claim and has not released it.               *)
HoldingPcs == {"claimed", "claimedEv", "beat", "simReclaim", "run", "runEv",
               "dispatch", "askTask", "askRun", "askEv", "askWait",
               "grantRun", "grantTask", "grantEv", "denyTask", "denyRun",
               "failTask", "failEv", "failRelease", "verify", "verifyEv",
               "retryTask", "retryRun", "retryEv", "rerunTask", "rerunRun",
               "finish", "finishEv", "release"}
Closed == {"done", "crashed"}
PC == BetweenPcs \cup UnclaimedPcs \cup HoldingPcs \cup Closed

TypeOK ==
  /\ StoreTypeOK
  /\ req \in Requests
  /\ pc \in PC
  /\ wf \in RunStatus
  /\ cur \in Attempt \cup {NoAttempt}
  /\ ts \in TaskStatus
  /\ granted \in BOOLEAN
  /\ outcome \in Outcome
  /\ hb \in BOOLEAN
  /\ batch \subseteq Task
  /\ finished \subseteq Task
  /\ slot \in Resolution \cup {NoResolution}
  /\ asked \subseteq Attempt
  /\ signals \in 0 .. MaxSignals
  /\ scan \subseteq Attempt

Init ==
  /\ StoreInit
  /\ req \in Requests
  /\ pc = "queue"
  /\ wf = "created"
  /\ cur = NoAttempt
  /\ ts = "queued"
  /\ granted = FALSE
  /\ outcome = "failed"
  /\ hb = FALSE
  /\ batch = {}
  /\ finished = {}
  /\ slot = NoResolution
  /\ asked = {}
  /\ signals = 0
  /\ scan = {}

-----------------------------------------------------------------------------
(* The shapes of an activity: its guard, its transaction, and what the      *)
(* workflow does with the answer, if the answer arrives.                    *)

LostAnswer == "lost_ack" \in Faults /\ UNCHANGED engineVars

(* Mutant of MoveRun: the activity does not ask the transition table.       *)
MoveRunUnchecked(at, target, next) ==
  /\ pc = at
  /\ WriteRun(target)
  /\ \/ pc' = next /\ wf' = target /\ UNCHANGED <<attemptVars, hb, planVars>>
     \/ LostAnswer
  /\ UNCHANGED <<signalVars, scan>>

(* transition_workflow: legality is checked against the remembered status.  *)
MoveRun(at, target, next) ==
  /\ pc = at
  /\ LegalRun(wf, target)
  /\ WriteRun(target)
  /\ \/ pc' = next /\ wf' = target /\ UNCHANGED <<attemptVars, hb, planVars>>
     \/ LostAnswer
  /\ UNCHANGED <<signalVars, scan>>

(* transition_task, for the current attempt.                                *)
MoveTask(at, target, next) ==
  /\ pc = at
  /\ LegalTask(ts, target)
  /\ TransitionTask(cur, target)
  /\ \/ /\ pc' = next /\ ts' = target
        /\ UNCHANGED <<wf, cur, granted, outcome, hb, planVars>>
     \/ LostAnswer
  /\ UNCHANGED <<signalVars, scan>>

(* emit_event: the side effect of the event on the rows.                    *)
Emit(at, effect, next) ==
  /\ pc = at
  /\ effect
  /\ \/ pc' = next /\ UNCHANGED <<wf, attemptVars, hb, planVars>>
     \/ LostAnswer
  /\ UNCHANGED <<signalVars, scan>>

EmitRun(at, status, next) == Emit(at, WriteRun(status), next)
EmitTask(at, status, next) == Emit(at, TaskEvent(cur, status), next)

(* A step of the workflow itself, without an activity.                      *)
Local(at, next) ==
  /\ pc = at
  /\ pc' = next
  /\ UNCHANGED <<storeVars, scan>>

-----------------------------------------------------------------------------
(* execute_standard_workflow                                                *)

Enqueue == MoveRun("queue", "queued", "start")
Start == MoveRun("start", "running", "started")
EmitStarted == EmitRun("started", "running", "plan")

UnknownDependency == \E t \in Task : ~(req.deps[t] \subseteq Task)
Cyclic ==
  \E S \in SUBSET Task \ {{}} : \A t \in S : req.deps[t] \cap S # {}

(* Mutant of Plan: the graph is not checked.                                *)
PlanUnchecked ==
  /\ Local("plan", "select")
  /\ UNCHANGED <<wf, attemptVars, hb, planVars, signalVars>>

(* sorter.prepare(): an unknown dependency or a cycle fails the run.        *)
Plan ==
  /\ Local("plan", IF UnknownDependency \/ Cyclic THEN "failRun" ELSE "select")
  /\ UNCHANGED <<wf, attemptVars, hb, planVars, signalVars>>

(* Mutant of Ready: dependencies are forgotten.                             *)
ReadyAtOnce == Task \ finished

(* Not finished, and depending on finished tasks only.                      *)
Ready == {t \in Task \ finished : req.deps[t] \subseteq finished}

(* sorter.get_ready(): a batch, executed to the last task before the next   *)
(* call.                                                                    *)
TakeBatch ==
  /\ batch = {}
  /\ Ready # {}
  /\ batch' = Ready
  /\ Local("select", "select")
  /\ UNCHANGED <<wf, attemptVars, hb, req, finished, signalVars>>

(* Inside a batch the tasks go in the order of their names, which the model *)
(* leaves open.                                                             *)
NextTask ==
  /\ \E t \in batch : cur' = <<t, 1>> /\ batch' = batch \ {t}
  /\ ts' = "queued" /\ granted' = FALSE /\ outcome' = "failed"
  /\ Local("select", "todo")
  /\ UNCHANGED <<wf, hb, req, finished, signalVars>>

NothingReady ==
  /\ batch = {}
  /\ Ready = {}
  /\ Local("select", "complete")
  /\ UNCHANGED <<wf, attemptVars, hb, planVars, signalVars>>

Complete == MoveRun("complete", "completed", "completedEv")
EmitCompleted == EmitRun("completedEv", "completed", "done")
FailRun == MoveRun("failRun", "failed", "failedEv")
EmitFailed == EmitRun("failedEv", "failed", "done")

-----------------------------------------------------------------------------
(* execute_task: the attempts of one task                                   *)

(* Mutant of Retryable: one attempt too many.                               *)
RetryableOnceMore == outcome # "completed" /\ cur[2] <= MaxAttempts

Retryable == outcome # "completed" /\ cur[2] < MaxAttempts

(* The run is marked failed once: not again when a denied approval already  *)
(* did it.                                                                  *)
AttemptResult ==
  /\ Local("result",
           IF outcome = "completed" THEN "select"
           ELSE IF Retryable THEN "again"
           ELSE IF wf = "failed" THEN "failedEv"
           ELSE "failRun")
  /\ finished' = IF outcome = "completed" THEN finished \cup {cur[1]} ELSE finished
  /\ UNCHANGED <<wf, attemptVars, hb, req, batch, signalVars>>

RetryRun == MoveRun("again", "retrying", "againEv")
EmitRetrying == EmitRun("againEv", "retrying", "resume")
ResumeRun == MoveRun("resume", "running", "next")

(* Mutant of NextAttempt: the retry reuses the attempt and its claim id.    *)
NextAttemptSameId ==
  /\ Local("next", "todo")
  /\ ts' = "queued" /\ granted' = FALSE /\ outcome' = "failed"
  /\ UNCHANGED <<cur, wf, hb, planVars, signalVars>>

NextAttempt ==
  /\ Local("next", "todo")
  /\ cur' = <<cur[1], cur[2] + 1>>
  /\ ts' = "queued" /\ granted' = FALSE /\ outcome' = "failed"
  /\ UNCHANGED <<wf, hb, planVars, signalVars>>

-----------------------------------------------------------------------------
(* _execute_task_once: gate, claim, run                                     *)

EmitTodo ==
  Emit("todo", TouchAttempt(cur), IF cur[1] \in req.gated THEN "gate" ELSE "claim")

OpenGate == MoveRun("gate", "waiting_approval", "gateEv")
EmitGate == EmitRun("gateEv", "waiting_approval", "gateWait")

(* wait_for_approval(): whatever sits in the slot is the answer.            *)
GateAnswered ==
  /\ slot # NoResolution
  /\ slot' = NoResolution
  /\ Local("gateWait", IF slot.approved THEN "gateOpen" ELSE "result")
  /\ outcome' = IF slot.approved THEN outcome ELSE "approval_rejected"
  /\ UNCHANGED <<wf, cur, ts, granted, hb, planVars, asked, signals>>

GateTimeout ==
  /\ slot = NoResolution
  /\ Local("gateWait", "result")
  /\ outcome' = "approval_timeout"
  /\ UNCHANGED <<wf, cur, ts, granted, hb, planVars, signalVars>>

PassGate == MoveRun("gateOpen", "running", "claim")

Claim == Emit("claim", ClaimTask(cur), "claimed")
MoveClaimed == MoveTask("claimed", "claimed", "claimedEv")
EmitClaimed == EmitTask("claimedEv", "claimed", "beat")

(* The first heartbeat, then the loop is spawned.                           *)
FirstHeartbeat ==
  /\ pc = "beat"
  /\ Heartbeat(cur)
  /\ \/ /\ pc' = IF cur[1] \in req.reclaim THEN "simReclaim" ELSE "run"
        /\ hb' = TRUE
        /\ UNCHANGED <<wf, attemptVars, planVars>>
     \/ LostAnswer
  /\ UNCHANGED <<signalVars, scan>>

(* Mutant of SimulateReclaim: the workflow runs on without its lease.       *)
SimulateReclaimRunsOn ==
  /\ pc = "simReclaim"
  /\ ReclaimStale({cur})
  /\ \/ pc' = "run" /\ UNCHANGED <<wf, attemptVars, hb, planVars>>
     \/ LostAnswer
  /\ UNCHANGED <<signalVars, scan>>

(* The simulated stale lease.  An empty answer means "go on"; the task is   *)
(* then moved to reclaimed in the workflow only, the metadata has no task.  *)
SimulateReclaim ==
  /\ pc = "simReclaim"
  /\ ReclaimStale({cur})
  /\ \/ /\ Reclaimable({cur}) = {}
        /\ pc' = "run"
        /\ UNCHANGED <<wf, attemptVars, hb, planVars>>
     \/ /\ Reclaimable({cur}) # {}
        /\ pc' = "reclaimEv" /\ ts' = "reclaimed" /\ outcome' = "reclaimed"
        /\ UNCHANGED <<wf, cur, granted, hb, planVars>>
     \/ LostAnswer
  /\ UNCHANGED <<signalVars, scan>>

EmitReclaimed ==
  /\ pc = "reclaimEv"
  /\ TaskEvent(cur, "reclaimed")
  /\ \/ pc' = "result" /\ hb' = FALSE /\ UNCHANGED <<wf, attemptVars, planVars>>
     \/ LostAnswer
  /\ UNCHANGED <<signalVars, scan>>

MoveRunning == MoveTask("run", "running", "runEv")
EmitRunning ==
  EmitTask("runEv", "running",
           IF cur[1] \in req.executor THEN "dispatch" ELSE "verify")

-----------------------------------------------------------------------------
(* The executor loop: dispatch, and the approval an executor may ask for.   *)

(* The dispatcher persists the request for an approval before it returns    *)
(* it; a second request of the same attempt fails the attempt.              *)
ExecutorAsks ==
  /\ asked' = asked \cup {cur}
  /\ Local("dispatch", IF granted THEN "failTask" ELSE "askTask")
  /\ UNCHANGED <<wf, attemptVars, hb, planVars, slot, signals>>

ExecutorReturns(next) ==
  /\ Local("dispatch", next)
  /\ UNCHANGED <<wf, attemptVars, hb, planVars, signalVars>>

ExecutorSucceeds == ExecutorReturns("verify")
(* A failed, cancelled or unreadable result.                                *)
ExecutorFails == ExecutorReturns("failTask")

AskTask == MoveTask("askTask", "waiting_approval", "askRun")
AskRun == MoveRun("askRun", "waiting_approval", "askEv")
EmitAsked == EmitRun("askEv", "waiting_approval", "askWait")

(* wait_for_approval(id): an answer to this request, or one without an id.  *)
Answers(r) == r # NoResolution /\ r.for \in {NoAttempt, cur}

AskAnswered ==
  /\ Answers(slot)
  /\ slot' = NoResolution
  /\ Local("askWait", IF slot.approved THEN "grantRun" ELSE "denyTask")
  /\ granted' = slot.approved
  /\ outcome' = IF slot.approved THEN outcome ELSE "approval_rejected"
  /\ UNCHANGED <<wf, cur, ts, hb, planVars, asked, signals>>

(* Mutant of AskTimeout: an answer to another request stops the timer.      *)
AskTimeoutIfEmpty ==
  /\ slot = NoResolution
  /\ Local("askWait", "denyTask")
  /\ outcome' = "approval_timeout"
  /\ UNCHANGED <<wf, cur, ts, granted, hb, planVars, signalVars>>

AskTimeout ==
  /\ ~Answers(slot)
  /\ Local("askWait", "denyTask")
  /\ outcome' = "approval_timeout"
  /\ UNCHANGED <<wf, cur, ts, granted, hb, planVars, signalVars>>

GrantRun == MoveRun("grantRun", "running", "grantTask")
GrantTask == MoveTask("grantTask", "running", "grantEv")
EmitGranted == EmitTask("grantEv", "running", "dispatch")

(* A denied executor approval fails the run at once, before the attempt     *)
(* that may be retried has reported.                                        *)
DenyTask == MoveTask("denyTask", "failed", "denyRun")
DenyRun == MoveRun("denyRun", "failed", "failEv")

-----------------------------------------------------------------------------
(* The end of an attempt                                                    *)

FailTask == MoveTask("failTask", "failed", "failEv")
EmitTaskFailed == EmitTask("failEv", "failed", "failRelease")

(* Mutant of GiveUp: the attempt reports with its claim still active.       *)
GiveUpKeepsClaim(at, result) ==
  /\ pc = at
  /\ pc' = "result" /\ hb' = FALSE /\ outcome' = result
  /\ UNCHANGED <<storeVars, wf, cur, ts, granted, planVars, signalVars, scan>>

(* Mutant of GiveUp: the heartbeat loop is left running.                    *)
GiveUpKeepsBeating(at, result) ==
  /\ pc = at
  /\ Release(cur)
  /\ pc' = "result" /\ outcome' = result
  /\ UNCHANGED <<wf, cur, ts, granted, hb, planVars, signalVars, scan>>

(* The heartbeat loop is cancelled, then the claim released.                *)
GiveUp(at, result) ==
  /\ pc = at
  /\ Release(cur)
  /\ hb' = FALSE
  /\ \/ pc' = "result" /\ outcome' = result
     \/ "lost_ack" \in Faults /\ UNCHANGED <<pc, outcome>>
  /\ UNCHANGED <<wf, cur, ts, granted, planVars>>
  /\ UNCHANGED <<signalVars, scan>>

ReleaseFailed == GiveUp("failRelease", outcome)

AfterVerify ==
  IF cur[1] \in req.terminal THEN "failTask" ELSE "finish"

MoveVerifying == MoveTask("verify", "verifying", "verifyEv")
EmitVerifying ==
  EmitTask("verifyEv", "verifying",
           IF cur[1] \in req.retry THEN "retryTask" ELSE AfterVerify)

(* The simulated retry goes through retrying and back, within the attempt.  *)
RetryTask == MoveTask("retryTask", "retrying", "retryRun")
RetryInPlace == MoveRun("retryRun", "retrying", "retryEv")
EmitRetryInPlace == EmitRun("retryEv", "retrying", "rerunTask")
RerunTask == MoveTask("rerunTask", "running", "rerunRun")
RerunRun == MoveRun("rerunRun", "running", AfterVerify)

FinishTask == MoveTask("finish", "completed", "finishEv")
EmitTaskCompleted == EmitTask("finishEv", "completed", "release")
ReleaseCompleted == GiveUp("release", "completed")

-----------------------------------------------------------------------------
(* The other actors                                                         *)

(* _heartbeat_loop beats for its claim until it is cancelled, whether or    *)
(* not the beat was ignored.                                                *)
HeartbeatLoop ==
  /\ hb
  /\ Heartbeat(cur)
  /\ UNCHANGED <<engineVars, signalVars, scan>>

(* signal_runtime_approval: the latest signal is the one in the slot.       *)
Signal ==
  /\ signals < MaxSignals
  /\ pc \notin Closed
  /\ slot' \in [approved : BOOLEAN, for : asked \cup {NoAttempt}]
  /\ signals' = signals + 1
  /\ UNCHANGED <<storeVars, engineVars, asked, scan>>

LeaseLapse ==
  /\ "lapse" \in Faults
  /\ \E a \in Attempt : Lapse(a)
  /\ UNCHANGED <<engineVars, signalVars, scan>>

(* recover_stale_claims reads the stale claims, then reclaims them one by   *)
(* one, in transactions of their own.                                       *)
RecoveryScan ==
  /\ "recovery" \in Faults
  /\ scan = {} /\ stale # {}
  /\ scan' = stale
  /\ UNCHANGED <<storeVars, engineVars, signalVars>>

RecoverClaim ==
  /\ \E a \in scan : ReclaimStale({a}) /\ scan' = scan \ {a}
  /\ UNCHANGED <<engineVars, signalVars>>

(* POST /recovery/reconcile-terminal                                        *)
ReconcileTerminal ==
  /\ "recovery" \in Faults
  /\ Reconcile
  /\ UNCHANGED <<engineVars, signalVars, scan>>

(* The workflow ends without another activity: dispatch or the context      *)
(* assembly before it ran out of attempts, or run_timeout passed.           *)
Crash ==
  /\ \/ "dispatch_error" \in Faults /\ pc = "dispatch"
     \/ "run_timeout" \in Faults /\ pc \notin Closed
  /\ pc' = "crashed" /\ hb' = FALSE
  /\ UNCHANGED <<storeVars, wf, attemptVars, planVars, signalVars, scan>>

-----------------------------------------------------------------------------

RunSteps ==
  \/ Enqueue \/ Start \/ EmitStarted \/ Plan \/ TakeBatch \/ NextTask
  \/ NothingReady \/ Complete \/ EmitCompleted \/ FailRun \/ EmitFailed
  \/ AttemptResult \/ RetryRun \/ EmitRetrying \/ ResumeRun \/ NextAttempt

AttemptSteps ==
  \/ EmitTodo \/ OpenGate \/ EmitGate \/ GateAnswered \/ GateTimeout \/ PassGate
  \/ Claim \/ MoveClaimed \/ EmitClaimed \/ FirstHeartbeat \/ SimulateReclaim
  \/ EmitReclaimed \/ MoveRunning \/ EmitRunning
  \/ FailTask \/ EmitTaskFailed \/ ReleaseFailed \/ MoveVerifying
  \/ EmitVerifying \/ RetryTask \/ RetryInPlace \/ EmitRetryInPlace
  \/ RerunTask \/ RerunRun \/ FinishTask \/ EmitTaskCompleted \/ ReleaseCompleted

ExecutorSteps ==
  \/ ExecutorAsks \/ ExecutorSucceeds \/ ExecutorFails
  \/ AskTask \/ AskRun \/ EmitAsked \/ AskAnswered \/ AskTimeout
  \/ GrantRun \/ GrantTask \/ EmitGranted \/ DenyTask \/ DenyRun

Engine == RunSteps \/ AttemptSteps \/ ExecutorSteps

Environment ==
  \/ HeartbeatLoop \/ Signal \/ LeaseLapse \/ RecoveryScan \/ RecoverClaim
  \/ ReconcileTerminal \/ Crash

Next == Engine \/ Environment

Spec == Init /\ [][Next]_vars

(* Temporal keeps offering the next activity, timer or signal to a worker:  *)
(* a workflow that can learn its next answer learns it.                     *)
FairSpec == Spec /\ WF_vars(Engine /\ engineVars' # engineVars)

-----------------------------------------------------------------------------
(* Properties                                                               *)

(* A claim is active only while the attempt being executed holds it, or     *)
(* after the workflow that held it died: no path through retries, denied    *)
(* approvals, reclaims and repeated activities leaves one behind.           *)
NoOrphanClaim ==
  \A a \in Active : a = cur /\ pc \in HoldingPcs \cup {"claim", "crashed"}

(* The heartbeat loop lives only while its attempt was given a claim and    *)
(* has not reported: it never renews a lease nobody works under.            *)
HeartbeatsStop == hb => pc \in HoldingPcs \cup {"reclaimEv"}

(* A run that reads completed or failed has no task, attempt or claim in    *)
(* flight, whatever the workflow, a repeated activity or the recovery job   *)
(* still writes after the run was closed.                                   *)
TerminalClean ==
  run \in TerminalRun =>
    /\ Active = {}
    /\ \A t \in Task : task[t] \notin Inflight
    /\ \A a \in Attempt : att[a] \notin Inflight

(* At most one attempt of the run is in flight, the one the workflow is     *)
(* executing.                                                               *)
OneLiveAttempt == \A a \in Attempt : att[a] \in Inflight => a = cur

(* How a finished task may read: the recovery job may reclaim a task after  *)
(* it completed and before its claim is released.                           *)
DoneRow == IF "recovery" \in Faults THEN {"completed", "reclaimed"} ELSE {"completed"}

(* No attempt of a task begins before every task it depends on is done in   *)
(* the tables, for any dependency graph and any order within a batch.       *)
DependenciesRespected ==
  \A a \in Attempt : att[a] # "none" =>
    \A d \in req.deps[a[1]] : d \in Task /\ task[d] \in DoneRow

(* A run reads completed only when every task does: finalizing a completed  *)
(* run never has an in-flight task to cancel.                               *)
CompletedMeansDone == run = "completed" => \A t \in Task : task[t] \in DoneRow

(* The run row moves along the transition table, although the writes behind *)
(* it never look at the row.                                                *)
RunFollowsTable == [][LegalRun(run, run')]_vars

(* So does an attempt row once it exists, but for the closing of a run.     *)
AttemptFollowsTable ==
  [][\A a \in Attempt :
       \/ att[a] = "none"
       \/ LegalTask(att[a], att'[a])
       \/ run' \in TerminalRun]_vars

(* An attempt that reads as working holds its lease.                        *)
WorkingHoldsLease ==
  \A a \in Attempt :
    att[a] \in Inflight \ {"queued"} => claim[a] = "active"

(* A gate that was not opened, with attempts left: the workflow asks for    *)
(* waiting_approval -> retrying, which the table refuses each time.         *)
StuckAtGate == pc = "again" /\ wf = "waiting_approval"

(* Every run reaches its end, but for the one known place to get stuck.     *)
RunsEnd == <>(pc = "done" \/ StuckAtGate)

(* Every claim is eventually given up.                                      *)
ClaimsEnd == \A a \in Attempt : (a \in Active) ~> (a \notin Active)

(* docs/runbook.md: a run whose approval timed out is marked failed.        *)
ApprovalTimeoutFailsRun == (outcome = "approval_timeout") ~> (run = "failed")
=============================================================================
