-------------------------- MODULE WorkflowRunProofs -------------------------
(***************************************************************************)
(* WorkflowRun, for every set of tasks, requests, faults and bounds.  The   *)
(* workflow and its environment only ever do what RuntimeStore lets any     *)
(* caller do, so the lease holds for them; and, from an inductive invariant *)
(* of the program counter, no claim is orphaned and a closed run is clean.  *)
(* The tasks of a run are executed one attempt at a time, in the order of   *)
(* their dependencies, and a run that reads completed has executed them all.*)
(***************************************************************************)
EXTENDS WorkflowRun, RuntimeStoreProofs

-----------------------------------------------------------------------------
(* The inductive invariant                                                  *)

RetryPcs == {"again", "againEv", "resume", "next"}
AttemptPcs == HoldingPcs \cup UnclaimedPcs \cup RetryPcs

(* While an attempt is on its way there is one, and a retry has one left.   *)
CurrentAttempt ==
  /\ pc \in AttemptPcs => cur \in Attempt
  /\ pc \in RetryPcs => cur[2] < MaxAttempts

(* Where the run row may read completed or failed: a denied approval closes *)
(* the run while its attempt is still to report.                            *)
ClosingPcs == {"complete", "completedEv", "failRun", "failedEv", "denyRun",
               "failEv", "failRelease", "result", "again"} \cup Closed

(* An attempt reports completed only from its regular end, and then the run *)
(* is still open.                                                           *)
OpenUntilClosing ==
  /\ pc \in HoldingPcs \cup (UnclaimedPcs \ {"result"}) => outcome # "completed"
  /\ pc \notin ClosingPcs \/ (pc = "result" /\ outcome = "completed")
       => run \notin TerminalRun

IInv ==
  /\ TypeOK
  /\ CurrentAttempt
  /\ HeartbeatsStop
  /\ NoOrphanClaim
  /\ OpenUntilClosing
  /\ TerminalClean

-----------------------------------------------------------------------------
(* The actions, by what they do to the tables                               *)

RunMoves ==
  \/ Enqueue \/ Start \/ Complete \/ FailRun \/ RetryRun \/ ResumeRun
  \/ OpenGate \/ PassGate \/ AskRun \/ GrantRun \/ DenyRun \/ RetryInPlace \/ RerunRun
RunEvents ==
  \/ EmitStarted \/ EmitCompleted \/ EmitFailed \/ EmitRetrying \/ EmitGate
  \/ EmitAsked \/ EmitRetryInPlace
TaskMoves ==
  \/ MoveClaimed \/ MoveRunning \/ AskTask \/ GrantTask \/ DenyTask \/ FailTask
  \/ MoveVerifying \/ RetryTask \/ RerunTask \/ FinishTask
TaskEvents ==
  \/ EmitClaimed \/ EmitReclaimed \/ EmitRunning \/ EmitGranted \/ EmitTaskFailed
  \/ EmitVerifying \/ EmitTaskCompleted
ClaimSteps ==
  \/ EmitTodo \/ Claim \/ FirstHeartbeat \/ SimulateReclaim
  \/ ReleaseFailed \/ ReleaseCompleted
LocalSteps ==
  \/ Plan \/ TakeBatch \/ NextTask \/ NothingReady \/ AttemptResult \/ NextAttempt
  \/ GateAnswered \/ GateTimeout
  \/ ExecutorAsks \/ ExecutorSucceeds \/ ExecutorFails \/ AskAnswered \/ AskTimeout

(* Every step of the workflow of base.py has one of the shapes above.       *)
LEMMA EngineSplit ==
  Engine <=> \/ RunMoves \/ RunEvents \/ TaskMoves \/ TaskEvents
             \/ ClaimSteps \/ LocalSteps
BY DEF Engine, RunSteps, AttemptSteps, ExecutorSteps, RunMoves, RunEvents,
       TaskMoves, TaskEvents, ClaimSteps, LocalSteps

-----------------------------------------------------------------------------
(* The workflow uses the store                                              *)

(* Every step of the workflow, of the heartbeat loop and of the recovery    *)
(* job is one of the operations of RuntimePersistenceService, or leaves the *)
(* tables alone.                                                            *)
LEMMA StoreStep ==
  ASSUME TypeOK, CurrentAttempt, HeartbeatsStop, [Next]_vars
  PROVE  [StoreNext]_storeVars
<1>1. CASE RunMoves
  BY <1>1 DEF RunMoves, Enqueue, Start, Complete, FailRun, RetryRun, ResumeRun,
     OpenGate, PassGate, AskRun, GrantRun, DenyRun, RetryInPlace, RerunRun,
     MoveRun, StoreNext, RunStatus
<1>2. CASE RunEvents
  BY <1>2 DEF RunEvents, EmitStarted, EmitCompleted, EmitFailed, EmitRetrying,
     EmitGate, EmitAsked, EmitRetryInPlace, EmitRun, Emit, StoreNext, RunStatus
<1>3. CASE TaskMoves
  BY <1>3 DEF TaskMoves, MoveClaimed, MoveRunning, AskTask, GrantTask, DenyTask,
     FailTask, MoveVerifying, RetryTask, RerunTask, FinishTask, MoveTask,
     StoreNext, TaskStatus, CurrentAttempt, AttemptPcs, HoldingPcs
<1>4. CASE TaskEvents
  BY <1>4 DEF TaskEvents, EmitClaimed, EmitReclaimed, EmitRunning, EmitGranted,
     EmitTaskFailed, EmitVerifying, EmitTaskCompleted, EmitTask, Emit,
     StoreNext, TaskStatus, CurrentAttempt, AttemptPcs, HoldingPcs, UnclaimedPcs
<1>5. CASE ClaimSteps
  <2>1. cur \in Attempt
    BY <1>5 DEF ClaimSteps, EmitTodo, Claim, FirstHeartbeat, SimulateReclaim,
       ReleaseFailed, ReleaseCompleted, GiveUp, Emit, CurrentAttempt, AttemptPcs,
       HoldingPcs, UnclaimedPcs
  <2> QED
    BY <1>5, <2>1 DEF ClaimSteps, EmitTodo, Claim, FirstHeartbeat, SimulateReclaim,
       ReleaseFailed, ReleaseCompleted, GiveUp, Emit, StoreNext
<1>6. CASE LocalSteps
  BY <1>6 DEF LocalSteps, Plan, TakeBatch, NextTask, NothingReady, AttemptResult,
     NextAttempt, GateAnswered, GateTimeout, ExecutorAsks, ExecutorSucceeds,
     ExecutorFails, ExecutorReturns, AskAnswered, AskTimeout, Local, storeVars
<1>7. CASE Environment
  <2>1. CASE HeartbeatLoop
    BY <2>1 DEF HeartbeatLoop, StoreNext, HeartbeatsStop, CurrentAttempt,
       AttemptPcs, UnclaimedPcs
  <2>2. CASE Signal \/ RecoveryScan \/ Crash
    BY <2>2 DEF Signal, RecoveryScan, Crash, storeVars
  <2>3. CASE LeaseLapse
    BY <2>3 DEF LeaseLapse, StoreNext
  <2>4. CASE RecoverClaim
    BY <2>4 DEF RecoverClaim, StoreNext, TypeOK
  <2>5. CASE ReconcileTerminal
    BY <2>5 DEF ReconcileTerminal, StoreNext
  <2> QED BY <1>7, <2>1, <2>2, <2>3, <2>4, <2>5 DEF Environment
<1>8. CASE UNCHANGED vars
  BY <1>8 DEF vars, storeVars
<1> QED BY <1>1, <1>2, <1>3, <1>4, <1>5, <1>6, <1>7, <1>8, EngineSplit DEF Next

-----------------------------------------------------------------------------
(* Types, and the current attempt                                           *)

(* A retry is an attempt: the loop of execute_task stays within its bound.  *)
LEMMA NextIsAttempt ==
  ASSUME NEW a \in Attempt, a[2] < MaxAttempts
  PROVE  <<a[1], a[2] + 1>> \in Attempt
BY MaxAttemptsAssumption DEF Attempt

(* Every step of every actor keeps the variables within their types.        *)
LEMMA TypesStep ==
  ASSUME TypeOK, CurrentAttempt, HeartbeatsStop, [Next]_vars
  PROVE  TypeOK'
<1>1. StoreTypeOK'
  BY StoreStep, StoreStepTypes DEF TypeOK
<1> USE WorkflowAssumption DEF TypeOK, PC, BetweenPcs, UnclaimedPcs, HoldingPcs, Closed
<1>2. CASE RunMoves
  BY <1>1, <1>2 DEF RunMoves, Enqueue, Start, Complete, FailRun, RetryRun, ResumeRun,
     OpenGate, PassGate, AskRun, GrantRun, DenyRun, RetryInPlace, RerunRun, AfterVerify,
     MoveRun, RunStatus, LostAnswer, engineVars, attemptVars, planVars, signalVars
<1>3. CASE RunEvents
  BY <1>1, <1>3 DEF RunEvents, EmitStarted, EmitCompleted, EmitFailed, EmitRetrying,
     EmitGate, EmitAsked, EmitRetryInPlace, EmitRun, Emit,
     LostAnswer, engineVars, attemptVars, planVars, signalVars
<1>4. CASE TaskMoves
  BY <1>1, <1>4 DEF TaskMoves, MoveClaimed, MoveRunning, AskTask, GrantTask, DenyTask,
     FailTask, MoveVerifying, RetryTask, RerunTask, FinishTask, MoveTask, TaskStatus,
     LostAnswer, engineVars, attemptVars, planVars, signalVars
<1>5. CASE TaskEvents
  BY <1>1, <1>5 DEF TaskEvents, EmitClaimed, EmitReclaimed, EmitRunning, EmitGranted,
     EmitTaskFailed, EmitVerifying, EmitTaskCompleted, EmitTask, Emit, AfterVerify,
     LostAnswer, engineVars, attemptVars, planVars, signalVars
<1>6. CASE ClaimSteps
  <2> USE DEF LostAnswer, engineVars, attemptVars, planVars, signalVars
  <2>1. CASE EmitTodo
    BY <1>1, <2>1 DEF EmitTodo, Emit
  <2>2. CASE Claim
    BY <1>1, <2>2 DEF Claim, Emit
  <2>3. CASE FirstHeartbeat
    BY <1>1, <2>3 DEF FirstHeartbeat
  <2>4. CASE SimulateReclaim
    BY <1>1, <2>4 DEF SimulateReclaim, Outcome, TaskStatus
  <2>5. CASE ReleaseFailed
    BY <1>1, <2>5 DEF ReleaseFailed, GiveUp
  <2>6. CASE ReleaseCompleted
    BY <1>1, <2>6 DEF ReleaseCompleted, GiveUp, Outcome
  <2> QED BY <1>6, <2>1, <2>2, <2>3, <2>4, <2>5, <2>6 DEF ClaimSteps
<1>7. CASE LocalSteps
  <2> USE DEF Local, engineVars, attemptVars, planVars, signalVars, Outcome, TaskStatus,
      Attempt
  <2>1. CASE Plan \/ TakeBatch \/ NothingReady
    BY <1>1, <2>1 DEF Plan, TakeBatch, NothingReady, Ready
  <2>2. CASE NextTask
    <3>1. PICK t \in batch : cur' = <<t, 1>> /\ batch' = batch \ {t}
      BY <2>2 DEF NextTask
    <3>2. cur' \in Attempt
      BY <3>1, MaxAttemptsAssumption
    <3> QED BY <1>1, <2>2, <3>1, <3>2 DEF NextTask
  <2>3. CASE NextAttempt
    <3>1. cur \in Attempt /\ cur[2] < MaxAttempts
      BY <2>3 DEF NextAttempt, CurrentAttempt, RetryPcs, AttemptPcs
    <3>2. cur' \in Attempt
      BY <2>3, <3>1, NextIsAttempt DEF NextAttempt
    <3> QED BY <1>1, <2>3, <3>2 DEF NextAttempt
  <2>4. CASE AttemptResult
    <3>1. cur \in Attempt
      BY <2>4 DEF AttemptResult, CurrentAttempt, AttemptPcs
    <3> QED BY <1>1, <2>4, <3>1 DEF AttemptResult, Retryable
  <2>5. CASE GateAnswered \/ GateTimeout \/ AskAnswered \/ AskTimeout
    BY <1>1, <2>5 DEF GateAnswered, GateTimeout, AskAnswered, AskTimeout, Answers,
       Resolution
  <2>6. CASE ExecutorAsks
    <3>1. cur \in Attempt
      BY <2>6 DEF ExecutorAsks, CurrentAttempt, AttemptPcs
    <3> QED BY <1>1, <2>6, <3>1 DEF ExecutorAsks
  <2>7. CASE ExecutorSucceeds \/ ExecutorFails
    BY <1>1, <2>7 DEF ExecutorSucceeds, ExecutorFails, ExecutorReturns
  <2> QED BY <1>7, <2>1, <2>2, <2>3, <2>4, <2>5, <2>6, <2>7 DEF LocalSteps
<1>8. CASE Environment
  <2> USE DEF engineVars, attemptVars, planVars, signalVars, storeVars
  <2>1. CASE Signal
    <3>1. signals' \in 0 .. MaxSignals
      BY <2>1 DEF Signal
    <3>2. slot' \in Resolution
      BY <2>1 DEF Signal, Resolution
    <3> QED BY <1>1, <2>1, <3>1, <3>2 DEF Signal
  <2>2. CASE RecoveryScan
    BY <1>1, <2>2 DEF RecoveryScan, StoreTypeOK, Active
  <2>3. CASE HeartbeatLoop \/ LeaseLapse \/ ReconcileTerminal
    BY <1>1, <2>3 DEF HeartbeatLoop, LeaseLapse, ReconcileTerminal
  <2>4. CASE RecoverClaim
    BY <1>1, <2>4 DEF RecoverClaim
  <2>5. CASE Crash
    BY <1>1, <2>5 DEF Crash
  <2> QED BY <1>8, <2>1, <2>2, <2>3, <2>4, <2>5 DEF Environment
<1>9. CASE UNCHANGED vars
  BY <1>1, <1>9 DEF vars, engineVars, attemptVars, planVars, signalVars
<1> QED BY <1>2, <1>3, <1>4, <1>5, <1>6, <1>7, <1>8, <1>9, EngineSplit DEF Next

(* Where the workflow is decides whether there is a current attempt, how    *)
(* many it has left, and whether its heartbeat loop may run.                *)
LEMMA CurrentStep ==
  ASSUME TypeOK, TypeOK', CurrentAttempt, HeartbeatsStop, [Next]_vars
  PROVE  CurrentAttempt' /\ HeartbeatsStop'
<1> USE DEF TypeOK, CurrentAttempt, HeartbeatsStop, AttemptPcs, RetryPcs, UnclaimedPcs,
            HoldingPcs, BetweenPcs
<1>1. CASE RunMoves
  BY <1>1 DEF RunMoves, Enqueue, Start, Complete, FailRun, RetryRun, ResumeRun,
     OpenGate, PassGate, AskRun, GrantRun, DenyRun, RetryInPlace, RerunRun, AfterVerify,
     MoveRun, LostAnswer, engineVars, attemptVars
<1>2. CASE RunEvents
  BY <1>2 DEF RunEvents, EmitStarted, EmitCompleted, EmitFailed, EmitRetrying,
     EmitGate, EmitAsked, EmitRetryInPlace, EmitRun, Emit, LostAnswer, engineVars,
     attemptVars
<1>3. CASE TaskMoves
  BY <1>3 DEF TaskMoves, MoveClaimed, MoveRunning, AskTask, GrantTask, DenyTask,
     FailTask, MoveVerifying, RetryTask, RerunTask, FinishTask, MoveTask,
     LostAnswer, engineVars, attemptVars
<1>4. CASE TaskEvents
  BY <1>4 DEF TaskEvents, EmitClaimed, EmitReclaimed, EmitRunning, EmitGranted,
     EmitTaskFailed, EmitVerifying, EmitTaskCompleted, EmitTask, Emit, AfterVerify,
     LostAnswer, engineVars, attemptVars
<1>5. CASE ClaimSteps
  BY <1>5 DEF ClaimSteps, EmitTodo, Claim, FirstHeartbeat, SimulateReclaim,
     ReleaseFailed, ReleaseCompleted, GiveUp, Emit, LostAnswer, engineVars, attemptVars
<1>6. CASE LocalSteps
  <2> USE DEF Local, attemptVars
  <2>1. CASE NextTask
    BY <2>1, MaxAttemptsAssumption DEF NextTask, Attempt
  <2>2. CASE NextAttempt
    BY <2>2, NextIsAttempt DEF NextAttempt
  <2>3. CASE AttemptResult
    BY <2>3 DEF AttemptResult, Retryable
  <2>4. CASE Plan \/ TakeBatch \/ NothingReady \/ GateAnswered \/ GateTimeout
             \/ ExecutorAsks \/ ExecutorSucceeds \/ ExecutorFails \/ AskAnswered \/ AskTimeout
    BY <2>4 DEF Plan, TakeBatch, NothingReady, GateAnswered, GateTimeout, ExecutorAsks,
       ExecutorSucceeds, ExecutorFails, ExecutorReturns, AskAnswered, AskTimeout
  <2> QED BY <1>6, <2>1, <2>2, <2>3, <2>4 DEF LocalSteps
<1>7. CASE Environment
  BY <1>7 DEF Environment, HeartbeatLoop, Signal, LeaseLapse, RecoveryScan, RecoverClaim,
     ReconcileTerminal, Crash, engineVars, attemptVars
<1>8. CASE UNCHANGED vars
  BY <1>8 DEF vars, engineVars, attemptVars
<1> QED BY <1>1, <1>2, <1>3, <1>4, <1>5, <1>6, <1>7, <1>8, EngineSplit DEF Next

-----------------------------------------------------------------------------
(* No orphaned claim                                                        *)

(* A transaction on the run or the task rows makes no claim active.         *)
LEMMA RowWritesClaimNothing ==
  ASSUME TypeOK
  PROVE  /\ \A status : WriteRun(status) => Active' \subseteq Active
         /\ \A a, status :
              TransitionTask(a, status) \/ TaskEvent(a, status) => Active' = Active
BY DEF WriteRun, Finalize, TransitionTask, TaskEvent, Active

(* Claims are taken only by the attempt being executed, and given up        *)
(* before the workflow leaves it.                                           *)
LEMMA OrphanStep ==
  ASSUME TypeOK, CurrentAttempt, NoOrphanClaim, [Next]_vars
  PROVE  NoOrphanClaim'
<1> USE DEF TypeOK, NoOrphanClaim, HoldingPcs
<1>1. CASE RunMoves
  <2>1. Active' \subseteq Active
    BY <1>1, RowWritesClaimNothing DEF RunMoves, Enqueue, Start, Complete, FailRun,
       RetryRun, ResumeRun, OpenGate, PassGate, AskRun, GrantRun, DenyRun, RetryInPlace,
       RerunRun, MoveRun
  <2> QED
    BY <1>1, <2>1 DEF RunMoves, Enqueue, Start, Complete, FailRun, RetryRun, ResumeRun,
       OpenGate, PassGate, AskRun, GrantRun, DenyRun, RetryInPlace, RerunRun, AfterVerify,
       MoveRun, LostAnswer, engineVars, attemptVars
<1>2. CASE RunEvents
  <2>1. Active' \subseteq Active
    BY <1>2, RowWritesClaimNothing DEF RunEvents, EmitStarted, EmitCompleted, EmitFailed,
       EmitRetrying, EmitGate, EmitAsked, EmitRetryInPlace, EmitRun, Emit
  <2> QED
    BY <1>2, <2>1 DEF RunEvents, EmitStarted, EmitCompleted, EmitFailed, EmitRetrying,
       EmitGate, EmitAsked, EmitRetryInPlace, EmitRun, Emit, LostAnswer, engineVars,
       attemptVars
<1>3. CASE TaskMoves
  <2>1. Active' = Active
    BY <1>3, RowWritesClaimNothing DEF TaskMoves, MoveClaimed, MoveRunning, AskTask,
       GrantTask, DenyTask, FailTask, MoveVerifying, RetryTask, RerunTask, FinishTask, MoveTask
  <2> QED
    BY <1>3, <2>1 DEF TaskMoves, MoveClaimed, MoveRunning, AskTask, GrantTask, DenyTask,
       FailTask, MoveVerifying, RetryTask, RerunTask, FinishTask, MoveTask,
       LostAnswer, engineVars, attemptVars
<1>4. CASE TaskEvents
  <2>1. Active' = Active
    BY <1>4, RowWritesClaimNothing DEF TaskEvents, EmitClaimed, EmitReclaimed, EmitRunning,
       EmitGranted, EmitTaskFailed, EmitVerifying, EmitTaskCompleted, EmitTask, Emit
  <2> QED
    BY <1>4, <2>1 DEF TaskEvents, EmitClaimed, EmitReclaimed, EmitRunning, EmitGranted,
       EmitTaskFailed, EmitVerifying, EmitTaskCompleted, EmitTask, Emit, AfterVerify,
       LostAnswer, engineVars, attemptVars
<1>5. CASE ClaimSteps
  <2> USE DEF LostAnswer, engineVars, attemptVars, Active, StoreTypeOK
  <2>1. CASE EmitTodo
    BY <2>1 DEF EmitTodo, Emit, TouchAttempt
  <2>2. CASE Claim
    BY <2>2 DEF Claim, Emit, ClaimTask
  <2>3. CASE FirstHeartbeat
    BY <2>3 DEF FirstHeartbeat, Heartbeat
  <2>4. CASE SimulateReclaim
    BY <2>4 DEF SimulateReclaim, ReclaimStale, Reclaimable
  <2>5. CASE ReleaseFailed \/ ReleaseCompleted
    <3>1. cur \in Attempt
      BY <2>5 DEF ReleaseFailed, ReleaseCompleted, GiveUp, CurrentAttempt, AttemptPcs
    <3> QED BY <2>5, <3>1 DEF ReleaseFailed, ReleaseCompleted, GiveUp, Release
  <2> QED BY <1>5, <2>1, <2>2, <2>3, <2>4, <2>5 DEF ClaimSteps
<1>6. CASE LocalSteps
  <2>1. Active' = Active
    BY <1>6 DEF LocalSteps, Plan, TakeBatch, NextTask, NothingReady, AttemptResult,
       NextAttempt, GateAnswered, GateTimeout, ExecutorAsks, ExecutorSucceeds,
       ExecutorFails, ExecutorReturns, AskAnswered, AskTimeout, Local, storeVars, Active
  <2> QED
    BY <1>6, <2>1 DEF LocalSteps, Plan, TakeBatch, NextTask, NothingReady, AttemptResult,
       NextAttempt, GateAnswered, GateTimeout, ExecutorAsks, ExecutorSucceeds,
       ExecutorFails, ExecutorReturns, AskAnswered, AskTimeout, Local, attemptVars
<1>7. CASE Environment
  <2> USE DEF engineVars, attemptVars, Active, storeVars
  <2>1. CASE HeartbeatLoop \/ LeaseLapse
    BY <2>1 DEF HeartbeatLoop, Heartbeat, LeaseLapse, Lapse
  <2>2. CASE Signal \/ RecoveryScan \/ Crash
    BY <2>2 DEF Signal, RecoveryScan, Crash
  <2>3. CASE RecoverClaim
    BY <2>3 DEF RecoverClaim, ReclaimStale, Reclaimable
  <2>4. CASE ReconcileTerminal
    BY <2>4 DEF ReconcileTerminal, Reconcile, Finalize
  <2> QED BY <1>7, <2>1, <2>2, <2>3, <2>4 DEF Environment
<1>8. CASE UNCHANGED vars
  BY <1>8 DEF vars, engineVars, attemptVars, storeVars, Active
<1> QED BY <1>1, <1>2, <1>3, <1>4, <1>5, <1>6, <1>7, <1>8, EngineSplit DEF Next

-----------------------------------------------------------------------------
(* A closed run is clean                                                    *)

(* The run is closed only by the workflow, and only where it then goes on   *)
(* to report, to release or to retry.                                       *)
LEMMA OpenStep ==
  ASSUME TypeOK, OpenUntilClosing, [Next]_vars
  PROVE  OpenUntilClosing'
<1> USE DEF OpenUntilClosing, ClosingPcs, HoldingPcs, UnclaimedPcs, Closed, TerminalRun
<1>1. CASE RunMoves
  BY <1>1 DEF RunMoves, Enqueue, Start, Complete, FailRun, RetryRun, ResumeRun,
     OpenGate, PassGate, AskRun, GrantRun, DenyRun, RetryInPlace, RerunRun, AfterVerify,
     MoveRun, WriteRun, LostAnswer, engineVars, attemptVars
<1>2. CASE RunEvents
  BY <1>2 DEF RunEvents, EmitStarted, EmitCompleted, EmitFailed, EmitRetrying,
     EmitGate, EmitAsked, EmitRetryInPlace, EmitRun, Emit, WriteRun, LostAnswer, engineVars,
     attemptVars
<1>3. CASE TaskMoves
  BY <1>3 DEF TaskMoves, MoveClaimed, MoveRunning, AskTask, GrantTask, DenyTask,
     FailTask, MoveVerifying, RetryTask, RerunTask, FinishTask, MoveTask, TransitionTask,
     LostAnswer, engineVars, attemptVars
<1>4. CASE TaskEvents
  BY <1>4 DEF TaskEvents, EmitClaimed, EmitReclaimed, EmitRunning, EmitGranted,
     EmitTaskFailed, EmitVerifying, EmitTaskCompleted, EmitTask, Emit, AfterVerify,
     TaskEvent, LostAnswer, engineVars, attemptVars
<1>5. CASE ClaimSteps
  BY <1>5 DEF ClaimSteps, EmitTodo, Claim, FirstHeartbeat, SimulateReclaim,
     ReleaseFailed, ReleaseCompleted, GiveUp, Emit, LostAnswer, engineVars, attemptVars,
     TouchAttempt, ClaimTask, Heartbeat, ReclaimStale, Release
<1>6. CASE LocalSteps
  BY <1>6 DEF LocalSteps, Plan, TakeBatch, NextTask, NothingReady, AttemptResult,
     NextAttempt, GateAnswered, GateTimeout, ExecutorAsks, ExecutorSucceeds,
     ExecutorFails, ExecutorReturns, AskAnswered, AskTimeout, Local, attemptVars, storeVars
<1>7. CASE Environment
  BY <1>7 DEF Environment, HeartbeatLoop, Heartbeat, Signal, LeaseLapse, Lapse,
     RecoveryScan, RecoverClaim, ReclaimStale, ReconcileTerminal, Reconcile, Crash,
     engineVars, attemptVars, storeVars
<1>8. CASE UNCHANGED vars
  BY <1>8 DEF vars, engineVars, attemptVars, storeVars
<1> QED BY <1>1, <1>2, <1>3, <1>4, <1>5, <1>6, <1>7, <1>8, EngineSplit DEF Next

(* Closing a run finalizes its records in the same transaction.             *)
LEMMA FinalizeCleans ==
  ASSUME StoreTypeOK, NEW status, Finalize(status)
  PROVE  /\ Active' = {}
         /\ \A t \in Task : task'[t] \notin Inflight
         /\ \A a \in Attempt : att'[a] \notin Inflight
BY DEF Finalize, ClosedAs, Inflight, Active, StoreTypeOK

(* No write that can follow the closing of a run reopens a record of it.    *)
LEMMA CleanStep ==
  ASSUME TypeOK, CurrentAttempt, OpenUntilClosing, TerminalClean, [Next]_vars
  PROVE  TerminalClean'
<1>1. ASSUME NEW status, WriteRun(status) PROVE TerminalClean'
  BY <1>1, FinalizeCleans DEF WriteRun, TerminalClean, TypeOK
<1>2. ASSUME UNCHANGED run, run \notin TerminalRun PROVE TerminalClean'
  BY <1>2 DEF TerminalClean
<1>3. CASE RunMoves
  BY <1>1, <1>3 DEF RunMoves, Enqueue, Start, Complete, FailRun, RetryRun, ResumeRun,
     OpenGate, PassGate, AskRun, GrantRun, DenyRun, RetryInPlace, RerunRun, MoveRun
<1>4. CASE RunEvents
  BY <1>1, <1>4 DEF RunEvents, EmitStarted, EmitCompleted, EmitFailed, EmitRetrying,
     EmitGate, EmitAsked, EmitRetryInPlace, EmitRun, Emit
<1>5. CASE TaskMoves
  BY <1>2, <1>5 DEF TaskMoves, MoveClaimed, MoveRunning, AskTask, GrantTask, DenyTask,
     FailTask, MoveVerifying, RetryTask, RerunTask, FinishTask, MoveTask,
     TransitionTask, OpenUntilClosing, ClosingPcs, Closed
<1>6. CASE TaskEvents
  <2>1. CASE EmitTaskFailed
    BY <2>1 DEF EmitTaskFailed, EmitTask, Emit, TaskEvent, TerminalClean, Inflight, Active,
       TypeOK, StoreTypeOK
  <2> QED
    BY <1>2, <1>6, <2>1 DEF TaskEvents, EmitClaimed, EmitReclaimed, EmitRunning, EmitGranted,
     EmitTaskFailed, EmitVerifying, EmitTaskCompleted, EmitTask, Emit,
       TaskEvent, OpenUntilClosing, ClosingPcs, Closed
<1>7. CASE ClaimSteps
  <2>1. CASE EmitTodo \/ Claim \/ FirstHeartbeat \/ SimulateReclaim
    BY <1>2, <2>1 DEF EmitTodo, Claim, FirstHeartbeat, SimulateReclaim, Emit, TouchAttempt,
       ClaimTask, Heartbeat, ReclaimStale, OpenUntilClosing, ClosingPcs, Closed
  <2>2. CASE ReleaseFailed \/ ReleaseCompleted
    BY <2>2 DEF ReleaseFailed, ReleaseCompleted, GiveUp, Release, TerminalClean, Active,
       TypeOK, StoreTypeOK
  <2> QED BY <1>7, <2>1, <2>2 DEF ClaimSteps
<1>8. CASE UNCHANGED storeVars
  BY <1>8 DEF storeVars, TerminalClean, Active
<1>9. CASE LocalSteps
  BY <1>8, <1>9 DEF LocalSteps, Plan, TakeBatch, NextTask, NothingReady, AttemptResult,
     NextAttempt, GateAnswered, GateTimeout, ExecutorAsks, ExecutorSucceeds,
     ExecutorFails, ExecutorReturns, AskAnswered, AskTimeout, Local
<1>10. CASE Environment
  <2>1. CASE HeartbeatLoop \/ LeaseLapse
    BY <2>1 DEF HeartbeatLoop, Heartbeat, LeaseLapse, Lapse, TerminalClean, Active
  <2>2. CASE Signal \/ RecoveryScan \/ Crash
    BY <1>8, <2>2 DEF Signal, RecoveryScan, Crash
  <2>3. CASE RecoverClaim
    BY <2>3 DEF RecoverClaim, ReclaimStale, Reclaimable, TerminalClean, Active, TypeOK,
       StoreTypeOK, Inflight
  <2>4. CASE ReconcileTerminal
    BY <2>4, FinalizeCleans DEF ReconcileTerminal, Reconcile, TerminalClean, TypeOK
  <2> QED BY <1>10, <2>1, <2>2, <2>3, <2>4 DEF Environment
<1>11. CASE UNCHANGED vars
  BY <1>8, <1>11 DEF vars
<1> QED
  BY <1>3, <1>4, <1>5, <1>6, <1>7, <1>9, <1>10, <1>11, EngineSplit DEF Next

-----------------------------------------------------------------------------
(* The theorems                                                             *)

(* The rows start_runtime_workflow writes satisfy the invariant.            *)
LEMMA InitInv == Init => IInv
<1> SUFFICES ASSUME Init PROVE IInv
  OBVIOUS
<1> USE DEF Init, StoreInit
<1>1. StoreTypeOK
  BY DEF StoreTypeOK, Active, RunStatus, TaskStatus, ClaimStatus
<1>2. TypeOK
  <2>1. signals \in 0 .. MaxSignals
    BY WorkflowAssumption
  <2>2. wf \in RunStatus /\ ts \in TaskStatus /\ pc \in PC /\ outcome \in Outcome
    BY DEF RunStatus, TaskStatus, PC, BetweenPcs, Outcome
  <2> QED BY <1>1, <2>1, <2>2 DEF TypeOK
<1>3. CurrentAttempt /\ HeartbeatsStop
  BY DEF CurrentAttempt, HeartbeatsStop, AttemptPcs, RetryPcs, HoldingPcs, UnclaimedPcs
<1>4. NoOrphanClaim
  BY DEF NoOrphanClaim, Active
<1>5. OpenUntilClosing /\ TerminalClean
  BY DEF OpenUntilClosing, ClosingPcs, HoldingPcs, UnclaimedPcs, Closed, TerminalClean,
         TerminalRun
<1> QED BY <1>2, <1>3, <1>4, <1>5 DEF IInv

(* The invariant is inductive: the steps above, put together.               *)
LEMMA Invariance == Spec => []IInv
<1>1. IInv /\ [Next]_vars => IInv'
  BY TypesStep, CurrentStep, OrphanStep, OpenStep, CleanStep DEF IInv
<1> QED BY InitInv, <1>1, PTL DEF Spec

(* Every variable of the run keeps its type: in particular the retries of a *)
(* task stay within MaxAttempts (execute_task).                             *)
THEOREM RunTypes == Spec => []TypeOK
BY Invariance, PTL DEF IInv

(* No claim outlives the attempt that took it, except when the workflow     *)
(* itself died: _execute_task_once releases on every path, and              *)
(* reclaim_stale_claims and the finalizers only end claims.                 *)
THEOREM RunOrphansNoClaim == Spec => []NoOrphanClaim
BY Invariance, PTL DEF IInv

(* _heartbeat_loop is cancelled on every way out of an attempt.             *)
THEOREM RunStopsHeartbeats == Spec => []HeartbeatsStop
BY Invariance, PTL DEF IInv

(* _finalize_inflight_records_on_workflow_terminal is enough: no write that *)
(* comes after the run closed, whoever does it, reopens one of its records. *)
THEOREM RunClosesClean == Spec => []TerminalClean
BY Invariance, PTL DEF IInv

(* The workflow, the heartbeat loop and the recovery job are callers of     *)
(* RuntimePersistenceService, and nothing else writes the tables.           *)
THEOREM RunUsesStore == Spec => StoreSpec
<1>1. Init => StoreInit
  BY DEF Init
<1>2. IInv /\ [Next]_vars => [StoreNext]_storeVars
  BY StoreStep DEF IInv
<1> QED BY <1>1, <1>2, Invariance, PTL DEF Spec, StoreSpec

(* So the claims of a run are one-shot leases, with lost answers, recovery  *)
(* and retries in any order.                                                *)
THEOREM RunImplementsLease == Spec => ClaimsAreLeases
BY RunUsesStore, StoreImplementsLease

-----------------------------------------------------------------------------
(* The run row follows the table                                            *)

(* What the workflow asks the run to become, where it asks for a            *)
(* transition, and what it repeats with an event.                           *)
Target ==
  [queue |-> "queued", start |-> "running", complete |-> "completed",
   failRun |-> "failed", again |-> "retrying", resume |-> "running",
   gate |-> "waiting_approval", gateOpen |-> "running",
   askRun |-> "waiting_approval", grantRun |-> "running", denyRun |-> "failed",
   retryRun |-> "retrying", rerunRun |-> "running"]
Repeated ==
  [started |-> "running", completedEv |-> "completed", failedEv |-> "failed",
   againEv |-> "retrying", gateEv |-> "waiting_approval",
   askEv |-> "waiting_approval", retryEv |-> "retrying"]

(* The workflow remembers the run row, or the row is one lost answer ahead  *)
(* of it, at the status the workflow is still asking for.                   *)
RowTracksWorkflow ==
  /\ pc # "crashed" =>
       run = wf \/ (pc \in DOMAIN Target /\ run = Target[pc] /\ LegalRun(wf, run))
  /\ pc \in DOMAIN Repeated => wf = Repeated[pc]

(* The workflow is at most one unanswered activity behind the run row, and  *)
(* an event that repeats a status follows the transition to it.             *)
LEMMA TrackStep ==
  ASSUME TypeOK, RowTracksWorkflow, [Next]_vars
  PROVE  RowTracksWorkflow'
<1> USE DEF RowTracksWorkflow, Target, Repeated
<1>1. CASE RunMoves
  BY <1>1 DEF RunMoves, Enqueue, Start, Complete, FailRun, RetryRun, ResumeRun,
     OpenGate, PassGate, AskRun, GrantRun, DenyRun, RetryInPlace, RerunRun, AfterVerify,
     MoveRun, WriteRun, LostAnswer, engineVars, attemptVars
<1>2. CASE RunEvents
  BY <1>2 DEF RunEvents, EmitStarted, EmitCompleted, EmitFailed, EmitRetrying,
     EmitGate, EmitAsked, EmitRetryInPlace, EmitRun, Emit, WriteRun, LostAnswer, engineVars,
     attemptVars
<1>3. CASE TaskMoves
  BY <1>3 DEF TaskMoves, MoveClaimed, MoveRunning, AskTask, GrantTask, DenyTask,
     FailTask, MoveVerifying, RetryTask, RerunTask, FinishTask, MoveTask, TransitionTask,
     LostAnswer, engineVars, attemptVars
<1>4. CASE TaskEvents
  BY <1>4 DEF TaskEvents, EmitClaimed, EmitReclaimed, EmitRunning, EmitGranted,
     EmitTaskFailed, EmitVerifying, EmitTaskCompleted, EmitTask, Emit, AfterVerify,
     TaskEvent, LostAnswer, engineVars, attemptVars
<1>5. CASE ClaimSteps
  BY <1>5 DEF ClaimSteps, EmitTodo, Claim, FirstHeartbeat, SimulateReclaim,
     ReleaseFailed, ReleaseCompleted, GiveUp, Emit, LostAnswer, engineVars, attemptVars,
     TouchAttempt, ClaimTask, Heartbeat, ReclaimStale, Release
<1>6. CASE LocalSteps
  BY <1>6 DEF LocalSteps, Plan, TakeBatch, NextTask, NothingReady, AttemptResult,
     NextAttempt, GateAnswered, GateTimeout, ExecutorAsks, ExecutorSucceeds,
     ExecutorFails, ExecutorReturns, AskAnswered, AskTimeout, Local, attemptVars, storeVars
<1>7. CASE Environment
  BY <1>7 DEF Environment, HeartbeatLoop, Heartbeat, Signal, LeaseLapse, Lapse,
     RecoveryScan, RecoverClaim, ReclaimStale, ReconcileTerminal, Reconcile, Crash,
     engineVars, attemptVars, storeVars
<1>8. CASE UNCHANGED vars
  BY <1>8 DEF vars, engineVars, attemptVars, storeVars
<1> QED BY <1>1, <1>2, <1>3, <1>4, <1>5, <1>6, <1>7, <1>8, EngineSplit DEF Next

(* So each write of the run row is a step of _WORKFLOW_TRANSITIONS.         *)
LEMMA TableStep ==
  ASSUME TypeOK, RowTracksWorkflow, [Next]_vars
  PROVE  LegalRun(run, run')
<1> USE DEF RowTracksWorkflow, Target, Repeated
<1>1. CASE RunMoves
  BY <1>1 DEF RunMoves, Enqueue, Start, Complete, FailRun, RetryRun, ResumeRun,
     OpenGate, PassGate, AskRun, GrantRun, DenyRun, RetryInPlace, RerunRun,
     MoveRun, WriteRun, LegalRun
<1>2. CASE RunEvents
  BY <1>2 DEF RunEvents, EmitStarted, EmitCompleted, EmitFailed, EmitRetrying,
     EmitGate, EmitAsked, EmitRetryInPlace, EmitRun, Emit, WriteRun, LegalRun
<1>3. ASSUME UNCHANGED run PROVE LegalRun(run, run')
  BY <1>3 DEF LegalRun
<1>4. CASE TaskMoves
  BY <1>3, <1>4 DEF TaskMoves, MoveClaimed, MoveRunning, AskTask, GrantTask, DenyTask,
     FailTask, MoveVerifying, RetryTask, RerunTask, FinishTask, MoveTask, TransitionTask
<1>5. CASE TaskEvents
  BY <1>3, <1>5 DEF TaskEvents, EmitClaimed, EmitReclaimed, EmitRunning, EmitGranted,
     EmitTaskFailed, EmitVerifying, EmitTaskCompleted, EmitTask, Emit, TaskEvent
<1>6. CASE ClaimSteps
  BY <1>3, <1>6 DEF ClaimSteps, EmitTodo, Claim, FirstHeartbeat, SimulateReclaim,
     ReleaseFailed, ReleaseCompleted, GiveUp, Emit, TouchAttempt, ClaimTask, Heartbeat,
     ReclaimStale, Release
<1>7. CASE LocalSteps
  BY <1>3, <1>7 DEF LocalSteps, Plan, TakeBatch, NextTask, NothingReady, AttemptResult,
     NextAttempt, GateAnswered, GateTimeout, ExecutorAsks, ExecutorSucceeds,
     ExecutorFails, ExecutorReturns, AskAnswered, AskTimeout, Local, storeVars
<1>8. CASE Environment
  BY <1>3, <1>8 DEF Environment, HeartbeatLoop, Heartbeat, Signal, LeaseLapse, Lapse,
     RecoveryScan, RecoverClaim, ReclaimStale, ReconcileTerminal, Reconcile, Crash, storeVars
<1>9. CASE UNCHANGED vars
  BY <1>3, <1>9 DEF vars, storeVars
<1> QED BY <1>1, <1>2, <1>4, <1>5, <1>6, <1>7, <1>8, <1>9, EngineSplit DEF Next

(* transition_workflow_status and append_event write the run row unread;    *)
(* the row still only takes steps of _WORKFLOW_TRANSITIONS, because the     *)
(* workflow is its one writer and repeats an activity before it goes on.    *)
THEOREM RunRowFollowsTable == Spec => RunFollowsTable
<1>1. Init => RowTracksWorkflow
  BY DEF Init, StoreInit, RowTracksWorkflow, Repeated
<1>2. TypeOK /\ RowTracksWorkflow /\ [Next]_vars => RowTracksWorkflow'
  BY TrackStep
<1>3. TypeOK /\ RowTracksWorkflow /\ [Next]_vars => [LegalRun(run, run')]_vars
  BY TableStep
<1> QED BY <1>1, <1>2, <1>3, RunTypes, PTL DEF Spec, RunFollowsTable

-----------------------------------------------------------------------------
(* One attempt in flight                                                    *)

(* Where no attempt is in flight, or none is any more.                      *)
IdlePcs == {"queue", "start", "started", "plan", "select", "complete", "completedEv",
            "againEv", "resume", "next", "failRelease", "release"}
GatePcs == {"gateEv", "gateWait", "gateOpen"}

(* An attempt that reports is not in flight any more, unless it was turned  *)
(* away at its gate: the run then waits for an approval, which it cannot    *)
(* leave to retry.                                                          *)
MayLive(a) ==
  /\ a = cur /\ pc \notin IdlePcs
  /\ pc \in {"result", "again"} => wf = "waiting_approval"
  /\ pc = "result" => outcome # "completed"
LiveAtItsPlace ==
  /\ pc \in GatePcs => wf = "waiting_approval"
  /\ \A a \in Attempt : att[a] \in Inflight => MayLive(a)

(* What an operation of the store does to the attempts in flight.           *)
LEMMA InflightWrites ==
  ASSUME TypeOK, NEW a \in Attempt, att'[a] \in Inflight
  PROVE  /\ \A status : WriteRun(status) => att[a] \in Inflight
         /\ Reconcile => att[a] \in Inflight
         /\ \A status : \A b \in Attempt :
              /\ TransitionTask(b, status) => IF a = b THEN status \in Inflight ELSE att[a] \in Inflight
              /\ TaskEvent(b, status) => IF a = b THEN status \in Inflight ELSE att[a] \in Inflight
         /\ \A b \in Attempt : TouchAttempt(b) \/ ClaimTask(b) => a = b \/ att[a] \in Inflight
         /\ \A b : Heartbeat(b) \/ Release(b) \/ Lapse(b) => att[a] \in Inflight
         /\ \A forced : ReclaimStale(forced) => att[a] \in Inflight
<1>1. att \in [Attempt -> TaskStatus \cup {"none"}]
  BY DEF TypeOK, StoreTypeOK
<1>2. \A status : ClosedAs(status) \notin Inflight
  BY DEF ClosedAs, Inflight
<1>3. ASSUME NEW status, WriteRun(status) PROVE att[a] \in Inflight
  BY <1>2, <1>3 DEF WriteRun, Finalize
<1>4. Reconcile => att[a] \in Inflight
  BY <1>2 DEF Reconcile, Finalize
<1>5. \A status : \A b \in Attempt :
        /\ TransitionTask(b, status) => IF a = b THEN status \in Inflight ELSE att[a] \in Inflight
        /\ TaskEvent(b, status) => IF a = b THEN status \in Inflight ELSE att[a] \in Inflight
  BY <1>1 DEF TransitionTask, TaskEvent, Inflight
<1>6. \A b \in Attempt : TouchAttempt(b) \/ ClaimTask(b) => a = b \/ att[a] \in Inflight
  BY <1>1 DEF TouchAttempt, ClaimTask
<1>7. \A b : Heartbeat(b) \/ Release(b) \/ Lapse(b) => att[a] \in Inflight
  BY DEF Heartbeat, Release, Lapse
<1>8. ASSUME NEW forced, ReclaimStale(forced) PROVE att[a] \in Inflight
  BY <1>8 DEF ReclaimStale, Inflight
<1> QED BY <1>3, <1>4, <1>5, <1>6, <1>7, <1>8

(* Every write that begins an attempt is of the attempt being executed, and *)
(* the workflow leaves it only when its row is closed.                      *)
LEMMA LiveStep ==
  ASSUME IInv, LiveAtItsPlace, [Next]_vars
  PROVE  LiveAtItsPlace'
<1>1. TypeOK /\ CurrentAttempt
  BY DEF IInv
<1> USE DEF MayLive, IdlePcs, GatePcs
<1>2. pc' \in GatePcs => wf' = "waiting_approval"
  <2> USE DEF LiveAtItsPlace
  <2>1. CASE RunMoves \/ RunEvents
    BY <2>1 DEF RunMoves, Enqueue, Start, Complete, FailRun, RetryRun, ResumeRun,
       OpenGate, PassGate, AskRun, GrantRun, DenyRun, RetryInPlace, RerunRun, AfterVerify,
       MoveRun, RunEvents, EmitStarted, EmitCompleted, EmitFailed, EmitRetrying,
       EmitGate, EmitAsked, EmitRetryInPlace, EmitRun, Emit, LostAnswer, engineVars
  <2>2. CASE TaskMoves \/ TaskEvents
    BY <2>2 DEF TaskMoves, MoveClaimed, MoveRunning, AskTask, GrantTask, DenyTask,
       FailTask, MoveVerifying, RetryTask, RerunTask, FinishTask, MoveTask, TaskEvents,
       EmitClaimed, EmitReclaimed, EmitRunning, EmitGranted, EmitTaskFailed, EmitVerifying,
       EmitTaskCompleted, EmitTask, Emit, AfterVerify, LostAnswer, engineVars
  <2>3. CASE ClaimSteps
    BY <2>3 DEF ClaimSteps, EmitTodo, Claim, FirstHeartbeat, SimulateReclaim,
       ReleaseFailed, ReleaseCompleted, GiveUp, Emit, LostAnswer, engineVars
  <2>4. CASE LocalSteps
    BY <2>4 DEF LocalSteps, Plan, TakeBatch, NextTask, NothingReady, AttemptResult,
       NextAttempt, GateAnswered, GateTimeout, ExecutorAsks, ExecutorSucceeds,
       ExecutorFails, ExecutorReturns, AskAnswered, AskTimeout, Local
  <2>5. CASE Environment \/ UNCHANGED vars
    BY <2>5 DEF Environment, HeartbeatLoop, Signal, LeaseLapse, RecoveryScan, RecoverClaim,
       ReconcileTerminal, Crash, vars, engineVars
  <2> QED BY <2>1, <2>2, <2>3, <2>4, <2>5, EngineSplit DEF Next
<1> SUFFICES ASSUME NEW a \in Attempt, att'[a] \in Inflight
             PROVE  MayLive(a)'
  BY <1>2 DEF LiveAtItsPlace
<1>3. att[a] \in Inflight => MayLive(a)
  BY DEF LiveAtItsPlace
<1>4. CASE RunMoves
  <2>1. att[a] \in Inflight
    BY <1>1, <1>4, InflightWrites DEF RunMoves, Enqueue, Start, Complete, FailRun,
       RetryRun, ResumeRun, OpenGate, PassGate, AskRun, GrantRun, DenyRun, RetryInPlace,
       RerunRun, MoveRun
  <2> QED
    BY <1>3, <1>4, <2>1 DEF RunMoves, Enqueue, Start, Complete, FailRun, RetryRun, ResumeRun,
       OpenGate, PassGate, AskRun, GrantRun, DenyRun, RetryInPlace, RerunRun, AfterVerify,
       MoveRun, LostAnswer, engineVars, attemptVars, LegalRun, RunNext
<1>5. CASE RunEvents
  <2>1. att[a] \in Inflight
    BY <1>1, <1>5, InflightWrites DEF RunEvents, EmitStarted, EmitCompleted, EmitFailed,
       EmitRetrying, EmitGate, EmitAsked, EmitRetryInPlace, EmitRun, Emit
  <2> QED
    BY <1>3, <1>5, <2>1 DEF RunEvents, EmitStarted, EmitCompleted, EmitFailed,
       EmitRetrying, EmitGate, EmitAsked, EmitRetryInPlace, EmitRun, Emit, LostAnswer,
       engineVars, attemptVars
<1>6. CASE TaskMoves
  <2>1. cur \in Attempt
    BY <1>1, <1>6 DEF TaskMoves, MoveClaimed, MoveRunning, AskTask, GrantTask, DenyTask,
       FailTask, MoveVerifying, RetryTask, RerunTask, FinishTask, MoveTask, CurrentAttempt,
       AttemptPcs, HoldingPcs
  <2>2. att[a] \in Inflight \/ a = cur
    BY <1>1, <1>6, <2>1, InflightWrites DEF TaskMoves, MoveClaimed, MoveRunning, AskTask,
       GrantTask, DenyTask, FailTask, MoveVerifying, RetryTask, RerunTask, FinishTask, MoveTask
  <2> QED
    BY <1>3, <1>6, <2>2 DEF TaskMoves, MoveClaimed, MoveRunning, AskTask, GrantTask,
       DenyTask, FailTask, MoveVerifying, RetryTask, RerunTask, FinishTask, MoveTask,
       LostAnswer, engineVars, attemptVars
<1>7. CASE TaskEvents
  <2>1. cur \in Attempt
    BY <1>1, <1>7 DEF TaskEvents, EmitClaimed, EmitReclaimed, EmitRunning, EmitGranted,
       EmitTaskFailed, EmitVerifying, EmitTaskCompleted, EmitTask, Emit, CurrentAttempt,
       AttemptPcs, HoldingPcs, UnclaimedPcs
  <2>2. CASE EmitReclaimed \/ EmitTaskFailed \/ EmitTaskCompleted
    <3>1. att[a] \in Inflight /\ a # cur
      BY <1>1, <2>1, <2>2, InflightWrites DEF EmitReclaimed, EmitTaskFailed, EmitTaskCompleted,
         EmitTask, Emit, Inflight
    <3> QED BY <1>3, <3>1
  <2>3. CASE EmitClaimed \/ EmitRunning \/ EmitGranted \/ EmitVerifying
    <3>1. att[a] \in Inflight \/ a = cur
      BY <1>1, <2>1, <2>3, InflightWrites DEF EmitClaimed, EmitRunning, EmitGranted,
         EmitVerifying, EmitTask, Emit
    <3> QED
      BY <1>3, <2>3, <3>1 DEF EmitClaimed, EmitRunning, EmitGranted, EmitVerifying,
         EmitTask, Emit, AfterVerify, LostAnswer, engineVars, attemptVars
  <2> QED BY <1>7, <2>2, <2>3 DEF TaskEvents
<1>8. CASE ClaimSteps
  <2>1. cur \in Attempt
    BY <1>1, <1>8 DEF ClaimSteps, EmitTodo, Claim, FirstHeartbeat, SimulateReclaim,
       ReleaseFailed, ReleaseCompleted, GiveUp, Emit, CurrentAttempt, AttemptPcs,
       HoldingPcs, UnclaimedPcs
  <2>2. CASE EmitTodo \/ Claim
    <3>1. att[a] \in Inflight \/ a = cur
      BY <1>1, <2>1, <2>2, InflightWrites DEF EmitTodo, Claim, Emit
    <3> QED
      BY <1>3, <2>2, <3>1 DEF EmitTodo, Claim, Emit, LostAnswer, engineVars, attemptVars
  <2>3. CASE FirstHeartbeat \/ SimulateReclaim \/ ReleaseFailed \/ ReleaseCompleted
    <3>1. att[a] \in Inflight
      BY <1>1, <2>3, InflightWrites DEF FirstHeartbeat, SimulateReclaim, ReleaseFailed,
         ReleaseCompleted, GiveUp
    <3> QED
      BY <1>3, <2>3, <3>1 DEF FirstHeartbeat, SimulateReclaim, ReleaseFailed,
         ReleaseCompleted, GiveUp, LostAnswer, engineVars, attemptVars
  <2> QED BY <1>8, <2>2, <2>3 DEF ClaimSteps
<1>9. CASE LocalSteps
  <2>1. att[a] \in Inflight
    BY <1>9 DEF LocalSteps, Plan, TakeBatch, NextTask, NothingReady, AttemptResult,
       NextAttempt, GateAnswered, GateTimeout, ExecutorAsks, ExecutorSucceeds,
       ExecutorFails, ExecutorReturns, AskAnswered, AskTimeout, Local, storeVars
  <2>2. CASE GateAnswered \/ GateTimeout
    BY <1>3, <2>1, <2>2 DEF GateAnswered, GateTimeout, Local, LiveAtItsPlace
  <2> QED
    BY <1>3, <1>9, <2>1, <2>2 DEF LocalSteps, Plan, TakeBatch, NextTask, NothingReady,
       AttemptResult, NextAttempt, ExecutorAsks, ExecutorSucceeds, ExecutorFails,
       ExecutorReturns, AskAnswered, AskTimeout, Local, attemptVars
<1>10. CASE Environment \/ UNCHANGED vars
  <2>1. att[a] \in Inflight
    BY <1>1, <1>10, InflightWrites DEF Environment, HeartbeatLoop, Signal, LeaseLapse,
       RecoveryScan, RecoverClaim, ReconcileTerminal, Crash, vars, storeVars
  <2> QED
    BY <1>3, <1>10, <2>1 DEF Environment, HeartbeatLoop, Signal, LeaseLapse, RecoveryScan,
       RecoverClaim, ReconcileTerminal, Crash, vars, engineVars, attemptVars
<1> QED
  BY <1>4, <1>5, <1>6, <1>7, <1>8, <1>9, <1>10, EngineSplit DEF Next

(* At most one attempt of the run is in flight (WorkflowRun!OneLiveAttempt),*)
(* with lost answers, denied approvals and recovery in any order.           *)
THEOREM RunHasOneLiveAttempt == Spec => []OneLiveAttempt
<1>1. Init => LiveAtItsPlace
  BY DEF Init, StoreInit, LiveAtItsPlace, Inflight, GatePcs
<1>2. LiveAtItsPlace /\ IInv /\ [Next]_vars => LiveAtItsPlace'
  BY LiveStep
<1>3. LiveAtItsPlace => OneLiveAttempt
  BY DEF LiveAtItsPlace, MayLive, OneLiveAttempt
<1> QED BY <1>1, <1>2, <1>3, Invariance, PTL DEF Spec

-----------------------------------------------------------------------------
(* The plan                                                                 *)

(* The tasks the sorter has handed out are those whose dependencies are     *)
(* finished, none of them twice.                                            *)
BatchIsReady ==
  \A t \in batch : t \notin finished /\ req.deps[t] \subseteq finished
CurrentIsReady ==
  pc \in AttemptPcs =>
    cur[1] \notin finished \cup batch /\ req.deps[cur[1]] \subseteq finished

(* The rows agree: what began was ready, what is finished is done.          *)
BegunWasReady == \A a \in Attempt : att[a] # "none" => req.deps[a[1]] \subseteq finished
FinishedIsDone == \A t \in finished : task[t] \in DoneRow
LandedIsDone ==
  pc = "release" \/ (pc = "result" /\ outcome = "completed") => task[cur[1]] \in DoneRow
ScansForRecovery == scan # {} => "recovery" \in Faults

(* Once prepared, the graph has neither unknown dependencies nor cycles; so *)
(* when nothing is ready, everything is finished.                           *)
PlannedPcs == AttemptPcs \cup {"select", "complete", "completedEv"}
GraphIsSound == pc \in PlannedPcs => ~UnknownDependency /\ ~Cyclic
AllFinished == run = "completed" \/ pc \in {"complete", "completedEv"} => finished = Task

PlanInv ==
  /\ BatchIsReady /\ CurrentIsReady
  /\ BegunWasReady /\ FinishedIsDone /\ LandedIsDone /\ ScansForRecovery
  /\ GraphIsSound /\ AllFinished

(* An empty answer of get_ready means that all is done: in a graph without  *)
(* unknown dependencies and cycles, tasks that wait for each other are none.*)
LEMMA NothingReadyMeansFinished ==
  ASSUME TypeOK, ~UnknownDependency, ~Cyclic, Ready = {}
  PROVE  finished = Task
<1> DEFINE S == Task \ finished
<1> SUFFICES ASSUME S # {} PROVE FALSE
  BY DEF TypeOK
<1>1. \A t \in S : req.deps[t] \cap S # {}
  BY DEF UnknownDependency, Ready
<1> QED BY <1>1 DEF Cyclic

(* The sorter: where the workflow takes a task, and where it is done.       *)
LEMMA SorterStep ==
  ASSUME TypeOK, BatchIsReady, CurrentIsReady, GraphIsSound, [Next]_vars
  PROVE  /\ BatchIsReady' /\ CurrentIsReady' /\ GraphIsSound'
         /\ finished \subseteq finished' /\ req' = req
         /\ finished' # finished => /\ pc = "result" /\ outcome = "completed"
                                   /\ finished' = finished \cup {cur[1]}
<1> USE DEF BatchIsReady, CurrentIsReady, GraphIsSound, PlannedPcs, AttemptPcs, HoldingPcs,
            UnclaimedPcs, RetryPcs, UnknownDependency, Cyclic
<1>1. CASE RunMoves
  BY <1>1 DEF RunMoves, Enqueue, Start, Complete, FailRun, RetryRun, ResumeRun,
     OpenGate, PassGate, AskRun, GrantRun, DenyRun, RetryInPlace, RerunRun, AfterVerify,
     MoveRun, LostAnswer, engineVars, attemptVars, planVars
<1>2. CASE RunEvents
  BY <1>2 DEF RunEvents, EmitStarted, EmitCompleted, EmitFailed, EmitRetrying,
     EmitGate, EmitAsked, EmitRetryInPlace, EmitRun, Emit, LostAnswer, engineVars,
     attemptVars, planVars
<1>3. CASE TaskMoves
  BY <1>3 DEF TaskMoves, MoveClaimed, MoveRunning, AskTask, GrantTask, DenyTask,
     FailTask, MoveVerifying, RetryTask, RerunTask, FinishTask, MoveTask,
     LostAnswer, engineVars, attemptVars, planVars
<1>4. CASE TaskEvents
  BY <1>4 DEF TaskEvents, EmitClaimed, EmitReclaimed, EmitRunning, EmitGranted,
     EmitTaskFailed, EmitVerifying, EmitTaskCompleted, EmitTask, Emit, AfterVerify,
     LostAnswer, engineVars, attemptVars, planVars
<1>5. CASE ClaimSteps
  BY <1>5 DEF ClaimSteps, EmitTodo, Claim, FirstHeartbeat, SimulateReclaim,
     ReleaseFailed, ReleaseCompleted, GiveUp, Emit, LostAnswer, engineVars, attemptVars,
     planVars
<1>6. CASE LocalSteps
  <2>1. CASE NextTask
    BY <2>1 DEF NextTask, Local
  <2>2. CASE NextAttempt
    BY <2>2 DEF NextAttempt, Local, planVars
  <2>3. CASE AttemptResult
    BY <2>3 DEF AttemptResult, Local, attemptVars
  <2>4. CASE TakeBatch
    BY <2>4 DEF TakeBatch, Ready, Local
  <2>5. CASE Plan \/ NothingReady
    BY <2>5 DEF Plan, NothingReady, Local, planVars
  <2>6. CASE GateAnswered \/ GateTimeout \/ ExecutorAsks \/ ExecutorSucceeds
             \/ ExecutorFails \/ AskAnswered \/ AskTimeout
    BY <2>6 DEF GateAnswered, GateTimeout, ExecutorAsks, ExecutorSucceeds,
       ExecutorFails, ExecutorReturns, AskAnswered, AskTimeout, Local, attemptVars, planVars
  <2> QED BY <1>6, <2>1, <2>2, <2>3, <2>4, <2>5, <2>6 DEF LocalSteps
<1>7. CASE Environment \/ UNCHANGED vars
  BY <1>7 DEF Environment, HeartbeatLoop, Signal, LeaseLapse, RecoveryScan, RecoverClaim,
     ReconcileTerminal, Crash, vars, engineVars, attemptVars, planVars
<1> QED BY <1>1, <1>2, <1>3, <1>4, <1>5, <1>6, <1>7, EngineSplit DEF Next

(* A run becomes completed only where everything is finished.               *)
LEMMA FinishedStep ==
  ASSUME TypeOK, TypeOK', GraphIsSound, AllFinished, [Next]_vars, finished \subseteq finished'
  PROVE  AllFinished'
<1>1. finished = Task => finished' = Task
  BY DEF TypeOK
<1> USE DEF AllFinished
<1>2. CASE RunMoves
  BY <1>1, <1>2 DEF RunMoves, Enqueue, Start, Complete, FailRun, RetryRun, ResumeRun,
     OpenGate, PassGate, AskRun, GrantRun, DenyRun, RetryInPlace, RerunRun, AfterVerify,
     MoveRun, WriteRun, LostAnswer, engineVars
<1>3. CASE RunEvents
  BY <1>1, <1>3 DEF RunEvents, EmitStarted, EmitCompleted, EmitFailed, EmitRetrying,
     EmitGate, EmitAsked, EmitRetryInPlace, EmitRun, Emit, WriteRun, LostAnswer, engineVars
<1>4. CASE TaskMoves
  BY <1>1, <1>4 DEF TaskMoves, MoveClaimed, MoveRunning, AskTask, GrantTask, DenyTask,
     FailTask, MoveVerifying, RetryTask, RerunTask, FinishTask, MoveTask, TransitionTask,
     LostAnswer, engineVars
<1>5. CASE TaskEvents
  BY <1>1, <1>5 DEF TaskEvents, EmitClaimed, EmitReclaimed, EmitRunning, EmitGranted,
     EmitTaskFailed, EmitVerifying, EmitTaskCompleted, EmitTask, Emit, AfterVerify,
     TaskEvent, LostAnswer, engineVars
<1>6. CASE ClaimSteps
  BY <1>1, <1>6 DEF ClaimSteps, EmitTodo, Claim, FirstHeartbeat, SimulateReclaim,
     ReleaseFailed, ReleaseCompleted, GiveUp, Emit, LostAnswer, engineVars,
     TouchAttempt, ClaimTask, Heartbeat, ReclaimStale, Release
<1>7. CASE LocalSteps
  <2>1. CASE NothingReady
    <3>1. ~UnknownDependency /\ ~Cyclic /\ Ready = {}
      BY <2>1 DEF NothingReady, Local, GraphIsSound, PlannedPcs
    <3> QED BY <1>1, <3>1, NothingReadyMeansFinished
  <2> QED
    BY <1>1, <1>7, <2>1 DEF LocalSteps, Plan, TakeBatch, NextTask, AttemptResult,
       NextAttempt, GateAnswered, GateTimeout, ExecutorAsks, ExecutorSucceeds,
       ExecutorFails, ExecutorReturns, AskAnswered, AskTimeout, Local, storeVars
<1>8. CASE Environment \/ UNCHANGED vars
  BY <1>1, <1>8 DEF Environment, HeartbeatLoop, Heartbeat, Signal, LeaseLapse, Lapse,
     RecoveryScan, RecoverClaim, ReclaimStale, ReconcileTerminal, Reconcile, Crash,
     vars, engineVars, storeVars
<1> QED BY <1>2, <1>3, <1>4, <1>5, <1>6, <1>7, <1>8, EngineSplit DEF Next

(* What an operation of the store does to the row of a task that is done.   *)
LEMMA DoneWrites ==
  ASSUME TypeOK, NEW t \in Task, task[t] \in DoneRow
  PROVE  /\ \A status : WriteRun(status) => task'[t] = task[t]
         /\ Reconcile => task'[t] = task[t]
         /\ \A status : \A a \in Attempt :
              TransitionTask(a, status) \/ TaskEvent(a, status) \/ ClaimTask(a)
                => task'[t] = task[t] \/ a[1] = t
         /\ \A a : TouchAttempt(a) \/ Heartbeat(a) \/ Release(a) \/ Lapse(a)
                => task'[t] = task[t]
         /\ \A forced : ReclaimStale(forced) =>
              \/ task'[t] = task[t]
              \/ task'[t] = "reclaimed" /\ \E a \in Reclaimable(forced) : a[1] = t
<1>1. task \in [Task -> TaskStatus] /\ task[t] \notin Inflight
  BY DEF TypeOK, StoreTypeOK, DoneRow, Inflight
<1>2. \A status : WriteRun(status) => task'[t] = task[t]
  BY <1>1 DEF WriteRun, Finalize
<1>3. Reconcile => task'[t] = task[t]
  BY <1>1 DEF Reconcile, Finalize
<1>4. \A status : \A a \in Attempt :
        TransitionTask(a, status) \/ TaskEvent(a, status) \/ ClaimTask(a)
          => task'[t] = task[t] \/ a[1] = t
  BY <1>1 DEF TransitionTask, TaskEvent, ClaimTask
<1>5. \A a : TouchAttempt(a) \/ Heartbeat(a) \/ Release(a) \/ Lapse(a) => task'[t] = task[t]
  BY DEF TouchAttempt, Heartbeat, Release, Lapse
<1>6. \A forced : ReclaimStale(forced) =>
        \/ task'[t] = task[t]
        \/ task'[t] = "reclaimed" /\ \E a \in Reclaimable(forced) : a[1] = t
  BY DEF ReclaimStale
<1> QED BY <1>2, <1>3, <1>4, <1>5, <1>6

(* No operation of the store makes an attempt begin but those of its own.   *)
LEMMA BeginWrites ==
  ASSUME TypeOK, NEW a \in Attempt, att'[a] # "none"
  PROVE  /\ \A status : WriteRun(status) => att[a] # "none"
         /\ Reconcile => att[a] # "none"
         /\ \A status : \A b \in Attempt :
              TransitionTask(b, status) \/ TaskEvent(b, status) => a = b \/ att[a] # "none"
         /\ \A b \in Attempt : TouchAttempt(b) \/ ClaimTask(b) => a = b \/ att[a] # "none"
         /\ \A b : Heartbeat(b) \/ Release(b) \/ Lapse(b) => att[a] # "none"
         /\ \A forced : ReclaimStale(forced) => att[a] # "none"
<1>1. att \in [Attempt -> TaskStatus \cup {"none"}]
  BY DEF TypeOK, StoreTypeOK
<1>2. ASSUME NEW status, WriteRun(status) PROVE att[a] # "none"
  BY <1>2 DEF WriteRun, Finalize, Inflight
<1>3. Reconcile => att[a] # "none"
  BY DEF Reconcile, Finalize, Inflight
<1>4. \A status : \A b \in Attempt :
        TransitionTask(b, status) \/ TaskEvent(b, status) => a = b \/ att[a] # "none"
  BY <1>1 DEF TransitionTask, TaskEvent
<1>5. \A b \in Attempt : TouchAttempt(b) \/ ClaimTask(b) => a = b \/ att[a] # "none"
  BY <1>1 DEF TouchAttempt, ClaimTask
<1>6. \A b : Heartbeat(b) \/ Release(b) \/ Lapse(b) => att[a] # "none"
  BY DEF Heartbeat, Release, Lapse
<1>7. ASSUME NEW forced, ReclaimStale(forced) PROVE att[a] # "none"
  BY <1>7 DEF ReclaimStale
<1> QED BY <1>2, <1>3, <1>4, <1>5, <1>6, <1>7

(* An attempt begins only as the current one.                               *)
LEMMA OnlyCurrentBegins ==
  ASSUME TypeOK, CurrentAttempt, [Next]_vars, NEW a \in Attempt, att'[a] # "none"
  PROVE  att[a] # "none" \/ (a = cur /\ pc \in AttemptPcs)
<1> USE DEF CurrentAttempt, AttemptPcs, HoldingPcs, UnclaimedPcs
<1>1. CASE RunMoves
  BY <1>1, BeginWrites DEF RunMoves, Enqueue, Start, Complete, FailRun, RetryRun, ResumeRun,
     OpenGate, PassGate, AskRun, GrantRun, DenyRun, RetryInPlace, RerunRun, MoveRun
<1>2. CASE RunEvents
  BY <1>2, BeginWrites DEF RunEvents, EmitStarted, EmitCompleted, EmitFailed, EmitRetrying,
     EmitGate, EmitAsked, EmitRetryInPlace, EmitRun, Emit
<1>3. CASE TaskMoves
  BY <1>3, BeginWrites DEF TaskMoves, MoveClaimed, MoveRunning, AskTask, GrantTask, DenyTask,
     FailTask, MoveVerifying, RetryTask, RerunTask, FinishTask, MoveTask
<1>4. CASE TaskEvents
  BY <1>4, BeginWrites DEF TaskEvents, EmitClaimed, EmitReclaimed, EmitRunning, EmitGranted,
     EmitTaskFailed, EmitVerifying, EmitTaskCompleted, EmitTask, Emit
<1>5. CASE ClaimSteps
  BY <1>5, BeginWrites DEF ClaimSteps, EmitTodo, Claim, FirstHeartbeat, SimulateReclaim,
     ReleaseFailed, ReleaseCompleted, GiveUp, Emit
<1>6. CASE LocalSteps
  BY <1>6 DEF LocalSteps, Plan, TakeBatch, NextTask, NothingReady, AttemptResult,
     NextAttempt, GateAnswered, GateTimeout, ExecutorAsks, ExecutorSucceeds,
     ExecutorFails, ExecutorReturns, AskAnswered, AskTimeout, Local, storeVars
<1>7. CASE Environment \/ UNCHANGED vars
  BY <1>7, BeginWrites DEF Environment, HeartbeatLoop, Signal, LeaseLapse, RecoveryScan,
     RecoverClaim, ReconcileTerminal, Crash, vars, storeVars
<1> QED BY <1>1, <1>2, <1>3, <1>4, <1>5, <1>6, <1>7, EngineSplit DEF Next

(* A task that is done is written again by nobody but the recovery job.     *)
LEMMA DoneStaysDone ==
  ASSUME IInv, CurrentIsReady, ScansForRecovery, [Next]_vars,
         NEW t \in Task, task[t] \in DoneRow,
         pc \in AttemptPcs => cur[1] # t \/ pc = "release" \/ pc = "result"
  PROVE  task'[t] \in DoneRow
<1>1. TypeOK /\ CurrentAttempt /\ NoOrphanClaim
  BY DEF IInv
<1>2. CASE task'[t] = task[t]
  BY <1>2
<1> USE DEF CurrentAttempt, AttemptPcs, HoldingPcs, UnclaimedPcs
<1>3. CASE RunMoves
  BY <1>1, <1>2, <1>3, DoneWrites DEF RunMoves, Enqueue, Start, Complete, FailRun, RetryRun,
     ResumeRun, OpenGate, PassGate, AskRun, GrantRun, DenyRun, RetryInPlace, RerunRun, MoveRun
<1>4. CASE RunEvents
  BY <1>1, <1>2, <1>4, DoneWrites DEF RunEvents, EmitStarted, EmitCompleted, EmitFailed,
     EmitRetrying, EmitGate, EmitAsked, EmitRetryInPlace, EmitRun, Emit
<1>5. CASE TaskMoves
  BY <1>1, <1>2, <1>5, DoneWrites DEF TaskMoves, MoveClaimed, MoveRunning, AskTask, GrantTask,
     DenyTask, FailTask, MoveVerifying, RetryTask, RerunTask, FinishTask, MoveTask
<1>6. CASE TaskEvents
  BY <1>1, <1>2, <1>6, DoneWrites DEF TaskEvents, EmitClaimed, EmitReclaimed, EmitRunning,
     EmitGranted, EmitTaskFailed, EmitVerifying, EmitTaskCompleted, EmitTask, Emit
<1>7. CASE ClaimSteps
  <2>1. CASE SimulateReclaim
    <3>1. \A a \in Reclaimable({cur}) : a = cur
      BY <1>1, <2>1 DEF SimulateReclaim, Reclaimable, NoOrphanClaim
    <3> QED BY <1>1, <1>2, <2>1, <3>1, DoneWrites DEF SimulateReclaim
  <2> QED
    BY <1>1, <1>2, <1>7, <2>1, DoneWrites DEF ClaimSteps, EmitTodo, Claim, FirstHeartbeat,
       ReleaseFailed, ReleaseCompleted, GiveUp, Emit
<1>8. CASE LocalSteps
  BY <1>2, <1>8 DEF LocalSteps, Plan, TakeBatch, NextTask, NothingReady, AttemptResult,
     NextAttempt, GateAnswered, GateTimeout, ExecutorAsks, ExecutorSucceeds,
     ExecutorFails, ExecutorReturns, AskAnswered, AskTimeout, Local, storeVars
<1>9. CASE Environment \/ UNCHANGED vars
  <2>1. CASE RecoverClaim
    <3>1. "recovery" \in Faults
      BY <2>1 DEF RecoverClaim, ScansForRecovery
    <3> QED BY <1>1, <1>2, <2>1, <3>1, DoneWrites DEF RecoverClaim, DoneRow
  <2> QED
    BY <1>1, <1>2, <1>9, <2>1, DoneWrites DEF Environment, HeartbeatLoop, Signal, LeaseLapse,
       RecoveryScan, ReconcileTerminal, Crash, vars, storeVars
<1> QED BY <1>3, <1>4, <1>5, <1>6, <1>7, <1>8, <1>9, EngineSplit DEF Next

(* Only the recovery job scans.                                             *)
LEMMA ScanStep ==
  ASSUME ScansForRecovery, [Next]_vars
  PROVE  ScansForRecovery'
<1> USE DEF ScansForRecovery
<1>1. CASE RunMoves \/ RunEvents
  BY <1>1 DEF RunMoves, Enqueue, Start, Complete, FailRun, RetryRun, ResumeRun,
     OpenGate, PassGate, AskRun, GrantRun, DenyRun, RetryInPlace, RerunRun,
     MoveRun, RunEvents, EmitStarted, EmitCompleted, EmitFailed, EmitRetrying,
     EmitGate, EmitAsked, EmitRetryInPlace, EmitRun, Emit
<1>2. CASE TaskMoves \/ TaskEvents
  BY <1>2 DEF TaskMoves, MoveClaimed, MoveRunning, AskTask, GrantTask, DenyTask,
     FailTask, MoveVerifying, RetryTask, RerunTask, FinishTask, MoveTask, TaskEvents,
     EmitClaimed, EmitReclaimed, EmitRunning, EmitGranted, EmitTaskFailed, EmitVerifying,
     EmitTaskCompleted, EmitTask, Emit
<1>3. CASE ClaimSteps \/ LocalSteps
  BY <1>3 DEF ClaimSteps, EmitTodo, Claim, FirstHeartbeat, SimulateReclaim,
     ReleaseFailed, ReleaseCompleted, GiveUp, Emit, LocalSteps, Plan, TakeBatch, NextTask,
     NothingReady, AttemptResult, NextAttempt, GateAnswered, GateTimeout, ExecutorAsks,
     ExecutorSucceeds, ExecutorFails, ExecutorReturns, AskAnswered, AskTimeout, Local
<1>4. CASE Environment \/ UNCHANGED vars
  BY <1>4 DEF Environment, HeartbeatLoop, Signal, LeaseLapse, RecoveryScan, RecoverClaim,
     ReconcileTerminal, Crash, vars
<1> QED BY <1>1, <1>2, <1>3, <1>4, EngineSplit DEF Next

(* An attempt that reports completed has its task row completed before its  *)
(* claim is released.                                                       *)
LEMMA LandedStep ==
  ASSUME IInv, CurrentIsReady, LandedIsDone, ScansForRecovery, [Next]_vars
  PROVE  LandedIsDone'
<1>1. TypeOK /\ CurrentAttempt /\ OpenUntilClosing
  BY DEF IInv
<1> USE DEF LandedIsDone, OpenUntilClosing, HoldingPcs, UnclaimedPcs
<1> SUFFICES ASSUME pc' = "release" \/ (pc' = "result" /\ outcome' = "completed")
             PROVE  task'[cur'[1]] \in DoneRow
  OBVIOUS
<1>2. CASE EmitTaskCompleted
  <2>1. cur \in Attempt /\ task \in [Task -> TaskStatus]
    BY <1>1, <1>2 DEF EmitTaskCompleted, EmitTask, Emit, CurrentAttempt, AttemptPcs, TypeOK,
       StoreTypeOK
  <2>2. task' = [task EXCEPT ![cur[1]] = "completed"] /\ cur[1] \in Task
    BY <1>2, <2>1 DEF EmitTaskCompleted, EmitTask, Emit, TaskEvent, Attempt
  <2>3. cur' = cur
    BY <1>2 DEF EmitTaskCompleted, EmitTask, Emit, LostAnswer, engineVars, attemptVars
  <2> QED BY <2>1, <2>2, <2>3 DEF DoneRow
<1>3. CASE (pc = "release" \/ (pc = "result" /\ outcome = "completed")) /\ cur' = cur
  <2>1. cur[1] \in Task
    BY <1>1, <1>3 DEF CurrentAttempt, AttemptPcs, Attempt
  <2> QED BY <1>3, <2>1, DoneStaysDone
<1>4. CASE RunMoves
  BY <1>1, <1>4 DEF RunMoves, Enqueue, Start, Complete, FailRun, RetryRun, ResumeRun,
     OpenGate, PassGate, AskRun, GrantRun, DenyRun, RetryInPlace, RerunRun, AfterVerify,
     MoveRun, LostAnswer, engineVars, attemptVars
<1>5. CASE RunEvents
  BY <1>1, <1>5 DEF RunEvents, EmitStarted, EmitCompleted, EmitFailed, EmitRetrying,
     EmitGate, EmitAsked, EmitRetryInPlace, EmitRun, Emit, LostAnswer, engineVars, attemptVars
<1>6. CASE TaskMoves
  BY <1>1, <1>6 DEF TaskMoves, MoveClaimed, MoveRunning, AskTask, GrantTask, DenyTask,
     FailTask, MoveVerifying, RetryTask, RerunTask, FinishTask, MoveTask,
     LostAnswer, engineVars, attemptVars
<1>7. CASE TaskEvents
  BY <1>1, <1>2, <1>7 DEF TaskEvents, EmitClaimed, EmitReclaimed, EmitRunning, EmitGranted,
     EmitTaskFailed, EmitVerifying, EmitTask, Emit, AfterVerify, LostAnswer, engineVars,
     attemptVars
<1>8. CASE ClaimSteps
  BY <1>1, <1>3, <1>8 DEF ClaimSteps, EmitTodo, Claim, FirstHeartbeat, SimulateReclaim,
     ReleaseFailed, ReleaseCompleted, GiveUp, Emit, LostAnswer, engineVars, attemptVars
<1>9. CASE LocalSteps
  BY <1>1, <1>9 DEF LocalSteps, Plan, TakeBatch, NextTask, NothingReady, AttemptResult,
     NextAttempt, GateAnswered, GateTimeout, ExecutorAsks, ExecutorSucceeds,
     ExecutorFails, ExecutorReturns, AskAnswered, AskTimeout, Local
<1>10. CASE Environment \/ UNCHANGED vars
  BY <1>3, <1>10 DEF Environment, HeartbeatLoop, Signal, LeaseLapse, RecoveryScan,
     RecoverClaim, ReconcileTerminal, Crash, vars, engineVars, attemptVars
<1> QED
  BY <1>4, <1>5, <1>6, <1>7, <1>8, <1>9, <1>10, EngineSplit DEF Next

(* The plan invariant is inductive.                                         *)
LEMMA PlanStep ==
  ASSUME IInv, IInv', PlanInv, [Next]_vars
  PROVE  PlanInv'
<1>1. TypeOK /\ TypeOK' /\ CurrentAttempt
  BY DEF IInv
<1>2. BatchIsReady /\ CurrentIsReady /\ GraphIsSound /\ BegunWasReady /\ FinishedIsDone
      /\ LandedIsDone /\ ScansForRecovery /\ AllFinished
  BY DEF PlanInv
<1>3. /\ BatchIsReady' /\ CurrentIsReady' /\ GraphIsSound'
      /\ finished \subseteq finished' /\ req' = req
      /\ finished' # finished => /\ pc = "result" /\ outcome = "completed"
                                /\ finished' = finished \cup {cur[1]}
  BY <1>1, <1>2, SorterStep
<1>4. AllFinished' /\ ScansForRecovery' /\ LandedIsDone'
  BY <1>1, <1>2, <1>3, FinishedStep, ScanStep, LandedStep
<1>5. BegunWasReady'
  <2> SUFFICES ASSUME NEW a \in Attempt, att'[a] # "none"
               PROVE  req.deps[a[1]] \subseteq finished
    BY <1>3 DEF BegunWasReady
  <2> QED BY <1>1, <1>2, OnlyCurrentBegins DEF BegunWasReady, CurrentIsReady
<1>6. FinishedIsDone'
  <2> SUFFICES ASSUME NEW t \in finished' PROVE task'[t] \in DoneRow
    BY DEF FinishedIsDone, DoneRow
  <2>1. t \in Task
    BY <1>1 DEF TypeOK
  <2>2. CASE t \in finished
    <3>1. pc \in AttemptPcs => cur[1] # t
      BY <1>2, <2>2 DEF CurrentIsReady
    <3> QED BY <1>2, <2>1, <2>2, <3>1, DoneStaysDone DEF FinishedIsDone
  <2>3. CASE t \notin finished
    <3>1. t = cur[1] /\ pc = "result" /\ outcome = "completed"
      BY <1>3, <2>3
    <3> QED BY <1>2, <2>1, <3>1, DoneStaysDone DEF LandedIsDone
  <2> QED BY <2>2, <2>3
<1> QED BY <1>3, <1>4, <1>5, <1>6 DEF PlanInv

(* A run that starts has planned and begun nothing.                         *)
LEMMA PlanInit == Init => PlanInv
<1> SUFFICES ASSUME Init PROVE PlanInv
  OBVIOUS
<1> USE DEF Init, StoreInit
<1>1. BatchIsReady /\ CurrentIsReady /\ BegunWasReady /\ FinishedIsDone /\ ScansForRecovery
  BY DEF BatchIsReady, CurrentIsReady, BegunWasReady, FinishedIsDone, ScansForRecovery,
     AttemptPcs, HoldingPcs, UnclaimedPcs, RetryPcs
<1>2. LandedIsDone /\ GraphIsSound /\ AllFinished
  BY DEF LandedIsDone, GraphIsSound, AllFinished, PlannedPcs, AttemptPcs, HoldingPcs,
     UnclaimedPcs, RetryPcs
<1> QED BY <1>1, <1>2 DEF PlanInv

(* The workflow's memory of its plan and the rows agree in every state.     *)
LEMMA PlanInvariance == Spec => []PlanInv
<1>1. IInv /\ PlanInv /\ [Next]_vars /\ IInv' => PlanInv'
  BY PlanStep
<1> QED BY <1>1, PlanInit, Invariance, PTL DEF Spec

(* No attempt of a task begins before every task it depends on is done in   *)
(* the tables (WorkflowRun!DependenciesRespected), whatever the graph: an   *)
(* unknown dependency or a cycle begins nothing.                            *)
THEOREM RunRespectsDependencies == Spec => []DependenciesRespected
<1>1. IInv /\ PlanInv => DependenciesRespected
  BY DEF IInv, TypeOK, PlanInv, BegunWasReady, FinishedIsDone, DependenciesRespected
<1> QED BY <1>1, Invariance, PlanInvariance, PTL

(* A run reads completed only when each of its tasks is done                *)
(* (WorkflowRun!CompletedMeansDone): an acyclic plan leaves no task behind. *)
THEOREM RunCompletesItsTasks == Spec => []CompletedMeansDone
<1>1. PlanInv => CompletedMeansDone
  BY DEF PlanInv, AllFinished, FinishedIsDone, CompletedMeansDone
<1> QED BY <1>1, PlanInvariance, PTL

-----------------------------------------------------------------------------
(* Working under a lease                                                    *)

(* The recovery job ends claims and attempts behind the workflow's back,    *)
(* and after a lost answer the simulated reclaim finds nothing to reclaim.  *)
NoRecovery == "recovery" \notin Faults
Undisturbed == NoRecovery /\ "lost_ack" \notin Faults

(* The recovery job took the claim of the attempt, and moved its rows.      *)
Disturbed(a) == "recovery" \in Faults /\ claim[a] = "reclaimed"

PlanningPcs == {"queue", "start", "started", "plan", "select", "complete", "completedEv"}
PreclaimPcs == {"todo", "gate", "gateEv", "gateWait", "gateOpen", "claim"}
(* Where the workflow holds the claim; a denied approval may have ended it. *)
HeldPcs == HoldingPcs \ {"failEv", "failRelease"}

(* The status the workflow remembers, at the places where it is one only.   *)
TaskAt ==
  [claimed |-> "queued", claimedEv |-> "claimed", beat |-> "claimed",
   simReclaim |-> "claimed", reclaimEv |-> "reclaimed", runEv |-> "running",
   grantEv |-> "running", failEv |-> "failed", denyRun |-> "failed", verifyEv |-> "verifying",
   finishEv |-> "completed"]

(* What it asks of the attempt, where it asks for a transition.             *)
TaskTarget ==
  [claimed |-> "claimed", run |-> "running", askTask |-> "waiting_approval",
   grantTask |-> "running", denyTask |-> "failed", failTask |-> "failed",
   verify |-> "verifying", retryTask |-> "retrying", rerunTask |-> "running",
   finish |-> "completed"]

(* The attempts executed so far; the next one has neither row nor claim.    *)
Reached(a) ==
  a[1] \in finished \/ (pc \notin PlanningPcs /\ a[1] = cur[1] /\ a[2] <= cur[2])
BegunIsReached ==
  \A a \in Attempt : att[a] # "none" \/ claim[a] # "none" => Reached(a)
CurrentIsFresh ==
  pc \in PreclaimPcs =>
    /\ ts = "queued"
    /\ \/ claim[cur] = "none" /\ att[cur] \in {"none", "queued"}
       \/ pc = "claim" /\ claim[cur] = "active"
       \/ pc = "claim" /\ Disturbed(cur)

(* From its claim on, an attempt holds it, and its row is what the workflow *)
(* remembers, or one lost answer ahead of it, or the claim was taken; a     *)
(* release does not tell whether it was.                                    *)
CurrentIsHeld == pc \in HeldPcs => claim[cur] = "active"
RowTracksTask ==
  /\ pc \in DOMAIN TaskAt => ts = TaskAt[pc]
  /\ pc \in HoldingPcs \cup {"reclaimEv"} =>
       \/ att[cur] = ts
       \/ pc \in DOMAIN TaskTarget /\ att[cur] = TaskTarget[pc] /\ LegalTask(ts, att[cur])
       \/ pc \in {"simReclaim", "run"} /\ att[cur] = "reclaimed"
       \/ Disturbed(cur)
       \/ "recovery" \in Faults /\ pc \in {"failRelease", "release"}

RowInv == BegunIsReached /\ CurrentIsFresh /\ RowTracksTask
LeaseInv == LiveAtItsPlace /\ CurrentIsHeld /\ WorkingHoldsLease

(* A claim row comes with the claim of the current attempt.                 *)
LEMMA OnlyCurrentClaims ==
  ASSUME TypeOK, CurrentAttempt, [Next]_vars, NEW a \in Attempt, claim'[a] # "none"
  PROVE  claim[a] # "none" \/ (a = cur /\ pc \in AttemptPcs)
<1>0. claim \in [Attempt -> ClaimStatus \cup {"none"}]
  BY DEF TypeOK, StoreTypeOK
<1> USE DEF CurrentAttempt, AttemptPcs, HoldingPcs, UnclaimedPcs
<1>1. CASE RunMoves \/ RunEvents
  BY <1>1 DEF RunMoves, Enqueue, Start, Complete, FailRun, RetryRun, ResumeRun, OpenGate,
     PassGate, AskRun, GrantRun, DenyRun, RetryInPlace, RerunRun, MoveRun, RunEvents,
     EmitStarted, EmitCompleted, EmitFailed, EmitRetrying, EmitGate, EmitAsked,
     EmitRetryInPlace, EmitRun, Emit, WriteRun, Finalize, Active
<1>2. CASE TaskMoves \/ TaskEvents
  BY <1>2 DEF TaskMoves, MoveClaimed, MoveRunning, AskTask, GrantTask, DenyTask,
     FailTask, MoveVerifying, RetryTask, RerunTask, FinishTask, MoveTask, TaskEvents,
     EmitClaimed, EmitReclaimed, EmitRunning, EmitGranted, EmitTaskFailed, EmitVerifying,
     EmitTaskCompleted, EmitTask, Emit, TransitionTask, TaskEvent
<1>3. CASE ClaimSteps
  BY <1>0, <1>3 DEF ClaimSteps, EmitTodo, Claim, FirstHeartbeat, SimulateReclaim,
     ReleaseFailed, ReleaseCompleted, GiveUp, Emit, TouchAttempt, ClaimTask, Heartbeat,
     ReclaimStale, Reclaimable, Active, Release
<1>4. CASE LocalSteps
  BY <1>4 DEF LocalSteps, Plan, TakeBatch, NextTask, NothingReady, AttemptResult,
     NextAttempt, GateAnswered, GateTimeout, ExecutorAsks, ExecutorSucceeds,
     ExecutorFails, ExecutorReturns, AskAnswered, AskTimeout, Local, storeVars
<1>5. CASE Environment \/ UNCHANGED vars
  BY <1>5 DEF Environment, HeartbeatLoop, Heartbeat, Signal, LeaseLapse, Lapse, RecoveryScan,
     RecoverClaim, ReclaimStale, Reclaimable, Active, ReconcileTerminal, Reconcile, Finalize,
     Crash, vars, storeVars
<1> QED BY <1>1, <1>2, <1>3, <1>4, <1>5, EngineSplit DEF Next

(* The workflow goes on to other attempts only when it has left those of a  *)
(* finished task behind.                                                    *)
LEMMA ReachedStep ==
  ASSUME TypeOK, CurrentAttempt, [Next]_vars, finished \subseteq finished', NEW a \in Attempt,
         Reached(a) \/ (a = cur /\ pc \in AttemptPcs)
  PROVE  Reached(a)'
<1>0. a[2] \in Nat /\ a = <<a[1], a[2]>> /\ (pc \in AttemptPcs => cur \in Attempt /\ cur[2] \in Nat)
  BY MaxAttemptsAssumption DEF Attempt, CurrentAttempt
<1> USE DEF Reached, AttemptPcs, HoldingPcs, UnclaimedPcs, RetryPcs, PlanningPcs
<1>1. CASE RunMoves
  BY <1>0, <1>1 DEF RunMoves, Enqueue, Start, Complete, FailRun, RetryRun, ResumeRun,
     OpenGate, PassGate, AskRun, GrantRun, DenyRun, RetryInPlace, RerunRun, AfterVerify,
     MoveRun, LostAnswer, engineVars, attemptVars, planVars
<1>2. CASE RunEvents
  BY <1>0, <1>2 DEF RunEvents, EmitStarted, EmitCompleted, EmitFailed, EmitRetrying,
     EmitGate, EmitAsked, EmitRetryInPlace, EmitRun, Emit, LostAnswer, engineVars,
     attemptVars, planVars
<1>3. CASE TaskMoves
  BY <1>0, <1>3 DEF TaskMoves, MoveClaimed, MoveRunning, AskTask, GrantTask, DenyTask,
     FailTask, MoveVerifying, RetryTask, RerunTask, FinishTask, MoveTask,
     LostAnswer, engineVars, attemptVars, planVars
<1>4. CASE TaskEvents
  BY <1>0, <1>4 DEF TaskEvents, EmitClaimed, EmitReclaimed, EmitRunning, EmitGranted,
     EmitTaskFailed, EmitVerifying, EmitTaskCompleted, EmitTask, Emit, AfterVerify,
     LostAnswer, engineVars, attemptVars, planVars
<1>5. CASE ClaimSteps
  BY <1>0, <1>5 DEF ClaimSteps, EmitTodo, Claim, FirstHeartbeat, SimulateReclaim,
     ReleaseFailed, ReleaseCompleted, GiveUp, Emit, LostAnswer, engineVars, attemptVars,
     planVars
<1>6. CASE LocalSteps
  <2>1. CASE NextTask
    BY <1>0, <2>1 DEF NextTask, Local
  <2>2. CASE NextAttempt
    BY <1>0, <2>2 DEF NextAttempt, Local, planVars
  <2>3. CASE AttemptResult
    BY <1>0, <2>3 DEF AttemptResult, Local, attemptVars
  <2>4. CASE Plan \/ TakeBatch \/ NothingReady \/ GateAnswered \/ GateTimeout \/ ExecutorAsks
             \/ ExecutorSucceeds \/ ExecutorFails \/ AskAnswered \/ AskTimeout
    BY <1>0, <2>4 DEF Plan, TakeBatch, NothingReady, GateAnswered, GateTimeout, ExecutorAsks,
       ExecutorSucceeds, ExecutorFails, ExecutorReturns, AskAnswered, AskTimeout, Local,
       attemptVars, planVars
  <2> QED BY <1>6, <2>1, <2>2, <2>3, <2>4 DEF LocalSteps
<1>7. CASE Environment \/ UNCHANGED vars
  BY <1>0, <1>7 DEF Environment, HeartbeatLoop, Signal, LeaseLapse, RecoveryScan, RecoverClaim,
     ReconcileTerminal, Crash, vars, engineVars, attemptVars, planVars, Closed
<1> QED BY <1>1, <1>2, <1>3, <1>4, <1>5, <1>6, <1>7, EngineSplit DEF Next

(* What has a row or a claim was reached.                                   *)
LEMMA BegunStep ==
  ASSUME TypeOK, CurrentAttempt, BegunIsReached, [Next]_vars, finished \subseteq finished'
  PROVE  BegunIsReached'
<1> SUFFICES ASSUME NEW a \in Attempt, att'[a] # "none" \/ claim'[a] # "none"
             PROVE  Reached(a)'
  BY DEF BegunIsReached
<1>1. att[a] # "none" \/ claim[a] # "none" \/ (a = cur /\ pc \in AttemptPcs)
  BY OnlyCurrentBegins, OnlyCurrentClaims
<1> QED BY <1>1, ReachedStep DEF BegunIsReached

(* Without lost answers an activity is answered where it is asked for.      *)
LEMMA AnswersArrive ==
  ASSUME Undisturbed
  PROVE  ~LostAnswer /\ "lost_ack" \notin Faults /\ NoRecovery
BY DEF Undisturbed, LostAnswer

(* What goes on beside the workflow touches the records of an attempt only  *)
(* where the recovery job takes its claim.                                  *)
LEMMA EnvironmentSpares ==
  ASSUME IInv, ScansForRecovery, Environment \/ UNCHANGED vars
  PROVE  /\ cur' = cur /\ ts' = ts /\ pc' \in {pc, "crashed"}
         /\ \A a \in Attempt :
              \/ att'[a] = att[a] /\ claim'[a] = claim[a]
              \/ claim[a] = "active" /\ "recovery" \in Faults /\ claim'[a] = "reclaimed"
<1>1. /\ claim \in [Attempt -> ClaimStatus \cup {"none"}]
      /\ att \in [Attempt -> TaskStatus \cup {"none"}]
  BY DEF IInv, TypeOK, StoreTypeOK
<1>2. CASE RecoverClaim
  BY <1>1, <1>2 DEF RecoverClaim, ReclaimStale, Reclaimable, Active, ScansForRecovery,
     engineVars, attemptVars
<1>3. CASE ReconcileTerminal
  <2>1. \A a \in Attempt : att[a] \notin Inflight /\ a \notin Active
    BY <1>3 DEF ReconcileTerminal, Reconcile, IInv, TerminalClean
  <2> QED BY <1>3, <2>1 DEF ReconcileTerminal, Reconcile, Finalize, engineVars, attemptVars
<1> QED
  BY <1>2, <1>3 DEF Environment, HeartbeatLoop, Heartbeat, Signal, LeaseLapse, Lapse,
     RecoveryScan, Crash, vars, engineVars, attemptVars, storeVars

(* No attempt is claimed before its time: the next one is new.              *)
LEMMA FreshStep ==
  ASSUME IInv, CurrentIsReady, ScansForRecovery, BatchIsReady,
         BegunIsReached, CurrentIsFresh, [Next]_vars
  PROVE  CurrentIsFresh'
<1>1. TypeOK /\ CurrentAttempt /\ NoOrphanClaim
  BY DEF IInv
<1>2. /\ att \in [Attempt -> TaskStatus \cup {"none"}]
      /\ claim \in [Attempt -> ClaimStatus \cup {"none"}]
  BY <1>1 DEF TypeOK, StoreTypeOK
<1> USE DEF CurrentIsFresh, PreclaimPcs
<1>3. CASE RunMoves
  BY <1>1, <1>3 DEF LostAnswer, engineVars, RunMoves, Enqueue, Start, Complete, FailRun,
     RetryRun, ResumeRun, OpenGate, PassGate, AskRun, GrantRun, DenyRun, RetryInPlace,
     RerunRun, AfterVerify, MoveRun, attemptVars, WriteRun, TerminalRun
<1>4. CASE RunEvents
  BY <1>4 DEF LostAnswer, engineVars, RunEvents, EmitStarted, EmitCompleted, EmitFailed,
     EmitRetrying, EmitGate, EmitAsked, EmitRetryInPlace, EmitRun, Emit, attemptVars,
     WriteRun, TerminalRun
<1>5. CASE TaskMoves \/ TaskEvents
  BY <1>5 DEF LostAnswer, engineVars, TaskMoves, MoveClaimed, MoveRunning, AskTask, GrantTask,
     DenyTask, FailTask, MoveVerifying, RetryTask, RerunTask, FinishTask, MoveTask,
     TaskEvents, EmitClaimed, EmitReclaimed, EmitRunning, EmitGranted, EmitTaskFailed,
     EmitVerifying, EmitTaskCompleted, EmitTask, Emit, AfterVerify
<1>6. CASE ClaimSteps
  <2>1. CASE EmitTodo
    <3>1. cur \in Attempt
      BY <1>1, <2>1 DEF EmitTodo, Emit, CurrentAttempt, AttemptPcs, UnclaimedPcs
    <3> QED BY <1>2, <2>1, <3>1 DEF LostAnswer, engineVars, EmitTodo, Emit, TouchAttempt,
       attemptVars
  <2>2. CASE Claim
    <3>1. cur \in Attempt /\ \A b \in Active : b[1] # cur[1]
      BY <1>1, <2>2 DEF Claim, Emit, ClaimTask, CurrentAttempt, AttemptPcs, UnclaimedPcs
    <3>2. claim[cur] = "none" \/ Disturbed(cur)
      BY <2>2, <3>1 DEF Claim, Emit, Active
    <3> QED BY <1>2, <2>2, <3>1, <3>2 DEF Disturbed, Claim, Emit, ClaimTask, LostAnswer, engineVars,
       attemptVars
  <2> QED
    BY <1>6, <2>1, <2>2 DEF LostAnswer, engineVars, attemptVars, ClaimSteps, FirstHeartbeat,
       SimulateReclaim, ReleaseFailed, ReleaseCompleted, GiveUp, Emit
<1>7. CASE LocalSteps
  <2>1. CASE NextTask
    <3>1. PICK t \in batch : cur' = <<t, 1>>
      BY <2>1 DEF NextTask
    <3>2. cur' \in Attempt /\ cur'[1] = t /\ t \notin finished
      BY <1>1, <3>1, MaxAttemptsAssumption DEF Attempt, BatchIsReady, TypeOK
    <3>3. ~Reached(cur')
      BY <2>1, <3>2 DEF Reached, NextTask, Local, PlanningPcs
    <3>4. att[cur'] = "none" /\ claim[cur'] = "none"
      BY <3>2, <3>3 DEF BegunIsReached
    <3> QED BY <2>1, <3>4 DEF NextTask, Local, storeVars
  <2>2. CASE NextAttempt
    <3>1. cur \in Attempt /\ cur[2] < MaxAttempts /\ cur[1] \notin finished
      BY <1>1, <2>2 DEF NextAttempt, Local, CurrentAttempt, CurrentIsReady, AttemptPcs, RetryPcs
    <3>2. cur[2] \in Nat
      BY <3>1, MaxAttemptsAssumption DEF Attempt
    <3>3. cur' \in Attempt /\ cur'[1] = cur[1] /\ cur'[2] = cur[2] + 1
      BY <2>2, <3>1, NextIsAttempt DEF NextAttempt
    <3>4. ~Reached(cur')
      BY <3>1, <3>2, <3>3 DEF Reached
    <3>5. att[cur'] = "none" /\ claim[cur'] = "none"
      BY <3>3, <3>4 DEF BegunIsReached
    <3> QED BY <2>2, <3>5 DEF NextAttempt, Local, storeVars
  <2> QED
    BY <1>7, <2>1, <2>2 DEF LocalSteps, Plan, TakeBatch, NothingReady, AttemptResult,
       GateAnswered, GateTimeout, ExecutorAsks, ExecutorSucceeds, ExecutorFails,
       ExecutorReturns, AskAnswered, AskTimeout, Local, storeVars
<1>8. CASE Environment \/ UNCHANGED vars
  <2>1. CASE pc' = "crashed"
    BY <2>1
  <2>2. CASE pc' \in PreclaimPcs
    <3>1. pc' = pc /\ cur' = cur /\ ts' = ts
      BY <1>8, <2>2, EnvironmentSpares
    <3>2. cur \in Attempt
      BY <1>1, <2>2, <3>1 DEF CurrentAttempt, AttemptPcs, UnclaimedPcs
    <3>3. \/ att'[cur] = att[cur] /\ claim'[cur] = claim[cur]
          \/ claim[cur] = "active" /\ "recovery" \in Faults /\ claim'[cur] = "reclaimed"
      BY <1>8, <2>2, <3>2, EnvironmentSpares
    <3> QED BY <3>1, <3>3 DEF Disturbed
  <2> QED BY <2>2
<1> QED BY <1>3, <1>4, <1>5, <1>6, <1>7, <1>8, EngineSplit DEF Next

(* The claim the attempt was given stays its own until it gives it up: it   *)
(* is new when it is taken, and only the workflow ends it.                  *)
LEMMA HeldStep ==
  ASSUME Undisturbed, IInv, ScansForRecovery, CurrentIsFresh, CurrentIsHeld, [Next]_vars
  PROVE  CurrentIsHeld'
<1>1. TypeOK /\ CurrentAttempt /\ scan = {}
  BY AnswersArrive DEF NoRecovery, IInv, ScansForRecovery
<1>2. claim \in [Attempt -> ClaimStatus \cup {"none"}] /\ (pc \in AttemptPcs => cur \in Attempt)
  BY <1>1 DEF TypeOK, StoreTypeOK, CurrentAttempt
<1> USE DEF CurrentIsHeld, HeldPcs, HoldingPcs
<1>3. CASE RunMoves
  BY <1>3, AnswersArrive DEF RunMoves, Enqueue, Start, Complete, FailRun, RetryRun,
     ResumeRun, OpenGate, PassGate, AskRun, GrantRun, DenyRun, RetryInPlace, RerunRun,
     AfterVerify, MoveRun, attemptVars, WriteRun, TerminalRun
<1>4. CASE RunEvents
  BY <1>4, AnswersArrive DEF RunEvents, EmitStarted, EmitCompleted, EmitFailed, EmitRetrying,
     EmitGate, EmitAsked, EmitRetryInPlace, EmitRun, Emit, attemptVars, WriteRun, TerminalRun
<1>5. CASE TaskMoves
  BY <1>5, AnswersArrive DEF TaskMoves, MoveClaimed, MoveRunning, AskTask, GrantTask, DenyTask,
     FailTask, MoveVerifying, RetryTask, RerunTask, FinishTask, MoveTask,
     TransitionTask
<1>6. CASE TaskEvents
  BY <1>6, AnswersArrive DEF TaskEvents, EmitClaimed, EmitReclaimed, EmitRunning, EmitGranted,
     EmitTaskFailed, EmitVerifying, EmitTaskCompleted, EmitTask, Emit, AfterVerify, TaskEvent,
     attemptVars
<1>7. CASE ClaimSteps
  <2> USE DEF AttemptPcs, UnclaimedPcs
  <2>1. CASE Claim
    BY <1>2, <2>1, AnswersArrive DEF Claim, Emit, ClaimTask, CurrentIsFresh, PreclaimPcs,
       attemptVars, Disturbed, NoRecovery
  <2>2. CASE FirstHeartbeat
    BY <2>2, AnswersArrive DEF FirstHeartbeat, Heartbeat, attemptVars
  <2>3. CASE SimulateReclaim
    <3>1. cur \in Reclaimable({cur})
      BY <1>2, <2>3 DEF SimulateReclaim, Reclaimable, Active
    <3> QED BY <2>3, <3>1, AnswersArrive DEF SimulateReclaim
  <2>4. CASE EmitTodo \/ ReleaseFailed \/ ReleaseCompleted
    BY <2>4, AnswersArrive DEF EmitTodo, Emit, ReleaseFailed, ReleaseCompleted, GiveUp
  <2> QED BY <1>7, <2>1, <2>2, <2>3, <2>4 DEF ClaimSteps
<1>8. CASE LocalSteps
  BY <1>8 DEF LocalSteps, Plan, TakeBatch, NextTask, NothingReady, AttemptResult,
     NextAttempt, GateAnswered, GateTimeout, ExecutorAsks, ExecutorSucceeds,
     ExecutorFails, ExecutorReturns, AskAnswered, AskTimeout, Local,
     attemptVars, storeVars
<1>9. CASE Environment \/ UNCHANGED vars
  BY <1>1, <1>9, AnswersArrive DEF NoRecovery, Environment, HeartbeatLoop, Heartbeat, Signal,
     LeaseLapse, Lapse, RecoveryScan, RecoverClaim, ReconcileTerminal, Crash, vars,
     engineVars, attemptVars, storeVars
<1> QED BY <1>3, <1>4, <1>5, <1>6, <1>7, <1>8, <1>9, EngineSplit DEF Next

(* The workflow knows how its attempt reads: only who takes its claim       *)
(* writes the row too.                                                      *)
LEMMA TracksStep ==
  ASSUME IInv, ScansForRecovery, CurrentIsFresh, RowTracksTask,
         [Next]_vars
  PROVE  RowTracksTask'
<1>1. TypeOK /\ CurrentAttempt /\ NoOrphanClaim
  BY DEF IInv
<1>2. /\ claim \in [Attempt -> ClaimStatus \cup {"none"}]
      /\ att \in [Attempt -> TaskStatus \cup {"none"}]
      /\ pc \in AttemptPcs => cur \in Attempt
      /\ ts # "none"
  BY <1>1 DEF TypeOK, StoreTypeOK, CurrentAttempt, TaskStatus
<1> USE DEF RowTracksTask, TaskAt, TaskTarget, HoldingPcs, Disturbed
<1>3. CASE RunMoves
  <2>1. CASE DenyRun
    BY <1>2, <2>1 DEF LostAnswer, engineVars, DenyRun, MoveRun, WriteRun, Finalize, Inflight,
       attemptVars, AttemptPcs, Active
  <2> QED
    BY <1>3, <2>1 DEF LostAnswer, engineVars, RunMoves, Enqueue, Start, Complete, FailRun,
       RetryRun, ResumeRun, OpenGate, PassGate, AskRun, GrantRun, DenyRun, RetryInPlace,
       RerunRun, AfterVerify, MoveRun, attemptVars, WriteRun, TerminalRun
<1>4. CASE RunEvents
  BY <1>4 DEF LostAnswer, engineVars, RunEvents, EmitStarted, EmitCompleted, EmitFailed,
     EmitRetrying, EmitGate, EmitAsked, EmitRetryInPlace, EmitRun, Emit, attemptVars,
     WriteRun, TerminalRun
<1>5. CASE TaskMoves
  BY <1>2, <1>5 DEF LostAnswer, engineVars, attemptVars, TaskMoves, MoveClaimed, MoveRunning,
     AskTask, GrantTask, DenyTask, FailTask, MoveVerifying, RetryTask, RerunTask, FinishTask,
     MoveTask, TransitionTask, AttemptPcs
<1>6. CASE TaskEvents
  BY <1>2, <1>6 DEF LostAnswer, engineVars, TaskEvents, EmitClaimed, EmitReclaimed,
     EmitRunning, EmitGranted, EmitTaskFailed, EmitVerifying, EmitTaskCompleted, EmitTask,
     Emit, AfterVerify, TaskEvent, attemptVars, AttemptPcs, UnclaimedPcs
<1>7. CASE ClaimSteps
  <2> USE DEF AttemptPcs, UnclaimedPcs
  <2>1. CASE Claim
    <3>1. cur \in Attempt /\ ts = "queued" /\ (claim[cur] = "none" \/ Disturbed(cur))
      BY <1>2, <2>1 DEF Claim, Emit, ClaimTask, CurrentIsFresh, PreclaimPcs, Active
    <3>2. att'[cur] = "claimed" \/ (Disturbed(cur) /\ claim' = claim)
      BY <1>2, <2>1, <3>1 DEF Claim, Emit, ClaimTask
    <3> QED
      BY <2>1, <3>1, <3>2 DEF Claim, Emit, LostAnswer, engineVars, attemptVars, LegalTask,
         TaskNext
  <2>2. CASE FirstHeartbeat
    BY <2>2 DEF LostAnswer, engineVars, FirstHeartbeat, Heartbeat, attemptVars
  <2>3. CASE SimulateReclaim
    <3>1. cur \in Attempt /\ ts = "claimed"
          /\ (att[cur] \in {"claimed", "reclaimed"} \/ Disturbed(cur))
      BY <1>2, <2>3 DEF SimulateReclaim
    <3>2. Reclaimable({cur}) \subseteq {cur} /\ (Disturbed(cur) => Reclaimable({cur}) = {})
      BY <1>1, <2>3 DEF SimulateReclaim, NoOrphanClaim, Reclaimable, Active
    <3>3. \/ Reclaimable({cur}) = {} /\ att'[cur] = att[cur] /\ claim'[cur] = claim[cur]
          \/ att[cur] \in {"claimed", "reclaimed"} /\ Reclaimable({cur}) # {}
             /\ att'[cur] = "reclaimed"
      BY <1>2, <2>3, <3>1, <3>2 DEF SimulateReclaim, ReclaimStale
    <3> QED BY <2>3, <3>1, <3>3 DEF SimulateReclaim, LostAnswer, engineVars, attemptVars
  <2>4. CASE EmitTodo \/ ReleaseFailed \/ ReleaseCompleted
    BY <2>4 DEF LostAnswer, engineVars, attemptVars, EmitTodo, Emit, ReleaseFailed,
       ReleaseCompleted, GiveUp, Release
  <2> QED BY <1>7, <2>1, <2>2, <2>3, <2>4 DEF ClaimSteps
<1>8. CASE LocalSteps
  BY <1>8 DEF LocalSteps, Plan, TakeBatch, NextTask, NothingReady, AttemptResult,
     NextAttempt, GateAnswered, GateTimeout, ExecutorAsks, ExecutorSucceeds,
     ExecutorFails, ExecutorReturns, AskAnswered, AskTimeout, Local,
     attemptVars, storeVars
<1>9. CASE Environment \/ UNCHANGED vars
  <2>1. CASE pc' \in DOMAIN TaskAt \cup HoldingPcs \cup {"reclaimEv"}
    <3>1. pc' = pc /\ cur' = cur /\ ts' = ts
      BY <1>9, <2>1, EnvironmentSpares
    <3>2. cur \in Attempt
      BY <1>1, <2>1, <3>1 DEF CurrentAttempt, AttemptPcs, UnclaimedPcs
    <3>3. \/ att'[cur] = att[cur] /\ claim'[cur] = claim[cur]
          \/ claim[cur] = "active" /\ "recovery" \in Faults /\ claim'[cur] = "reclaimed"
      BY <1>9, <2>1, <3>2, EnvironmentSpares
    <3> QED BY <3>1, <3>3
  <2> QED BY <2>1
<1> QED BY <1>3, <1>4, <1>5, <1>6, <1>7, <1>8, <1>9, EngineSplit DEF Next

(* An attempt in flight beyond its queueing is the current one between its  *)
(* claim and its end, or one whose gate or workflow stopped it as it was.   *)
LEMMA WorkingStep ==
  ASSUME Undisturbed, IInv, IInv', LiveAtItsPlace, LiveAtItsPlace', ScansForRecovery,
         CurrentIsFresh', CurrentIsHeld', RowTracksTask', WorkingHoldsLease, [Next]_vars
  PROVE  WorkingHoldsLease'
<1> SUFFICES ASSUME NEW a \in Attempt, att'[a] \in Inflight \ {"queued"}
             PROVE  claim'[a] = "active"
  BY DEF WorkingHoldsLease
<1>1. TypeOK /\ TypeOK' /\ CurrentAttempt /\ scan = {}
  BY AnswersArrive DEF NoRecovery, IInv, ScansForRecovery
<1>2. a = cur' /\ pc' \notin IdlePcs
  BY DEF LiveAtItsPlace, MayLive
<1>3. CASE att' = att /\ claim' = claim
  BY <1>3 DEF WorkingHoldsLease
<1>4. CASE pc' \in PreclaimPcs
  BY <1>2, <1>4, AnswersArrive DEF CurrentIsFresh, Inflight, Disturbed, NoRecovery
<1>5. CASE pc' \in HoldingPcs \cup {"reclaimEv"}
  BY <1>2, <1>5, AnswersArrive DEF CurrentIsHeld, HeldPcs, RowTracksTask, TaskAt, TaskTarget,
     HoldingPcs, Inflight, IdlePcs, Disturbed, NoRecovery
<1> DEFINE Over == {"result", "again", "failRun", "failedEv"} \cup Closed
<1>6. CASE pc' \in Over
  <2>1. ASSUME NEW status, WriteRun(status) PROVE claim'[a] = "active"
    BY <1>1, <1>3, <2>1, FinalizeCleans DEF WriteRun, TypeOK
  <2>2. CASE RunMoves
    BY <2>1, <2>2 DEF RunMoves, Enqueue, Start, Complete, FailRun, RetryRun,
     ResumeRun, OpenGate, PassGate, AskRun, GrantRun, DenyRun, RetryInPlace, RerunRun, MoveRun
  <2>3. CASE RunEvents
    BY <2>1, <2>3 DEF RunEvents, EmitStarted, EmitCompleted, EmitFailed, EmitRetrying, EmitGate,
     EmitAsked, EmitRetryInPlace, EmitRun, Emit
  <2> USE DEF Closed
  <2>4. CASE TaskMoves
    BY <1>6, <2>4, AnswersArrive DEF TaskMoves, MoveClaimed, MoveRunning, AskTask, GrantTask,
       DenyTask, FailTask, MoveVerifying, RetryTask, RerunTask, FinishTask, MoveTask
  <2>5. CASE TaskEvents
    <3>1. EmitReclaimed
      BY <1>6, <2>5, AnswersArrive DEF TaskEvents, EmitClaimed, EmitReclaimed, EmitRunning,
         EmitGranted, EmitTaskFailed, EmitVerifying, EmitTaskCompleted, EmitTask, Emit,
         AfterVerify
    <3>2. cur \in Attempt /\ a = cur /\ TaskEvent(cur, "reclaimed")
      BY <1>1, <1>2, <3>1, AnswersArrive DEF EmitReclaimed, CurrentAttempt, AttemptPcs,
         UnclaimedPcs, attemptVars
    <3> QED BY <1>1, <3>2 DEF TaskEvent, TypeOK, StoreTypeOK, Inflight
  <2>6. CASE ClaimSteps
    <3>1. ReleaseFailed \/ ReleaseCompleted
      BY <1>6, <2>6, AnswersArrive DEF ClaimSteps, EmitTodo, Claim, FirstHeartbeat,
         SimulateReclaim, Emit
    <3>2. att' = att /\ pc \in IdlePcs
      BY <3>1 DEF ReleaseFailed, ReleaseCompleted, GiveUp, Release, IdlePcs
    <3> QED BY <3>2 DEF LiveAtItsPlace, MayLive
  <2>7. CASE LocalSteps
    BY <1>3, <2>7 DEF LocalSteps, Plan, TakeBatch, NextTask, NothingReady, AttemptResult,
     NextAttempt, GateAnswered, GateTimeout, ExecutorAsks, ExecutorSucceeds,
     ExecutorFails, ExecutorReturns, AskAnswered, AskTimeout, Local, storeVars
  <2>8. CASE Environment \/ UNCHANGED vars
    BY <1>1, <1>3, <2>8, AnswersArrive DEF NoRecovery, Environment, HeartbeatLoop, Heartbeat,
       Signal, LeaseLapse, Lapse, RecoveryScan, RecoverClaim, ReconcileTerminal, Crash, vars,
       engineVars, attemptVars, storeVars
  <2> QED BY <2>2, <2>3, <2>4, <2>5, <2>6, <2>7, <2>8, EngineSplit DEF Next
<1> QED
  BY <1>1, <1>2, <1>4, <1>5, <1>6 DEF TypeOK, PC, BetweenPcs, UnclaimedPcs, PreclaimPcs, IdlePcs

(* So what the workflow asks of the table is asked of the row: each write   *)
(* of it is a step of _TASK_TRANSITIONS, or closes it with its run, or      *)
(* comes with or after the loss of its claim to the recovery job.           *)
LEMMA RowStep ==
  ASSUME IInv, ScansForRecovery, CurrentIsFresh, RowTracksTask,
         [Next]_vars, NEW a \in Attempt
  PROVE  att[a] = "none" \/ LegalTask(att[a], att'[a]) \/ run' \in TerminalRun \/ Disturbed(a)'
<1>1. TypeOK /\ CurrentAttempt /\ NoOrphanClaim
  BY DEF IInv
<1>2. /\ claim \in [Attempt -> ClaimStatus \cup {"none"}]
      /\ att \in [Attempt -> TaskStatus \cup {"none"}]
      /\ pc \in AttemptPcs => cur \in Attempt
  BY <1>1 DEF TypeOK, StoreTypeOK, CurrentAttempt
<1> USE DEF Disturbed
<1>3. CASE att'[a] = att[a]
  BY <1>3 DEF LegalTask
<1>4. CASE RunMoves
  BY <1>3, <1>4 DEF RunMoves, Enqueue, Start, Complete, FailRun, RetryRun,
     ResumeRun, OpenGate, PassGate, AskRun, GrantRun, DenyRun, RetryInPlace, RerunRun,
     MoveRun, WriteRun
<1>5. CASE RunEvents
  BY <1>3, <1>5 DEF RunEvents, EmitStarted, EmitCompleted, EmitFailed, EmitRetrying, EmitGate,
     EmitAsked, EmitRetryInPlace, EmitRun, Emit, WriteRun
<1>6. CASE TaskMoves
  BY <1>2, <1>3, <1>6 DEF TaskMoves, MoveClaimed, MoveRunning, AskTask, GrantTask, DenyTask,
     FailTask, MoveVerifying, RetryTask, RerunTask, FinishTask, MoveTask, TransitionTask,
     AttemptPcs, RowTracksTask, TaskAt, TaskTarget, HoldingPcs, LegalTask, TaskNext
<1>7. CASE TaskEvents
  BY <1>2, <1>3, <1>7 DEF TaskEvents, EmitClaimed, EmitReclaimed, EmitRunning, EmitGranted,
     EmitTaskFailed, EmitVerifying, EmitTaskCompleted, EmitTask, Emit, TaskEvent, AttemptPcs,
     UnclaimedPcs, RowTracksTask, TaskAt, TaskTarget, HoldingPcs
<1>8. CASE ClaimSteps
  <2> USE DEF AttemptPcs, UnclaimedPcs, HoldingPcs
  <2>1. CASE Claim
    <3>1. cur \in Attempt /\ (att[cur] \in {"none", "queued"} \/ Disturbed(cur))
      BY <1>2, <2>1 DEF Claim, Emit, ClaimTask, CurrentIsFresh, PreclaimPcs, Active
    <3> QED BY <1>2, <1>3, <2>1, <3>1 DEF Claim, Emit, ClaimTask, LegalTask, TaskNext
  <2>2. CASE SimulateReclaim
    <3>1. cur \in Attempt /\ (att[cur] \in {"claimed", "reclaimed"} \/ Disturbed(cur))
      BY <1>2, <2>2 DEF SimulateReclaim, RowTracksTask, TaskAt, TaskTarget
    <3>2. att'[a] = att[a] \/ (a = cur /\ claim[cur] = "active" /\ att'[a] = "reclaimed")
      BY <1>1, <2>2 DEF SimulateReclaim, ReclaimStale, Reclaimable, Active, NoOrphanClaim
    <3> QED BY <1>3, <3>1, <3>2 DEF LegalTask, TaskNext
  <2>3. CASE EmitTodo \/ FirstHeartbeat \/ ReleaseFailed \/ ReleaseCompleted
    BY <1>2, <1>3, <2>3 DEF EmitTodo, Emit, TouchAttempt, FirstHeartbeat, Heartbeat,
       ReleaseFailed, ReleaseCompleted, GiveUp, Release
  <2> QED BY <1>8, <2>1, <2>2, <2>3 DEF ClaimSteps
<1>9. CASE LocalSteps
  BY <1>3, <1>9 DEF LocalSteps, Plan, TakeBatch, NextTask, NothingReady, AttemptResult,
     NextAttempt, GateAnswered, GateTimeout, ExecutorAsks, ExecutorSucceeds,
     ExecutorFails, ExecutorReturns, AskAnswered, AskTimeout, Local, storeVars
<1>10. CASE Environment \/ UNCHANGED vars
  BY <1>3, <1>10, EnvironmentSpares
<1> QED BY <1>4, <1>5, <1>6, <1>7, <1>8, <1>9, <1>10, EngineSplit DEF Next

(* The rows are tracked from the empty tables on.                           *)
LEMMA RowInvariance == Spec => []RowInv
<1>1. Init => RowInv
  BY DEF Init, StoreInit, RowInv, BegunIsReached, CurrentIsFresh, RowTracksTask, PreclaimPcs,
         HoldingPcs, TaskAt
<1>2. IInv /\ PlanInv /\ RowInv /\ [Next]_vars => RowInv'
  <2> SUFFICES ASSUME IInv, PlanInv, RowInv, [Next]_vars PROVE RowInv'
    OBVIOUS
  <2>1. TypeOK /\ CurrentAttempt /\ CurrentIsReady /\ BatchIsReady /\ ScansForRecovery
        /\ GraphIsSound
    BY DEF IInv, PlanInv
  <2>2. BegunIsReached /\ CurrentIsFresh /\ RowTracksTask
    BY DEF RowInv
  <2>3. finished \subseteq finished'
    BY <2>1, SorterStep
  <2>4. BegunIsReached'
    BY <2>1, <2>2, <2>3, BegunStep
  <2>5. CurrentIsFresh'
    BY <2>1, <2>2, FreshStep
  <2>6. RowTracksTask'
    BY <2>1, <2>2, TracksStep
  <2> QED BY <2>4, <2>5, <2>6 DEF RowInv
<1> QED BY <1>1, <1>2, Invariance, PlanInvariance, PTL DEF Spec

(* And the claims, from there.                                              *)
LEMMA LeaseInvariance == ASSUME Undisturbed PROVE Spec => []LeaseInv
<1>1. Init => LeaseInv
  BY DEF Init, StoreInit, LeaseInv, LiveAtItsPlace, CurrentIsHeld, WorkingHoldsLease, GatePcs,
         Inflight, HeldPcs, HoldingPcs
<1>2. IInv /\ IInv' /\ PlanInv /\ RowInv /\ RowInv' /\ LeaseInv /\ [Next]_vars => LeaseInv'
  <2> SUFFICES ASSUME IInv, IInv', PlanInv, RowInv, RowInv', LeaseInv, [Next]_vars
               PROVE  LeaseInv'
    OBVIOUS
  <2>1. ScansForRecovery /\ CurrentIsFresh /\ CurrentIsFresh' /\ RowTracksTask'
        /\ LiveAtItsPlace /\ CurrentIsHeld /\ WorkingHoldsLease
    BY DEF PlanInv, RowInv, LeaseInv
  <2>2. LiveAtItsPlace'
    BY <2>1, LiveStep
  <2>3. CurrentIsHeld'
    BY <2>1, HeldStep
  <2>4. WorkingHoldsLease'
    BY <2>1, <2>2, <2>3, WorkingStep
  <2> QED BY <2>2, <2>3, <2>4 DEF LeaseInv
<1>3. NoRecovery
  BY DEF Undisturbed
<1>4. Spec => []RowInv
  BY RowInvariance
<1> QED BY <1>1, <1>2, <1>4, Invariance, PlanInvariance, PTL DEF Spec

(* An attempt that reads as claimed, running, verifying, waiting or         *)
(* retrying holds its claim (WorkflowRun!WorkingHoldsLease), through        *)
(* retries, approvals, lapsed leases and dead workflows.  The assumption is *)
(* needed: after a lost answer the simulated reclaim runs the attempt on    *)
(* without its claim, and the recovery job takes the claim of a live one.   *)
THEOREM RunWorksUnderLease == ASSUME Undisturbed PROVE Spec => []WorkingHoldsLease
<1>1. LeaseInv => WorkingHoldsLease
  BY DEF LeaseInv
<1> QED BY <1>1, LeaseInvariance, PTL

(* The attempt row takes the steps of _TASK_TRANSITIONS only                *)
(* (WorkflowRun!AttemptFollowsTable), lost answers or not, although         *)
(* transition_task_status and append_event write it unread and only the     *)
(* workflow asks the table.  A recovery job that reclaims a running attempt *)
(* is an exception.                                                         *)
THEOREM AttemptRowFollowsTable == ASSUME NoRecovery PROVE Spec => AttemptFollowsTable
<1>1. IInv /\ PlanInv /\ RowInv /\ [Next]_vars
        => [\A a \in Attempt :
              \/ att[a] = "none"
              \/ LegalTask(att[a], att'[a])
              \/ run' \in TerminalRun]_vars
  BY RowStep DEF PlanInv, RowInv, NoRecovery, Disturbed
<1> QED BY <1>1, Invariance, PlanInvariance, RowInvariance, PTL DEF Spec, AttemptFollowsTable

(* With the recovery job, under every fault, the row of an attempt leaves   *)
(* _TASK_TRANSITIONS only once the job took its claim: before that, and for *)
(* every other attempt, the table is followed.  reclaim_stale_claims asks   *)
(* nothing of the row it writes, and the workflow goes on asking the table  *)
(* of a status that the row has no longer.                                  *)
TableLeftOnceReclaimed ==
  [][\A a \in Attempt :
       \/ att[a] = "none"
       \/ LegalTask(att[a], att'[a])
       \/ run' \in TerminalRun
       \/ "recovery" \in Faults /\ claim'[a] = "reclaimed"]_vars
THEOREM OnlyReclaimedRowsLeaveTheTable == Spec => TableLeftOnceReclaimed
<1>1. IInv /\ PlanInv /\ RowInv /\ [Next]_vars
        => [\A a \in Attempt :
              \/ att[a] = "none"
              \/ LegalTask(att[a], att'[a])
              \/ run' \in TerminalRun
              \/ "recovery" \in Faults /\ claim'[a] = "reclaimed"]_vars
  BY RowStep DEF PlanInv, RowInv, Disturbed
<1> QED BY <1>1, Invariance, PlanInvariance, RowInvariance, PTL DEF Spec, TableLeftOnceReclaimed

(* What holds of the lease under every fault: a place where the workflow    *)
(* works on an attempt comes after its claim and before its release.        *)
KeptPcs == HeldPcs \ {"release"}
CurrentKeepsClaim == pc \in KeptPcs => claim[cur] \in {"active", "reclaimed"}

(* Losing a claim to the recovery job, or to a reclaim whose answer is      *)
(* lost, leaves it reclaimed; it is not handed back before the end.         *)
LEMMA KeptStep ==
  ASSUME IInv, ScansForRecovery, CurrentIsFresh, CurrentKeepsClaim, [Next]_vars
  PROVE  CurrentKeepsClaim'
<1>1. TypeOK /\ CurrentAttempt
  BY DEF IInv
<1>2. claim \in [Attempt -> ClaimStatus \cup {"none"}] /\ (pc \in AttemptPcs => cur \in Attempt)
  BY <1>1 DEF TypeOK, StoreTypeOK, CurrentAttempt
<1> USE DEF CurrentKeepsClaim, KeptPcs, HeldPcs, HoldingPcs
<1>3. CASE RunMoves
  <2>1. CASE DenyRun
    BY <1>2, <2>1 DEF LostAnswer, engineVars, DenyRun, MoveRun, WriteRun, Finalize, attemptVars,
       AttemptPcs
  <2> QED
    BY <1>3, <2>1 DEF LostAnswer, engineVars, RunMoves, Enqueue, Start, Complete, FailRun,
       RetryRun, ResumeRun, OpenGate, PassGate, AskRun, GrantRun, DenyRun, RetryInPlace,
       RerunRun, AfterVerify, MoveRun, attemptVars, WriteRun, TerminalRun
<1>4. CASE RunEvents
  BY <1>4 DEF LostAnswer, engineVars, RunEvents, EmitStarted, EmitCompleted, EmitFailed,
     EmitRetrying, EmitGate, EmitAsked, EmitRetryInPlace, EmitRun, Emit, attemptVars,
     WriteRun, TerminalRun
<1>5. CASE TaskMoves
  BY <1>5 DEF LostAnswer, engineVars, TaskMoves, MoveClaimed, MoveRunning, AskTask, GrantTask,
     DenyTask, FailTask, MoveVerifying, RetryTask, RerunTask, FinishTask, MoveTask,
     TransitionTask, attemptVars
<1>6. CASE TaskEvents
  BY <1>6 DEF LostAnswer, engineVars, TaskEvents, EmitClaimed, EmitReclaimed, EmitRunning,
     EmitGranted, EmitTaskFailed, EmitVerifying, EmitTaskCompleted, EmitTask, Emit,
     AfterVerify, TaskEvent, attemptVars
<1>7. CASE ClaimSteps
  <2> USE DEF AttemptPcs, UnclaimedPcs
  <2>1. CASE Claim
    BY <1>2, <2>1 DEF Claim, Emit, ClaimTask, CurrentIsFresh, PreclaimPcs, attemptVars,
       LostAnswer, engineVars, Disturbed
  <2>2. CASE FirstHeartbeat
    BY <2>2 DEF LostAnswer, engineVars, FirstHeartbeat, Heartbeat, attemptVars
  <2>3. CASE SimulateReclaim
    BY <1>2, <2>3 DEF SimulateReclaim, ReclaimStale, LostAnswer, engineVars, attemptVars
  <2>4. CASE EmitTodo \/ ReleaseFailed \/ ReleaseCompleted
    BY <2>4 DEF EmitTodo, Emit, ReleaseFailed, ReleaseCompleted, GiveUp, LostAnswer, engineVars
  <2> QED BY <1>7, <2>1, <2>2, <2>3, <2>4 DEF ClaimSteps
<1>8. CASE LocalSteps
  BY <1>8 DEF LocalSteps, Plan, TakeBatch, NextTask, NothingReady, AttemptResult,
     NextAttempt, GateAnswered, GateTimeout, ExecutorAsks, ExecutorSucceeds,
     ExecutorFails, ExecutorReturns, AskAnswered, AskTimeout, Local,
     attemptVars, storeVars
<1>9. CASE Environment \/ UNCHANGED vars
  <2>1. CASE pc' \in KeptPcs
    <3>1. pc' = pc /\ cur' = cur
      BY <1>9, <2>1, EnvironmentSpares
    <3>2. cur \in Attempt
      BY <1>1, <2>1, <3>1 DEF CurrentAttempt, AttemptPcs
    <3> QED BY <1>9, <2>1, <3>1, <3>2, EnvironmentSpares
  <2> QED BY <2>1
<1> QED BY <1>3, <1>4, <1>5, <1>6, <1>7, <1>8, <1>9, EngineSplit DEF Next

(* So an attempt that works has a claim that it did not hand back.          *)
WorkingWasClaimed ==
  \A a \in Attempt :
    att[a] \in Inflight \ {"queued"} => claim[a] \in {"active", "reclaimed"}

(* What puts an attempt to work comes under its claim; what follows its end *)
(* does not put it to work again.                                           *)
LEMMA ClaimedStep ==
  ASSUME IInv, IInv', LiveAtItsPlace, LiveAtItsPlace', ScansForRecovery, CurrentIsFresh',
         CurrentKeepsClaim', RowTracksTask', WorkingWasClaimed, [Next]_vars
  PROVE  WorkingWasClaimed'
<1> SUFFICES ASSUME NEW a \in Attempt, att'[a] \in Inflight \ {"queued"}
             PROVE  claim'[a] \in {"active", "reclaimed"}
  BY DEF WorkingWasClaimed
<1>1. TypeOK /\ TypeOK' /\ CurrentAttempt
  BY DEF IInv
<1>2. a = cur' /\ pc' \notin IdlePcs
  BY DEF LiveAtItsPlace, MayLive
<1>3. CASE att' = att /\ claim' = claim
  BY <1>3 DEF WorkingWasClaimed
<1>4. CASE pc' \in PreclaimPcs
  BY <1>2, <1>4 DEF CurrentIsFresh, Inflight, Disturbed
<1>5. CASE pc' \in HoldingPcs \cup {"reclaimEv"}
  BY <1>2, <1>5 DEF CurrentKeepsClaim, KeptPcs, HeldPcs, RowTracksTask, TaskAt, TaskTarget,
     HoldingPcs, Inflight, IdlePcs, Disturbed
<1> DEFINE Over == {"result", "again", "failRun", "failedEv"} \cup Closed
<1>6. CASE pc' \in Over
  <2>1. ASSUME NEW status, WriteRun(status) PROVE claim'[a] \in {"active", "reclaimed"}
    BY <1>1, <1>3, <2>1, FinalizeCleans DEF WriteRun, TypeOK
  <2>2. CASE RunMoves
    BY <2>1, <2>2 DEF RunMoves, Enqueue, Start, Complete, FailRun, RetryRun, ResumeRun,
       OpenGate, PassGate, AskRun, GrantRun, DenyRun, RetryInPlace, RerunRun, MoveRun
  <2>3. CASE RunEvents
    BY <2>1, <2>3 DEF RunEvents, EmitStarted, EmitCompleted, EmitFailed, EmitRetrying, EmitGate,
       EmitAsked, EmitRetryInPlace, EmitRun, Emit
  <2> USE DEF Closed
  <2>4. CASE TaskMoves
    BY <1>6, <2>4 DEF TaskMoves, MoveClaimed, MoveRunning, AskTask, GrantTask, DenyTask,
       FailTask, MoveVerifying, RetryTask, RerunTask, FinishTask, MoveTask, LostAnswer,
       engineVars
  <2>5. CASE TaskEvents
    <3>1. EmitReclaimed
      BY <1>6, <2>5 DEF TaskEvents, EmitClaimed, EmitReclaimed, EmitRunning, EmitGranted,
         EmitTaskFailed, EmitVerifying, EmitTaskCompleted, EmitTask, Emit, AfterVerify,
         LostAnswer, engineVars
    <3>2. pc = "reclaimEv" /\ cur \in Attempt /\ a = cur /\ TaskEvent(cur, "reclaimed")
      BY <1>1, <1>2, <3>1 DEF EmitReclaimed, CurrentAttempt, AttemptPcs, UnclaimedPcs,
         attemptVars, LostAnswer, engineVars
    <3> QED BY <1>1, <3>2 DEF TaskEvent, TypeOK, StoreTypeOK, Inflight
  <2>6. CASE ClaimSteps
    <3>1. ReleaseFailed \/ ReleaseCompleted
      BY <1>6, <2>6 DEF ClaimSteps, EmitTodo, Claim, FirstHeartbeat, SimulateReclaim, Emit,
         LostAnswer, engineVars
    <3>2. att' = att /\ pc \in IdlePcs
      BY <3>1 DEF ReleaseFailed, ReleaseCompleted, GiveUp, Release, IdlePcs
    <3> QED BY <3>2 DEF LiveAtItsPlace, MayLive
  <2>7. CASE LocalSteps
    BY <1>3, <2>7 DEF LocalSteps, Plan, TakeBatch, NextTask, NothingReady, AttemptResult,
       NextAttempt, GateAnswered, GateTimeout, ExecutorAsks, ExecutorSucceeds,
       ExecutorFails, ExecutorReturns, AskAnswered, AskTimeout, Local, storeVars
  <2>8. CASE Environment \/ UNCHANGED vars
    <3>1. \/ att'[a] = att[a] /\ claim'[a] = claim[a]
          \/ claim'[a] = "reclaimed"
      BY <2>8, EnvironmentSpares
    <3> QED BY <3>1 DEF WorkingWasClaimed
  <2> QED BY <2>2, <2>3, <2>4, <2>5, <2>6, <2>7, <2>8, EngineSplit DEF Next
<1> QED
  BY <1>1, <1>2, <1>4, <1>5, <1>6 DEF TypeOK, PC, BetweenPcs, UnclaimedPcs, PreclaimPcs, IdlePcs

(* Under every fault, an attempt that reads as claimed, running, verifying, *)
(* waiting or retrying was given its claim by claim_task, and the claim is  *)
(* active still or was reclaimed: the workflow releases a claim only after  *)
(* the last write that puts its attempt to work.                            *)
THEOREM WorkingAttemptsWereClaimed == Spec => []WorkingWasClaimed
<1>1. Init => LiveAtItsPlace /\ CurrentKeepsClaim /\ WorkingWasClaimed
  BY DEF Init, StoreInit, LiveAtItsPlace, CurrentKeepsClaim, WorkingWasClaimed, GatePcs, Inflight,
         KeptPcs, HeldPcs, HoldingPcs
<1>2. /\ IInv /\ IInv' /\ PlanInv /\ RowInv /\ RowInv'
      /\ LiveAtItsPlace /\ CurrentKeepsClaim /\ WorkingWasClaimed /\ [Next]_vars
      => LiveAtItsPlace' /\ CurrentKeepsClaim' /\ WorkingWasClaimed'
  <2> SUFFICES ASSUME IInv, IInv', PlanInv, RowInv, RowInv', LiveAtItsPlace, CurrentKeepsClaim,
                      WorkingWasClaimed, [Next]_vars
               PROVE  LiveAtItsPlace' /\ CurrentKeepsClaim' /\ WorkingWasClaimed'
    OBVIOUS
  <2>1. ScansForRecovery /\ CurrentIsFresh /\ CurrentIsFresh' /\ RowTracksTask'
    BY DEF PlanInv, RowInv
  <2>2. LiveAtItsPlace'
    BY LiveStep
  <2>3. CurrentKeepsClaim'
    BY <2>1, KeptStep
  <2>4. WorkingWasClaimed'
    BY <2>1, <2>2, <2>3, ClaimedStep
  <2> QED BY <2>2, <2>3, <2>4
<1> QED BY <1>1, <1>2, Invariance, PlanInvariance, RowInvariance, PTL DEF Spec
=============================================================================
