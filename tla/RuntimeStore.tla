---------------------------- MODULE RuntimeStore ----------------------------
(***************************************************************************)
(* The runtime tables of one workflow run and the operations of             *)
(* RuntimePersistenceService on them (runtime_persistence/service.py): the  *)
(* run row, a row per task, a row per attempt and a claim per attempt.      *)
(* Every operation is one database transaction, so one action.              *)
(*                                                                          *)
(* None of them reads the status it overwrites: a late or a repeated call   *)
(* writes its target whatever the row says now.  StoreSpec lets any caller  *)
(* make any call at any time; the engine and the recovery job of            *)
(* WorkflowRun are two such callers.                                        *)
(***************************************************************************)
EXTENDS StateMachine, Integers

CONSTANTS
  Task,          \* the tasks of the run
  MaxAttempts    \* max(request.max_attempts, 1)

ASSUME MaxAttemptsAssumption == MaxAttempts \in Nat \ {0}

VARIABLES
  run,      \* status of the run row
  task,     \* status of each task row (start_runtime_workflow creates them)
  att,      \* status of each attempt row, "none" before the row exists
  claim,    \* status of claim-<attempt>, "none" before the row exists
  stale     \* active claims whose heartbeat is older than their lease

storeVars == <<run, task, att, claim, stale>>

(* Attempt ids are a digest of run, task and attempt number.                *)
Attempt == Task \X (1 .. MaxAttempts)

Active == {a \in Attempt : claim[a] = "active"}

StoreTypeOK ==
  /\ run \in RunStatus
  /\ task \in [Task -> TaskStatus]
  /\ att \in [Attempt -> TaskStatus \cup {"none"}]
  /\ claim \in [Attempt -> ClaimStatus \cup {"none"}]
  /\ stale \subseteq Active

StoreInit ==
  /\ run = "created"
  /\ task = [t \in Task |-> "queued"]
  /\ att = [a \in Attempt |-> "none"]
  /\ claim = [a \in Attempt |-> "none"]
  /\ stale = {}

-----------------------------------------------------------------------------

(* _finalize_inflight_records_on_workflow_terminal: close what is still in  *)
(* flight, end every claim still active.                                    *)
Finalize(status) ==
  /\ task' = [t \in Task |->
                IF task[t] \in Inflight THEN ClosedAs(status) ELSE task[t]]
  /\ att' = [a \in Attempt |->
               IF att[a] \in Inflight THEN ClosedAs(status) ELSE att[a]]
  /\ claim' = [a \in Attempt |->
                 IF a \in Active THEN "reclaimed" ELSE claim[a]]
  /\ stale' = {}

(* Mutant of WriteRun: the run row is closed without its records.           *)
WriteRunOnly(status) == run' = status /\ UNCHANGED <<task, att, claim, stale>>

(* transition_workflow_status, and the side effect of a workflow event: set *)
(* the run row and, when the run closes, its records in the same            *)
(* transaction.                                                             *)
WriteRun(status) ==
  /\ run' = status
  /\ IF status \in TerminalRun
       THEN Finalize(status)
       ELSE UNCHANGED <<task, att, claim, stale>>

(* reconcile_terminal_runs: finalize again whatever a closed run still has. *)
Reconcile ==
  /\ run \in TerminalRun
  /\ Finalize(run)
  /\ UNCHANGED run

(* transition_task_status: the attempt row is written only if it exists.    *)
TransitionTask(a, status) ==
  /\ task' = [task EXCEPT ![a[1]] = status]
  /\ att' = [att EXCEPT ![a] = IF @ = "none" THEN "none" ELSE status]
  /\ UNCHANGED <<run, claim, stale>>

(* append_event for an event that carries a task status: the missing rows   *)
(* are created first, so both rows are written.                             *)
TaskEvent(a, status) ==
  /\ task' = [task EXCEPT ![a[1]] = status]
  /\ att' = [att EXCEPT ![a] = status]
  /\ UNCHANGED <<run, claim, stale>>

(* append_event for an event of an attempt that carries no status: it only  *)
(* makes sure the attempt row exists.                                       *)
TouchAttempt(a) ==
  /\ att' = [att EXCEPT ![a] = IF @ = "none" THEN "queued" ELSE @]
  /\ UNCHANGED <<run, task, claim, stale>>

-----------------------------------------------------------------------------

(* Mutant of ClaimTask: an ended claim row is made active again.            *)
ClaimTaskAgain(a) ==
  /\ \A b \in Active : b[1] # a[1]
  /\ claim' = [claim EXCEPT ![a] = "active"]
  /\ att' = [att EXCEPT ![a] = "claimed"]
  /\ task' = [task EXCEPT ![a[1]] = "claimed"]
  /\ UNCHANGED <<run, stale>>

(* claim_task raises while the task has an active claim.  A claim row that  *)
(* is already there is returned as it is, ended or not.                     *)
ClaimTask(a) ==
  /\ \A b \in Active : b[1] # a[1]
  /\ IF claim[a] # "none"
       THEN UNCHANGED <<task, att, claim>>
       ELSE /\ claim' = [claim EXCEPT ![a] = "active"]
            /\ att' = [att EXCEPT ![a] = "claimed"]
            /\ task' = [task EXCEPT ![a[1]] = "claimed"]
  /\ UNCHANGED <<run, stale>>

(* heartbeat renews an active claim; heartbeat_claim_activity swallows the  *)
(* error for any other.                                                     *)
Heartbeat(a) ==
  /\ claim[a] # "none"
  /\ stale' = stale \ {a}
  /\ UNCHANGED <<run, task, att, claim>>

(* release asks nothing of the claim's status.                              *)
Release(a) ==
  /\ claim[a] # "none"
  /\ claim' = [claim EXCEPT ![a] = "released"]
  /\ stale' = stale \ {a}
  /\ UNCHANGED <<run, task, att>>

(* What reclaim_stale_claims ends: the forced claims that are active, and   *)
(* every lapsed one of the run.                                             *)
Reclaimable(forced) == {a \in Active : a \in forced \/ a \in stale}

(* reclaim_stale_claims: the claim, its task row and its attempt row.       *)
ReclaimStale(forced) ==
  LET gone == Reclaimable(forced) IN
  /\ claim' = [a \in Attempt |-> IF a \in gone THEN "reclaimed" ELSE claim[a]]
  /\ att' = [a \in Attempt |->
               IF a \in gone /\ att[a] # "none" THEN "reclaimed" ELSE att[a]]
  /\ task' = [t \in Task |->
                IF \E a \in gone : a[1] = t THEN "reclaimed" ELSE task[t]]
  /\ stale' = stale \ gone
  /\ UNCHANGED run

(* Time: the lease of an active claim runs out.                             *)
Lapse(a) ==
  /\ a \in Active
  /\ stale' = stale \cup {a}
  /\ UNCHANGED <<run, task, att, claim>>

-----------------------------------------------------------------------------

StoreNext ==
  \/ \E status \in RunStatus : WriteRun(status)
  \/ Reconcile
  \/ \E a \in Attempt :
       \/ \E status \in TaskStatus : TransitionTask(a, status) \/ TaskEvent(a, status)
       \/ TouchAttempt(a) \/ ClaimTask(a) \/ Heartbeat(a) \/ Release(a) \/ Lapse(a)
  \/ \E forced \in SUBSET Attempt : ReclaimStale(forced)

StoreSpec == StoreInit /\ [][StoreNext]_storeVars

(* Two attempts never hold the same task: claim_task's check keeps it, for  *)
(* any callers.                                                             *)
OneHolderPerTask ==
  \A a, b \in Active : a[1] = b[1] => a = b

(* The lease of an attempt: its claim row, whichever way it ended.           *)
LeaseOf ==
  [a \in Attempt |-> CASE claim[a] = "none" -> "unused"
                       [] claim[a] = "active" -> "held"
                       [] OTHER -> "ended"]

(* The claim table implements the one-shot lease of Lease.                  *)
Leased == INSTANCE Lease
            WITH Resource <- Task, Ticket <- 1 .. MaxAttempts, lease <- LeaseOf

ClaimsAreLeases == Leased!LeaseSpec
=============================================================================
