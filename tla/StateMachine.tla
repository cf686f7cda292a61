---------------------------- MODULE StateMachine ----------------------------
(***************************************************************************)
(* The status alphabets of the runtime and its transition tables            *)
(* (workflows/state_machine.py, runtime_contracts.py).  Only the engine     *)
(* consults the tables, with the status it remembers; the persistence       *)
(* layer writes whatever target it is handed.                               *)
(***************************************************************************)

RunStatus == {"created", "queued", "running", "waiting_approval", "paused",
              "retrying", "completed", "failed", "cancelled"}

TaskStatus == {"queued", "claimed", "running", "verifying", "waiting_approval",
               "retrying", "completed", "failed", "reclaimed", "cancelled"}

ClaimStatus == {"active", "released", "expired", "reclaimed"}

-----------------------------------------------------------------------------

(* Mutant of RunNext: a run that waits for an approval may be closed as      *)
(* retried, and a closed run reopened.                                      *)
RunNextReopens ==
  [created          |-> {"queued", "running"},
   queued           |-> {"running", "cancelled"},
   running          |-> RunStatus,
   waiting_approval |-> RunStatus,
   paused           |-> {"running", "cancelled"},
   retrying         |-> {"running", "failed"},
   completed        |-> {},
   failed           |-> {"retrying"},
   cancelled        |-> {}]

(* _WORKFLOW_TRANSITIONS: the statuses a run may move to.  A failed run is  *)
(* not final: an attempt that failed the run may still be retried.          *)
RunNext ==
  [created          |-> {"queued", "running"},
   queued           |-> {"running", "cancelled"},
   running          |-> {"waiting_approval", "paused", "retrying",
                         "completed", "failed", "cancelled"},
   waiting_approval |-> {"running", "failed", "cancelled"},
   paused           |-> {"running", "cancelled"},
   retrying         |-> {"running", "failed"},
   completed        |-> {},
   failed           |-> {"retrying"},
   cancelled        |-> {}]

(* _TASK_TRANSITIONS *)
TaskNext ==
  [queued           |-> {"claimed", "running", "cancelled"},
   claimed          |-> {"running", "reclaimed", "cancelled"},
   running          |-> {"verifying", "waiting_approval", "retrying",
                         "completed", "failed", "reclaimed", "cancelled"},
   verifying        |-> {"completed", "failed", "retrying"},
   waiting_approval |-> {"running", "failed", "cancelled"},
   retrying         |-> {"queued", "claimed", "running", "failed"},
   completed        |-> {},
   failed           |-> {"retrying"},
   reclaimed        |-> {"claimed", "running", "cancelled"},
   cancelled        |-> {}]

(* transition_workflow_run_status and transition_task_status raise          *)
(* InvalidTransitionError exactly when these are false; re-asserting the    *)
(* current status is always accepted.                                       *)
LegalRun(current, target) == current = target \/ target \in RunNext[current]
LegalTask(current, target) == current = target \/ target \in TaskNext[current]

(* The run statuses that close every record of the run.                     *)
TerminalRun == {"completed", "failed", "cancelled"}

(* _INFLIGHT_TASK_STATUSES: what a terminal run may not leave behind.       *)
Inflight == {"queued", "claimed", "running", "verifying", "waiting_approval",
             "retrying"}

(* _terminal_task_status_for_workflow: how an in-flight record is closed.   *)
ClosedAs(status) == IF status = "failed" THEN "failed" ELSE "cancelled"
=============================================================================
