---------------------------- MODULE ApprovalFlow ----------------------------
(***************************************************************************)
(* Who may write, and what is kept of it: the approvals of one run from the *)
(* gate that asks (executors/service.py) through the people who answer      *)
(* (review/router.py, approval_bridge.py) to the workflow that waits and    *)
(* dispatches again (definitions/base.py), and the result it stores.        *)
(*                                                                          *)
(* The run has one task with an executor.  WorkflowRun has the workflow in  *)
(* detail; here its place is wf, and the slot holds whole answers.  The     *)
(* work of a dispatch is done by a thread, which lives on when Temporal has *)
(* given the activity up.  The API dispatches too, under an id of its own.  *)
(***************************************************************************)
EXTENDS SecurityGate, FiniteSets

CONSTANTS
  Policies,      \* the policies a run may be started with
  ApiBundles,    \* the bundles the API is asked to dispatch
  Scopes,        \* the approved_write_paths reviewers send
  Reviewer,
  Faults,        \* what may go wrong: "timeout", "raise", "crash"
  None,          \* no answer, no job, no evidence
  MaxAttempts,   \* attempts of the task
  MaxApi,        \* bound: dispatches by the API
  MaxSignals,    \* bound: decisions and direct signals
  MaxDeliveries  \* bound: signals delivered

ASSUME FlowAssumption ==
  /\ Policies \subseteq Policy
  /\ ApiBundles \subseteq Bundle
  /\ Scopes \subseteq SUBSET Path /\ {} \in Scopes
  /\ Faults \subseteq {"timeout", "raise", "crash"}
  /\ MaxAttempts \in Nat \ {0}
  /\ {MaxApi, MaxSignals, MaxDeliveries} \subseteq Nat

VARIABLES
  policy,     \* of the run
  wf,         \* where the workflow is
  cur,        \* the number of its attempt
  reply,      \* approval_resolution of this attempt, once it was granted
  asked,      \* the approval it waits for
  slot,       \* the slot of the workflow: the answer delivered last
  job,        \* the dispatch threads
  rows,       \* the approvals, in the order they were requested
  decided,    \* every decision ever committed to a row
  pending,    \* the signal each reviewer has yet to send
  sent,       \* decisions and direct signals so far
  calls,      \* dispatches by the API so far
  delivered,  \* signals delivered so far
  took,       \* the deliveries the workflow acted on, in order
  ran,        \* what executors were called with
  artifacts,  \* the artifact rows: the attempt each came from
  summary,    \* the attempt summaries
  evidence    \* the artifacts each evidence row lists

vars == <<policy, wf, cur, reply, asked, slot, job, rows, decided, pending, sent, calls,
          delivered, took, ran, artifacts, summary, evidence>>
flowVars == <<policy, wf, cur, reply, asked, slot, took>>
reviewVars == <<rows, decided, pending, sent, calls, delivered>>
storeVars == <<ran, artifacts, summary, evidence>>

Dispatcher == {"activity", "api"}
ApiAttempt == 0      \* the attempt id of the API's dispatches
Attempt == ApiAttempt .. MaxAttempts

(* The other decisions a reviewer may send do what a rejection does.        *)
Decision == {"approved", "rejected"}
Answer == [approved : BOOLEAN, for : Nat, paths : Scopes]
Delivery == [answer : Answer, no : 1 .. MaxDeliveries]
Row == [attempt : Attempt, status : Decision \cup {"pending"}, paths : Scopes]
Step == {"gate", "record", "execute", "check", "artifacts", "summary", "evidence"}
Result == {"completed", "failed_retryable"}
Job == [step : Step, attempt : Attempt, bundle : Bundle, late : BOOLEAN,
        row : Nat, made : SUBSET Nat, status : Result]
Call == [by : Dispatcher, attempt : Attempt, bundle : Bundle, reply : Answer \cup {None}]
Summary == [status : Result \cup {"waiting_approval"}, row : Nat, artifacts : SUBSET Nat]
Ended == {"ended", "stuck"}

ASSUME NoneAssumption ==
  None \notin Answer \cup Delivery \cup Job \cup Summary

Init ==
  /\ policy \in Policies
  /\ wf = IF policy.gated THEN "gate" ELSE "dispatch"
  /\ cur = 1
  /\ reply = None /\ asked = 0 /\ slot = None
  /\ job = [d \in Dispatcher |-> None]
  /\ rows = << >> /\ decided = {}
  /\ pending = [r \in Reviewer |-> None]
  /\ sent = 0 /\ calls = 0 /\ delivered = 0
  /\ took = << >> /\ ran = {}
  /\ artifacts = << >>
  /\ summary = [a \in Attempt |-> None]
  /\ evidence = [a \in Attempt |-> None]

-----------------------------------------------------------------------------
(* The workflow                                                             *)

(* Mutant of Take: approval_reset is forgotten.                             *)
TakeAndKeep == took' = Append(took, slot.no) /\ UNCHANGED slot

(* wait_for_approval returns what the slot holds and empties it.            *)
Take == took' = Append(took, slot.no) /\ slot' = None

(* Mutant of AttemptFails: one attempt too many.                            *)
AttemptFailsOnceMore ==
  IF cur <= MaxAttempts
    THEN /\ cur' = cur + 1
         /\ wf' = IF policy.gated THEN "gate" ELSE "dispatch"
         /\ reply' = None
    ELSE wf' = "ended" /\ UNCHANGED <<cur, reply>>

(* The attempt failed.                                                      *)
AttemptFails ==
  IF cur < MaxAttempts
    THEN /\ cur' = cur + 1
         /\ wf' = IF policy.gated THEN "gate" ELSE "dispatch"
         /\ reply' = None
    ELSE wf' = "ended" /\ UNCHANGED <<cur, reply>>

(* The task's own gate waits without an id: any answer will do.  One that   *)
(* is not opened leaves a run with attempts left where it is.               *)
GateShut == wf' = IF cur < MaxAttempts THEN "stuck" ELSE "ended"

TaskGate ==
  /\ wf = "gate" /\ slot # None
  /\ Take
  /\ IF slot.answer.approved THEN wf' = "dispatch" ELSE GateShut
  /\ UNCHANGED <<policy, cur, reply, asked, job, reviewVars, storeVars>>

TaskGateTimeout ==
  /\ wf = "gate" /\ slot = None
  /\ GateShut
  /\ UNCHANGED <<policy, cur, reply, asked, slot, took, job, reviewVars, storeVars>>

Granted == reply # None

StartJob(d, attempt, bundle) ==
  job' = [job EXCEPT ![d] = [step |-> "gate", attempt |-> attempt, bundle |-> bundle,
                             late |-> FALSE, row |-> 0, made |-> {},
                             status |-> "completed"]]

NextBundle == BuildBundle(policy, Granted, IF Granted THEN reply.paths ELSE {})

Dispatch ==
  /\ wf = "dispatch" /\ Accepted(NextBundle)
  /\ wf' = "busy"
  /\ StartJob("activity", cur, NextBundle)
  /\ UNCHANGED <<policy, cur, reply, asked, slot, took, reviewVars, storeVars>>

(* The activity cannot read its bundle: it fails, and the workflow with it. *)
DispatchInvalid ==
  /\ wf = "dispatch" /\ ~Accepted(NextBundle)
  /\ wf' = "ended"
  /\ UNCHANGED <<policy, cur, reply, asked, slot, took, job, reviewVars, storeVars>>

(* Mutant of Answers: the id is not compared.                               *)
AnswersAny(answer) == TRUE
(* An answer for the approval asked for, or for none in particular.         *)
Answers(answer) == answer.for \in {0, asked}

Resume ==
  /\ wf = "ask" /\ slot # None /\ Answers(slot.answer)
  /\ Take
  /\ IF slot.answer.approved
       THEN wf' = "dispatch" /\ reply' = slot.answer /\ UNCHANGED cur
       ELSE AttemptFails
  /\ UNCHANGED <<policy, asked, job, reviewVars, storeVars>>

ApprovalTimeout ==
  /\ wf = "ask" /\ ~(slot # None /\ Answers(slot.answer))
  /\ AttemptFails
  /\ UNCHANGED <<policy, asked, slot, took, job, reviewVars, storeVars>>

(* start_to_close passes, with the thread still at work or dead with its    *)
(* process: one try, so the workflow ends.                                  *)
ActivityTimeout ==
  /\ "timeout" \in Faults /\ wf = "busy"
  /\ wf' = "ended"
  /\ job' = IF job["activity"] = None THEN job
            ELSE [job EXCEPT !["activity"].late = TRUE]
  /\ UNCHANGED <<policy, cur, reply, asked, slot, took, reviewVars, storeVars>>

Workflow ==
  \/ TaskGate \/ TaskGateTimeout \/ Dispatch \/ DispatchInvalid \/ Resume
  \/ ApprovalTimeout \/ ActivityTimeout

-----------------------------------------------------------------------------
(* The dispatch thread                                                      *)

At(d, step) == job[d] # None /\ job[d].step = step
Goto(d, step) == job' = [job EXCEPT ![d].step = step]
Done(d) == job' = [job EXCEPT ![d] = None]
Awaited(d) == d = "activity" /\ ~job[d].late

(* evaluate refuses: request_approval commits a row.                        *)
GateAsks(d) ==
  /\ At(d, "gate") /\ NeedsApproval(job[d].bundle)
  /\ rows' = Append(rows, [attempt |-> job[d].attempt, status |-> "pending", paths |-> {}])
  /\ job' = [job EXCEPT ![d].step = "record", ![d].row = Len(rows) + 1]
  /\ UNCHANGED <<flowVars, decided, pending, sent, calls, delivered, storeVars>>

(* Mutant of Reissued: the gate may ask again and again.                    *)
ReissuedNever == FALSE
(* A second request within an attempt fails it.                             *)
Reissued == Granted

(* record_waiting_approval is a transaction of its own; then the request is *)
(* returned to whoever waits for it.                                        *)
RecordWaiting(d) ==
  /\ At(d, "record")
  /\ summary' = [summary EXCEPT ![job[d].attempt] =
                   [status |-> "waiting_approval", row |-> job[d].row, artifacts |-> {}]]
  /\ Done(d)
  /\ IF ~Awaited(d) THEN UNCHANGED <<wf, cur, reply, asked>>
     ELSE IF Reissued THEN AttemptFails /\ UNCHANGED asked
     ELSE wf' = "ask" /\ asked' = job[d].row /\ UNCHANGED <<cur, reply>>
  /\ UNCHANGED <<policy, slot, took, reviewVars, ran, artifacts, evidence>>

GateGrants(d) ==
  /\ At(d, "gate") /\ ~NeedsApproval(job[d].bundle)
  /\ Goto(d, "execute")
  /\ UNCHANGED <<flowVars, reviewVars, storeVars>>

(* The executor is called and returns a result.                             *)
Execute(d) ==
  /\ At(d, "execute")
  /\ ran' = ran \cup {[by |-> d, attempt |-> job[d].attempt, bundle |-> job[d].bundle,
                       reply |-> IF d = "activity" THEN reply ELSE None]}
  /\ \E status \in Result :
       job' = [job EXCEPT ![d].step = "check", ![d].status = status]
  /\ UNCHANGED <<flowVars, reviewVars, artifacts, summary, evidence>>

(* No such executor, or the adapter raises: the activity fails, and the     *)
(* workflow with it.                                                        *)
ExecuteRaises(d) ==
  /\ "raise" \in Faults /\ At(d, "execute")
  /\ Done(d)
  /\ wf' = IF Awaited(d) THEN "ended" ELSE wf
  /\ UNCHANGED <<policy, cur, reply, asked, slot, took, reviewVars, storeVars>>

(* A result nobody waits for any more is dropped, but only here.            *)
Check(d) ==
  /\ At(d, "check")
  /\ IF job[d].late THEN Done(d) ELSE Goto(d, "artifacts")
  /\ UNCHANGED <<flowVars, reviewVars, storeVars>>

(* Mutant of StoreArtifacts: the rows are not committed.                    *)
StoreArtifactsUncommitted(d) ==
  /\ At(d, "artifacts")
  /\ job' = [job EXCEPT ![d].step = "summary", ![d].made = {Len(artifacts) + 1}]
  /\ UNCHANGED <<flowVars, reviewVars, storeVars>>

(* persist_response: three transactions.                                    *)
StoreArtifacts(d) ==
  /\ At(d, "artifacts")
  /\ artifacts' = Append(artifacts, job[d].attempt)
  /\ job' = [job EXCEPT ![d].step = "summary", ![d].made = {Len(artifacts) + 1}]
  /\ UNCHANGED <<flowVars, reviewVars, ran, summary, evidence>>

StoreSummary(d) ==
  /\ At(d, "summary")
  /\ summary' = [summary EXCEPT ![job[d].attempt] =
                   [status |-> job[d].status, row |-> 0, artifacts |-> job[d].made]]
  /\ Goto(d, "evidence")
  /\ UNCHANGED <<flowVars, reviewVars, ran, artifacts, evidence>>

StoreEvidence(d) ==
  /\ At(d, "evidence")
  /\ evidence' = [evidence EXCEPT ![job[d].attempt] = job[d].made]
  /\ Done(d)
  /\ IF ~Awaited(d) THEN UNCHANGED <<wf, cur, reply>>
     ELSE IF job[d].status = "completed" THEN wf' = "ended" /\ UNCHANGED <<cur, reply>>
     ELSE AttemptFails
  /\ UNCHANGED <<policy, asked, slot, took, reviewVars, ran, artifacts, summary>>

(* The process dies with the thread.                                        *)
ProcessDies(d) ==
  /\ "crash" \in Faults /\ job[d] # None
  /\ Done(d)
  /\ UNCHANGED <<flowVars, reviewVars, storeVars>>

Thread(d) ==
  \/ GateAsks(d) \/ RecordWaiting(d) \/ GateGrants(d) \/ Execute(d) \/ ExecuteRaises(d)
  \/ Check(d) \/ StoreArtifacts(d) \/ StoreSummary(d) \/ StoreEvidence(d)
  \/ ProcessDies(d)

(* POST /executors/dispatch: the same steps, for nobody's attempt.          *)
ApiDispatch ==
  /\ calls < MaxApi /\ job["api"] = None
  /\ calls' = calls + 1
  /\ \E bundle \in ApiBundles : StartJob("api", ApiAttempt, bundle)
  /\ UNCHANGED <<flowVars, rows, decided, pending, sent, delivered, storeVars>>

-----------------------------------------------------------------------------
(* The people                                                               *)

(* resolve_approval: whatever the row says, it takes the new decision; then *)
(* the signal is to be sent.                                                *)
Decide(r) ==
  /\ pending[r] = None /\ sent < MaxSignals
  /\ \E i \in DOMAIN rows, decision \in Decision, paths \in Scopes :
       /\ rows' = [rows EXCEPT ![i].status = decision, ![i].paths = paths]
       /\ decided' = decided \cup {<<i, decision, paths>>}
       /\ pending' = [pending EXCEPT ![r] =
                        [approved |-> decision = "approved", for |-> i, paths |-> paths]]
  /\ sent' = sent + 1
  /\ UNCHANGED <<flowVars, job, calls, delivered, storeVars>>

(* POST /runtime/runs/.../approval signals without a row and without paths. *)
SignalRun(r) ==
  /\ pending[r] = None /\ sent < MaxSignals
  /\ \E approved \in BOOLEAN, i \in 0 .. Len(rows) :
       pending' = [pending EXCEPT ![r] = [approved |-> approved, for |-> i, paths |-> {}]]
  /\ sent' = sent + 1
  /\ UNCHANGED <<flowVars, job, rows, decided, calls, delivered, storeVars>>

(* signal_runtime_approval: a signal that was delivered and not             *)
(* acknowledged is sent again, since one of the candidate ids is the same   *)
(* workflow.                                                                *)
Deliver(r) ==
  /\ pending[r] # None /\ wf # "ended" /\ delivered < MaxDeliveries
  /\ delivered' = delivered + 1
  /\ slot' = [answer |-> pending[r], no |-> delivered + 1]
  /\ pending' \in {pending, [pending EXCEPT ![r] = None]}
  /\ UNCHANGED <<policy, wf, cur, reply, asked, took, job, rows, decided, sent, calls,
                 storeVars>>

(* The reviewer is told 502, or the reviewer's request dies: the row keeps  *)
(* the decision.                                                            *)
SignalLost(r) ==
  /\ pending[r] # None
  /\ pending' = [pending EXCEPT ![r] = None]
  /\ UNCHANGED <<flowVars, job, rows, decided, sent, calls, delivered, storeVars>>

People == \E r \in Reviewer : Decide(r) \/ SignalRun(r) \/ Deliver(r) \/ SignalLost(r)

Next == Workflow \/ (\E d \in Dispatcher : Thread(d)) \/ ApiDispatch \/ People

Spec == Init /\ [][Next]_vars

-----------------------------------------------------------------------------

TypeOK ==
  /\ policy \in Policies
  /\ wf \in {"gate", "dispatch", "busy", "ask"} \cup Ended
  /\ cur \in 1 .. MaxAttempts
  /\ reply \in Answer \cup {None} /\ slot \in Delivery \cup {None}
  /\ asked \in 0 .. Len(rows)
  /\ job \in [Dispatcher -> Job \cup {None}]
  /\ \A d \in Dispatcher : job[d] # None =>
       job[d].row \in 0 .. Len(rows) /\ job[d].made \subseteq DOMAIN artifacts
  /\ rows \in Seq(Row) /\ decided \subseteq Nat \X Decision \X Scopes
  /\ pending \in [Reviewer -> Answer \cup {None}]
  /\ sent \in 0 .. MaxSignals /\ calls \in 0 .. MaxApi /\ delivered \in 0 .. MaxDeliveries
  /\ took \in Seq(1 .. MaxDeliveries)
  /\ ran \subseteq Call
  /\ artifacts \in Seq(Attempt)
  /\ summary \in [Attempt -> Summary \cup {None}]
  /\ evidence \in [Attempt -> {None} \cup SUBSET Nat]

(* An executor only ever gets a bundle it may have: where the task is gated *)
(* it gets paths to write because somebody said yes to this attempt's       *)
(* request or to none in particular, and paths beyond those asked for       *)
(* because a decision stored in the approval's row gave them.  Answers to   *)
(* other attempts, late answers, second decisions and results nobody awaits *)
(* do not change that, and paths from an approval pass the gate like any    *)
(* others: their names are beneath the root's (which is not to say that     *)
(* they lead below it: see SecurityGate).                                   *)
WritesAuthorized ==
  \A e \in ran :
    /\ \A p \in e.bundle.writable : <<p, e.bundle.root>> \in Beneath
    /\ e.by = "activity" /\ e.bundle.writable # {} =>
         /\ policy.gated /\ ~policy.full =>
              /\ e.reply # None /\ e.reply.approved
              /\ e.reply.for = 0 \/ rows[e.reply.for].attempt = e.attempt
         /\ e.bundle.writable \subseteq policy.writable
            \/ <<e.reply.for, "approved", e.bundle.writable>> \in decided

(* An answer opens one gate: what the workflow acted on, it never acts on   *)
(* again, in this attempt or in a later one.                                *)
OneAnswerOneGate ==
  \A i, j \in DOMAIN took : took[i] = took[j] => i = j

(* The gate asks at most twice in an attempt, whatever the reviewers grant: *)
(* an approval that does not satisfy the gate does not loop.                *)
RequestsBounded ==
  \A a \in 1 .. MaxAttempts :
    Cardinality({i \in DOMAIN rows : rows[i].attempt = a}) <= 2

(* What is stored of a result refers only to what is stored, whenever the   *)
(* process dies and whether or not anybody still waits: a summary to its    *)
(* artifacts or its approval, and evidence to the artifacts of a summary.   *)
ResultsBacked ==
  \A a \in Attempt :
    /\ summary[a] # None =>
         /\ \A n \in summary[a].artifacts : n \in DOMAIN artifacts /\ artifacts[n] = a
         /\ summary[a].status = "waiting_approval" => rows[summary[a].row].attempt = a
    /\ a # ApiAttempt /\ evidence[a] # None =>
         summary[a] # None /\ summary[a].artifacts = evidence[a]

(* OPA's execution policy repeats the gates of the service in a second      *)
(* implementation.  For every bundle a workflow dispatches, whatever was    *)
(* approved before, switching it on refuses nothing that the service does   *)
(* not refuse itself, as long as its policy file is there.                  *)
OpaAddsNothing ==
  LET b == job["activity"].bundle IN
  job["activity"] # None /\ OpaDenies(b) => NativeDenies(b)

(* README.md: a run with runtime_full_access is executed with a permission  *)
(* policy that is wide open.  So it ends only after its executor was        *)
(* called, where nothing else goes wrong.                                   *)
BreakGlassExecutes ==
  policy.full /\ wf = "ended" => \E e \in ran : e.by = "activity"
=============================================================================
