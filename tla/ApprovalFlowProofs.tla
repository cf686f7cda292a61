------------------------- MODULE ApprovalFlowProofs -------------------------
(***************************************************************************)
(* ApprovalFlow, for any workspace, policies, bundles, reviewers, faults    *)
(* and bounds: writes are authorized, an answer opens one gate, requests    *)
(* are bounded, and what is stored of a result is backed.                   *)
(***************************************************************************)
EXTENDS ApprovalFlow, FiniteSetTheorems, TLAPS

-----------------------------------------------------------------------------
(* Types                                                                    *)

(* What a workflow builds is a bundle (build_executor_dispatch_payload).    *)
LEMMA BuiltIsBundle ==
  ASSUME NEW p \in Policy, NEW granted \in BOOLEAN, NEW paths \in SUBSET Path
  PROVE  BuildBundle(p, granted, paths) \in Bundle
BY DEF BuildBundle, WritablePaths, Bundle, Policy

(* So is what a dispatch is given, with whatever reply the workflow has.    *)
LEMMA NextIsBundle ==
  ASSUME TypeOK
  PROVE  NextBundle \in Bundle
<1>1. policy \in Policy /\ Granted \in BOOLEAN
  BY FlowAssumption DEF TypeOK, Granted
<1>2. (IF Granted THEN reply.paths ELSE {}) \in SUBSET Path
  BY FlowAssumption DEF TypeOK, Granted, Answer
<1> QED BY <1>1, <1>2, BuiltIsBundle DEF NextBundle

(* What a job refers to is stored, and stays so in the next state.          *)
Stored(j) == j.row \in 0 .. Len(rows) /\ j.made \subseteq DOMAIN artifacts
StaysStored(j) == j.row \in 0 .. Len(rows') /\ j.made \subseteq DOMAIN artifacts'
JobTypes ==
  /\ job \in [Dispatcher -> Job \cup {None}]
  /\ \A d \in Dispatcher : job[d] # None => Stored(job[d])

(* The threads keep their types when one of them is given a job whose row   *)
(* and artifacts are stored.                                                *)
LEMMA JobTypesStep ==
  ASSUME TypeOK, NEW d \in Dispatcher, NEW j \in Job \cup {None},
         job' = [job EXCEPT ![d] = j], j # None => StaysStored(j),
         rows' \in Seq(Row), Len(rows) <= Len(rows'),
         DOMAIN artifacts \subseteq DOMAIN artifacts'
  PROVE  JobTypes'
<1>1. job' \in [Dispatcher -> Job \cup {None}]
  BY DEF TypeOK
<1>2. Len(rows) \in Nat /\ Len(rows') \in Nat
  BY DEF TypeOK
<1>3. ASSUME NEW e \in Dispatcher, job'[e] # None PROVE StaysStored(job'[e])
  <2>1. CASE e = d
    BY <1>3, <2>1 DEF TypeOK
  <2>2. CASE e # d
    BY <1>2, <1>3, <2>2 DEF TypeOK, StaysStored, Job
  <2> QED BY <2>1, <2>2
<1> QED BY <1>1, <1>3 DEF JobTypes, Stored, StaysStored

(* Rows nobody touches keep their type and their number.                    *)
LEMMA UnchangedRows ==
  ASSUME TypeOK, UNCHANGED rows
  PROVE  rows' \in Seq(Row) /\ Len(rows) <= Len(rows') /\ Len(rows) \in Nat
<1>1. rows \in Seq(Row)
  BY DEF TypeOK
<1>2. Len(rows) \in Nat
  BY <1>1
<1> QED BY <1>1, <1>2

(* A thread that moves on, and the job it then has.                         *)
LEMMA JobMoves ==
  ASSUME TypeOK, NEW d \in Dispatcher, NEW step \in Step, job[d] # None, Goto(d, step),
         UNCHANGED <<rows, artifacts>>
  PROVE  JobTypes' /\ job[d] \in Job
<1> DEFINE j == [job[d] EXCEPT !.step = step]
<1>1. job[d] \in Job
  BY DEF TypeOK
<1>2. j \in Job /\ j.row = job[d].row /\ j.made = job[d].made
  BY <1>1 DEF Job
<1>3. job' = [job EXCEPT ![d] = j]
  BY DEF Goto
<1>4. StaysStored(j)
  BY <1>2 DEF TypeOK, StaysStored
<1>5. rows' \in Seq(Row) /\ Len(rows) <= Len(rows')
  BY UnchangedRows
<1> HIDE DEF j
<1> QED BY <1>1, <1>2, <1>3, <1>4, <1>5, JobTypesStep

(* A thread that ends leaves the other thread its job.                      *)
LEMMA JobEnds ==
  ASSUME TypeOK, NEW d \in Dispatcher, Done(d), UNCHANGED <<rows, artifacts>>
  PROVE  JobTypes'
<1>1. rows' \in Seq(Row) /\ Len(rows) <= Len(rows')
  BY UnchangedRows
<1> QED BY <1>1, JobTypesStep DEF Done

(* What an attempt that failed leaves of the workflow.                      *)
LEMMA AttemptFailsTypes ==
  ASSUME TypeOK, AttemptFails
  PROVE  /\ cur' \in 1 .. MaxAttempts /\ cur' \in {cur, cur + 1}
         /\ wf' \in {"gate", "dispatch", "ended"}
         /\ reply' \in Answer \cup {None}
BY FlowAssumption DEF TypeOK, AttemptFails

(* The slot holds a delivery when wait_for_approval takes what it holds.    *)
LEMMA TakeTypes ==
  ASSUME TypeOK, slot # None, Take
  PROVE  /\ slot \in Delivery /\ slot.answer \in Answer /\ slot' = None
         /\ took' \in Seq(1 .. MaxDeliveries)
<1>1. slot \in Delivery
  BY DEF TypeOK
<1>2. slot.answer \in Answer /\ slot.no \in 1 .. MaxDeliveries
  BY <1>1 DEF Delivery
<1> QED BY <1>1, <1>2 DEF Take, TypeOK

(* Every step of the workflow (definitions/base.py) keeps the types.        *)
LEMMA WorkflowTypes ==
  ASSUME TypeOK, Workflow
  PROVE  TypeOK'
<1> USE DEF flowVars, reviewVars, storeVars, Ended
<1>1. CASE TaskGate
  BY <1>1, TakeTypes DEF TaskGate, GateShut, TypeOK
<1>2. CASE TaskGateTimeout
  BY <1>2 DEF TaskGateTimeout, GateShut, TypeOK
<1>3. CASE Dispatch
  <2> DEFINE j == [step |-> "gate", attempt |-> cur, bundle |-> NextBundle, late |-> FALSE,
                   row |-> 0, made |-> {}, status |-> "completed"]
  <2>1. cur \in Attempt
    BY FlowAssumption DEF TypeOK, Attempt, ApiAttempt
  <2>2. j \in Job
    BY <2>1, NextIsBundle DEF Job, Step, Result
  <2>3. job' = [job EXCEPT !["activity"] = j]
    BY <1>3 DEF Dispatch, StartJob
  <2> HIDE DEF j
  <2>4. job' \in [Dispatcher -> Job \cup {None}]
    BY <2>2, <2>3 DEF TypeOK
  <2>5. j.row = 0 /\ j.made = {}
    BY DEF j
  <2> QED BY <1>3, <2>3, <2>4, <2>5 DEF Dispatch, TypeOK, Dispatcher
<1>4. CASE DispatchInvalid
  BY <1>4 DEF DispatchInvalid, TypeOK
<1>5. CASE Resume
  BY <1>5, TakeTypes, AttemptFailsTypes DEF Resume, TypeOK
<1>6. CASE ApprovalTimeout
  BY <1>6, AttemptFailsTypes DEF ApprovalTimeout, TypeOK
<1>7. CASE ActivityTimeout
  <2>1. CASE job["activity"] = None
    BY <1>7, <2>1 DEF ActivityTimeout, TypeOK
  <2>2. CASE job["activity"] # None
    <3>1. job["activity"] \in Job /\ "activity" \in Dispatcher
      BY <2>2 DEF TypeOK, Dispatcher
    <3>2. [job["activity"] EXCEPT !.late = TRUE] \in Job
      BY <3>1 DEF Job
    <3>3. job' = [job EXCEPT !["activity"] = [job["activity"] EXCEPT !.late = TRUE]]
      BY <1>7, <2>2 DEF ActivityTimeout
    <3>4. job' \in [Dispatcher -> Job \cup {None}]
      BY <3>2, <3>3 DEF TypeOK
    <3>5. /\ job'["activity"].row = job["activity"].row
          /\ job'["activity"].made = job["activity"].made
          /\ \A d \in Dispatcher \ {"activity"} : job'[d] = job[d]
      BY <3>1, <3>3 DEF TypeOK, Job
    <3> QED BY <1>7, <2>2, <3>4, <3>5 DEF ActivityTimeout, TypeOK
  <2> QED BY <2>1, <2>2
<1> QED BY <1>1, <1>2, <1>3, <1>4, <1>5, <1>6, <1>7 DEF Workflow

(* Every step of a dispatch thread (executors/service.py) keeps the types:  *)
(* what it is about to refer to, it has stored.                             *)
LEMMA ThreadTypes ==
  ASSUME TypeOK, NEW d \in Dispatcher, Thread(d)
  PROVE  TypeOK'
<1> USE DEF flowVars, reviewVars, storeVars, At, Ended
<1>1. CASE GateAsks(d)
  <2> DEFINE row == [attempt |-> job[d].attempt, status |-> "pending", paths |-> {}]
             j == [job[d] EXCEPT !.step = "record", !.row = Len(rows) + 1]
  <2>1. job[d] \in Job /\ rows \in Seq(Row) /\ Len(rows) \in Nat
    BY <1>1 DEF GateAsks, TypeOK
  <2>2. row \in Row
    BY <2>1, FlowAssumption DEF Row, Job
  <2>3. rows' = Append(rows, row)
    BY <1>1 DEF GateAsks
  <2>4. rows' \in Seq(Row) /\ Len(rows') = Len(rows) + 1
    BY <2>1, <2>2, <2>3
  <2>5. j \in Job /\ j.row = Len(rows) + 1 /\ j.made = job[d].made
    <3>1. \A n \in Nat : [job[d] EXCEPT !.step = "record", !.row = n] \in Job
      BY <2>1 DEF Job, Step
    <3>2. Len(rows) + 1 \in Nat
      BY <2>1
    <3> QED BY <2>1, <3>1, <3>2 DEF Job
  <2>6. job' = [job EXCEPT ![d] = j]
    BY <1>1 DEF GateAsks
  <2>7. artifacts' = artifacts
    BY <1>1 DEF GateAsks
  <2>8. StaysStored(j)
    BY <1>1, <2>1, <2>4, <2>5, <2>7 DEF StaysStored, TypeOK, GateAsks
  <2> HIDE DEF row, j
  <2>9. JobTypes'
    <3>1. Len(rows) <= Len(rows') /\ DOMAIN artifacts \subseteq DOMAIN artifacts'
      BY <2>1, <2>4, <2>7
    <3> QED BY <2>4, <2>5, <2>6, <2>8, <3>1, JobTypesStep
  <2>10. asked' \in 0 .. Len(rows')
    BY <1>1, <2>1, <2>4 DEF GateAsks, TypeOK
  <2> QED BY <1>1, <2>4, <2>9, <2>10 DEF GateAsks, TypeOK, JobTypes, Stored
<1>2. CASE RecordWaiting(d)
  <2>1. JobTypes'
    BY <1>2, JobEnds DEF RecordWaiting
  <2>2. job[d] \in Job /\ job[d].row \in 0 .. Len(rows)
    BY <1>2 DEF RecordWaiting, TypeOK
  <2>3. summary' \in [Attempt -> Summary \cup {None}]
    BY <1>2, <2>2 DEF RecordWaiting, TypeOK, Job, Summary
  <2>4. /\ wf' \in {"gate", "dispatch", "busy", "ask"} \cup Ended
        /\ cur' \in 1 .. MaxAttempts /\ reply' \in Answer \cup {None}
        /\ asked' \in 0 .. Len(rows)
    BY <1>2, <2>2, AttemptFailsTypes DEF RecordWaiting, TypeOK
  <2> QED BY <1>2, <2>1, <2>3, <2>4 DEF RecordWaiting, TypeOK, JobTypes, Stored
<1>3. CASE GateGrants(d)
  <2>1. JobTypes'
    BY <1>3, JobMoves DEF GateGrants, Step
  <2> QED BY <1>3, <2>1 DEF GateGrants, TypeOK, JobTypes, Stored
<1>4. CASE Execute(d)
  <2> DEFINE call == [by |-> d, attempt |-> job[d].attempt, bundle |-> job[d].bundle,
                      reply |-> IF d = "activity" THEN reply ELSE None]
  <2>1. PICK status \in Result :
          job' = [job EXCEPT ![d].step = "check", ![d].status = status]
    BY <1>4 DEF Execute
  <2> DEFINE j == [job[d] EXCEPT !.step = "check", !.status = status]
  <2>2. job[d] \in Job
    BY <1>4 DEF Execute, TypeOK
  <2>3. j \in Job /\ j.row = job[d].row /\ j.made = job[d].made
    BY <2>2 DEF Job, Step
  <2>4. job' = [job EXCEPT ![d] = j] /\ UNCHANGED <<rows, artifacts>>
    BY <1>4, <2>1 DEF Execute
  <2>5. call \in Call
    BY <2>2 DEF Call, Job, TypeOK
  <2>6. ran' = ran \cup {call}
    BY <1>4 DEF Execute
  <2>7. StaysStored(j) /\ rows' \in Seq(Row) /\ Len(rows) <= Len(rows')
    BY <1>4, <2>3, <2>4 DEF StaysStored, TypeOK, Execute
  <2> HIDE DEF call, j
  <2>8. JobTypes'
    BY <2>3, <2>4, <2>7, JobTypesStep
  <2> QED BY <1>4, <2>5, <2>6, <2>8 DEF Execute, TypeOK, JobTypes, Stored
<1>5. CASE ExecuteRaises(d)
  <2>1. JobTypes'
    BY <1>5, JobEnds DEF ExecuteRaises
  <2> QED BY <1>5, <2>1 DEF ExecuteRaises, TypeOK, JobTypes, Stored
<1>6. CASE Check(d)
  <2>1. JobTypes'
    BY <1>6, JobEnds, JobMoves DEF Check, Step
  <2> QED BY <1>6, <2>1 DEF Check, TypeOK, JobTypes, Stored
<1>7. CASE StoreArtifacts(d)
  <2> DEFINE j == [job[d] EXCEPT !.step = "summary", !.made = {Len(artifacts) + 1}]
  <2>1. job[d] \in Job /\ artifacts \in Seq(Attempt) /\ Len(artifacts) \in Nat
    BY <1>7 DEF StoreArtifacts, TypeOK
  <2>2. artifacts' = Append(artifacts, job[d].attempt) /\ job[d].attempt \in Attempt
    BY <1>7, <2>1 DEF StoreArtifacts, Job
  <2>3. /\ artifacts' \in Seq(Attempt) /\ DOMAIN artifacts' = 1 .. Len(artifacts) + 1
        /\ DOMAIN artifacts = 1 .. Len(artifacts)
    BY <2>1, <2>2
  <2>4. j \in Job /\ j.row = job[d].row /\ j.made = {Len(artifacts) + 1}
    <3>1. \A S \in SUBSET Nat : [job[d] EXCEPT !.step = "summary", !.made = S] \in Job
      BY <2>1 DEF Job, Step
    <3>2. {Len(artifacts) + 1} \in SUBSET Nat
      BY <2>1
    <3> QED BY <2>1, <3>1, <3>2 DEF Job
  <2>5. job' = [job EXCEPT ![d] = j] /\ rows' = rows
    BY <1>7 DEF StoreArtifacts
  <2>6. StaysStored(j) /\ rows' \in Seq(Row) /\ Len(rows) <= Len(rows')
    BY <1>7, <2>1, <2>3, <2>4, <2>5 DEF StaysStored, TypeOK, StoreArtifacts
  <2>7. DOMAIN artifacts \subseteq DOMAIN artifacts'
    BY <2>1, <2>3
  <2> HIDE DEF j
  <2>8. JobTypes'
    BY <2>4, <2>5, <2>6, <2>7, JobTypesStep
  <2> QED BY <1>7, <2>3, <2>8 DEF StoreArtifacts, TypeOK, JobTypes, Stored
<1>8. CASE StoreSummary(d)
  <2>1. JobTypes' /\ job[d] \in Job
    BY <1>8, JobMoves DEF StoreSummary, Step
  <2>2. summary' \in [Attempt -> Summary \cup {None}]
    BY <1>8, <2>1 DEF StoreSummary, TypeOK, Job, Summary
  <2> QED BY <1>8, <2>1, <2>2 DEF StoreSummary, TypeOK, JobTypes, Stored
<1>9. CASE StoreEvidence(d)
  <2>1. JobTypes'
    BY <1>9, JobEnds DEF StoreEvidence
  <2>2. job[d] \in Job
    BY <1>9 DEF StoreEvidence, TypeOK
  <2>3. evidence' \in [Attempt -> {None} \cup SUBSET Nat]
    BY <1>9, <2>2 DEF StoreEvidence, TypeOK, Job
  <2>4. /\ wf' \in {"gate", "dispatch", "busy", "ask"} \cup Ended
        /\ cur' \in 1 .. MaxAttempts /\ reply' \in Answer \cup {None}
    BY <1>9, <2>2, AttemptFailsTypes DEF StoreEvidence, TypeOK
  <2> QED BY <1>9, <2>1, <2>3, <2>4 DEF StoreEvidence, TypeOK, JobTypes, Stored
<1>10. CASE ProcessDies(d)
  <2>1. JobTypes'
    BY <1>10, JobEnds DEF ProcessDies
  <2> QED BY <1>10, <2>1 DEF ProcessDies, TypeOK, JobTypes, Stored
<1> QED
  BY <1>1, <1>2, <1>3, <1>4, <1>5, <1>6, <1>7, <1>8, <1>9, <1>10 DEF Thread

(* What the API and the reviewers do keeps the types.                       *)
LEMMA PeopleTypes ==
  ASSUME TypeOK, ApiDispatch \/ People
  PROVE  TypeOK'
<1> USE DEF flowVars, reviewVars, storeVars, Ended
<1>1. CASE ApiDispatch
  <2>1. PICK bundle \in ApiBundles : StartJob("api", ApiAttempt, bundle)
    BY <1>1 DEF ApiDispatch
  <2> DEFINE j == [step |-> "gate", attempt |-> ApiAttempt, bundle |-> bundle, late |-> FALSE,
                   row |-> 0, made |-> {}, status |-> "completed"]
  <2>2. ApiAttempt \in Attempt /\ bundle \in Bundle
    BY FlowAssumption DEF Attempt, ApiAttempt
  <2>3. j \in Job /\ j.row = 0 /\ j.made = {}
    BY <2>2 DEF Job, Step, Result
  <2>4. job' = [job EXCEPT !["api"] = j] /\ UNCHANGED <<rows, artifacts>>
    BY <1>1, <2>1 DEF ApiDispatch, StartJob
  <2> HIDE DEF j
  <2>5. rows' \in Seq(Row) /\ Len(rows) <= Len(rows') /\ Len(rows') \in Nat
    BY <2>4, UnchangedRows
  <2>6. JobTypes'
    <3>1. StaysStored(j) /\ "api" \in Dispatcher
      BY <2>3, <2>5 DEF StaysStored, Dispatcher
    <3> QED BY <2>3, <2>4, <2>5, <3>1, JobTypesStep
  <2>7. calls' \in 0 .. MaxApi
    BY <1>1, FlowAssumption DEF ApiDispatch, TypeOK
  <2> QED BY <1>1, <2>6, <2>7 DEF ApiDispatch, TypeOK, JobTypes, Stored
<1>2. ASSUME NEW r \in Reviewer, Decide(r) PROVE TypeOK'
  <2>1. PICK i \in DOMAIN rows, decision \in Decision, paths \in Scopes :
          /\ rows' = [rows EXCEPT ![i].status = decision, ![i].paths = paths]
          /\ decided' = decided \cup {<<i, decision, paths>>}
          /\ pending' = [pending EXCEPT ![r] =
                           [approved |-> decision = "approved", for |-> i, paths |-> paths]]
    BY <1>2 DEF Decide
  <2>2. rows \in Seq(Row) /\ i \in Nat /\ rows[i] \in Row /\ Len(rows) \in Nat
    BY DEF TypeOK
  <2>3. [rows[i] EXCEPT !.status = decision, !.paths = paths] \in Row
    BY <2>2 DEF Row
  <2>4. rows' = [rows EXCEPT ![i] = [rows[i] EXCEPT !.status = decision, !.paths = paths]]
    BY <2>1
  <2>5. rows' \in Seq(Row) /\ Len(rows') = Len(rows)
    BY <2>2, <2>3, <2>4
  <2>6. [approved |-> decision = "approved", for |-> i, paths |-> paths] \in Answer
    BY <2>2 DEF Answer
  <2>7. sent' \in 0 .. MaxSignals
    BY <1>2, FlowAssumption DEF Decide, TypeOK
  <2>8. pending' \in [Reviewer -> Answer \cup {None}]
    BY <2>1, <2>6 DEF TypeOK
  <2>9. decided' \subseteq Nat \X Decision \X Scopes
    BY <2>1, <2>2 DEF TypeOK
  <2> QED BY <1>2, <2>5, <2>7, <2>8, <2>9 DEF Decide, TypeOK
<1>3. ASSUME NEW r \in Reviewer, SignalRun(r) PROVE TypeOK'
  <2>1. PICK approved \in BOOLEAN, i \in 0 .. Len(rows) :
          pending' = [pending EXCEPT ![r] = [approved |-> approved, for |-> i, paths |-> {}]]
    BY <1>3 DEF SignalRun
  <2>2. [approved |-> approved, for |-> i, paths |-> {}] \in Answer
    BY FlowAssumption DEF Answer
  <2>3. sent' \in 0 .. MaxSignals
    BY <1>3, FlowAssumption DEF SignalRun, TypeOK
  <2> QED BY <1>3, <2>1, <2>2, <2>3 DEF SignalRun, TypeOK
<1>4. ASSUME NEW r \in Reviewer, Deliver(r) PROVE TypeOK'
  <2>1. delivered' \in 1 .. MaxDeliveries /\ delivered' = delivered + 1
    BY <1>4, FlowAssumption DEF Deliver, TypeOK
  <2>2. pending[r] \in Answer
    BY <1>4 DEF Deliver, TypeOK
  <2>3. slot' \in Delivery
    BY <1>4, <2>1, <2>2 DEF Deliver, Delivery
  <2>4. pending' \in [Reviewer -> Answer \cup {None}]
    BY <1>4 DEF Deliver, TypeOK
  <2> QED BY <1>4, <2>1, <2>3, <2>4 DEF Deliver, TypeOK
<1>5. ASSUME NEW r \in Reviewer, SignalLost(r) PROVE TypeOK'
  BY <1>5 DEF SignalLost, TypeOK
<1> QED BY <1>1, <1>2, <1>3, <1>4, <1>5 DEF People

(* So every step keeps the types.                                           *)
LEMMA TypesStep ==
  ASSUME TypeOK, [Next]_vars
  PROVE  TypeOK'
<1>1. CASE UNCHANGED vars
  BY <1>1 DEF vars, TypeOK
<1> QED BY <1>1, WorkflowTypes, ThreadTypes, PeopleTypes DEF Next

(* A run that starts has all of them.                                       *)
LEMMA InitTypes == Init => TypeOK
<1> SUFFICES ASSUME Init PROVE TypeOK
  OBVIOUS
<1> USE DEF Init
<1>1. rows \in Seq(Row) /\ Len(rows) = 0 /\ took \in Seq(1 .. MaxDeliveries)
  OBVIOUS
<1>2. artifacts \in Seq(Attempt)
  OBVIOUS
<1> QED BY <1>1, <1>2, FlowAssumption DEF TypeOK, Ended

(* Every variable keeps its type: the attempts stay within MaxAttempts, and *)
(* what a thread is about to refer to is stored.                            *)
THEOREM FlowTypes == Spec => []TypeOK
BY InitTypes, TypesStep, PTL DEF Spec

-----------------------------------------------------------------------------
(* The invariant                                                            *)

(* The thread of the activity works for the current attempt, with the       *)
(* bundle the workflow would build now, until somebody gave it up: then the *)
(* workflow has ended and changes no more.                                  *)
ActivityIsCurrent ==
  LET j == job["activity"] IN
    j # None => /\ wf = IF j.late THEN "ended" ELSE "busy"
                /\ j.attempt = cur /\ j.bundle = NextBundle

ApiIsNobodys == job["api"] # None => job["api"].attempt = ApiAttempt

(* Nothing but the gate leads to the executor.                              *)
GatePassed == \A d \in Dispatcher : At(d, "execute") => ~NeedsApproval(job[d].bundle)

Requested(i, attempt) == i \in DOMAIN rows /\ rows[i].attempt = attempt

(* The request a thread has made, and the one the workflow waits for, are   *)
(* the attempt's own.                                                       *)
RequestsOwn ==
  /\ \A d \in Dispatcher : At(d, "record") => Requested(job[d].row, job[d].attempt)
  /\ wf = "ask" => Requested(asked, cur)

(* Approved paths come from a committed decision.                           *)
Backed(answer) ==
  answer.approved /\ answer.paths # {} => <<answer.for, "approved", answer.paths>> \in decided
AnswersBacked ==
  /\ \A r \in Reviewer : pending[r] # None => Backed(pending[r])
  /\ slot # None => Backed(slot.answer)
  /\ Granted => /\ Backed(reply) /\ reply.approved
                /\ reply.for = 0 \/ Requested(reply.for, cur)

(* Deliveries are numbered, and what the slot holds was not taken.          *)
DeliveriesNumbered ==
  /\ \A i \in DOMAIN took : took[i] <= delivered
  /\ slot # None => slot.no <= delivered /\ \A i \in DOMAIN took : took[i] # slot.no

IInv ==
  /\ TypeOK
  /\ ActivityIsCurrent /\ ApiIsNobodys /\ GatePassed
  /\ RequestsOwn /\ AnswersBacked /\ DeliveriesNumbered

(* The requests of an attempt so far, and how many it may still have made.  *)
RequestsIn(rs, a) == {i \in DOMAIN rs : rs[i].attempt = a}
WillAsk ==
  wf \in {"gate", "dispatch"} \/ (job["activity"] # None /\ job["activity"].step = "gate")
Allowance ==
  IF Granted THEN IF WillAsk THEN 1 ELSE 2
  ELSE IF WillAsk THEN 0 ELSE 1
RequestsCounted ==
  /\ wf \in {"gate", "ask"} => ~Granted
  /\ Cardinality(RequestsIn(rows, cur)) <= Allowance
  /\ \A a \in 1 .. MaxAttempts : a < cur => Cardinality(RequestsIn(rows, a)) <= 2
  /\ \A a \in 1 .. MaxAttempts : a > cur => RequestsIn(rows, a) = {}

(* What is stored refers to what is stored, and an attempt has evidence     *)
(* only when nothing of it is still to be written.                          *)
StoredOf(artifact, attempt) == artifact \in DOMAIN artifacts /\ artifacts[artifact] = attempt
AllStored(made, attempt) == \A n \in made : StoredOf(n, attempt)
ThreadsStored ==
  \A d \in Dispatcher :
    /\ At(d, "summary") => AllStored(job[d].made, job[d].attempt)
    /\ At(d, "evidence") => AllStored(job[d].made, job[d].attempt)
ActivitySummed ==
  At("activity", "evidence") =>
    /\ summary[job["activity"].attempt] # None
    /\ summary[job["activity"].attempt].artifacts = job["activity"].made
SummariesStored ==
  \A a \in Attempt : summary[a] # None =>
    /\ AllStored(summary[a].artifacts, a)
    /\ summary[a].status = "waiting_approval" => Requested(summary[a].row, a)
Settled(a) == a < cur \/ (a = cur /\ wf = "ended" /\ job["activity"] = None)
EvidenceStored ==
  \A a \in Attempt \ {ApiAttempt} : evidence[a] # None =>
    Settled(a) /\ summary[a] # None /\ summary[a].artifacts = evidence[a]
ResultsStored == ThreadsStored /\ ActivitySummed /\ SummariesStored /\ EvidenceStored

-----------------------------------------------------------------------------
(* What a step may change                                                   *)

(* A step of one thread: its job stays what it was asked to do, the other   *)
(* thread is left alone, and only a thread that ends and is awaited moves   *)
(* the workflow.                                                            *)
LEMMA ThreadWorks ==
  ASSUME TypeOK, NEW d \in Dispatcher, Thread(d)
  PROVE  /\ job[d] # None
         /\ \A e \in Dispatcher \ {d} : job'[e] = job[e]
         /\ job'[d] # None => /\ job'[d].attempt = job[d].attempt
                              /\ job'[d].bundle = job[d].bundle
                              /\ job'[d].late = job[d].late
                              /\ UNCHANGED <<wf, cur, reply, asked>>
         /\ d = "api" => UNCHANGED <<wf, cur, reply, asked>>
         /\ UNCHANGED <<policy, slot, took, decided, pending, sent, calls, delivered>>
<1>1. job \in [Dispatcher -> Job \cup {None}]
  BY DEF TypeOK
<1> USE <1>1 DEF At, Goto, Done, Awaited, flowVars, reviewVars, storeVars, Job
<1>2. CASE GateAsks(d)
  BY <1>2 DEF GateAsks
<1>3. CASE RecordWaiting(d)
  BY <1>3 DEF RecordWaiting
<1>4. CASE GateGrants(d)
  BY <1>4 DEF GateGrants
<1>5. CASE Execute(d)
  BY <1>5 DEF Execute
<1>6. CASE ExecuteRaises(d)
  BY <1>6 DEF ExecuteRaises
<1>7. CASE Check(d)
  BY <1>7 DEF Check
<1>8. CASE StoreArtifacts(d)
  BY <1>8 DEF StoreArtifacts
<1>9. CASE StoreSummary(d)
  BY <1>9 DEF StoreSummary
<1>10. CASE StoreEvidence(d)
  BY <1>10 DEF StoreEvidence
<1>11. CASE ProcessDies(d)
  BY <1>11 DEF ProcessDies
<1> QED
  BY <1>2, <1>3, <1>4, <1>5, <1>6, <1>7, <1>8, <1>9, <1>10, <1>11 DEF Thread

(* Rows, artifacts and decisions are added, never taken back: what is       *)
(* requested, stored or backed stays so.                                    *)
LEMMA OnlyGrows ==
  ASSUME TypeOK, [Next]_vars
  PROVE  /\ \A i, a : Requested(i, a) => Requested(i, a)'
         /\ \A n, a : StoredOf(n, a) => StoredOf(n, a)'
         /\ decided \subseteq decided'
         /\ policy' = policy
<1>1. rows \in Seq(Row) /\ artifacts \in Seq(Attempt)
  BY DEF TypeOK
<1> USE DEF Requested, StoredOf
<1>2. CASE UNCHANGED <<rows, artifacts, decided, policy>>
  BY <1>2
<1>3. CASE Workflow
  BY <1>3, <1>2 DEF Workflow, TaskGate, TaskGateTimeout, Dispatch, DispatchInvalid, Resume,
     ApprovalTimeout, ActivityTimeout, reviewVars, storeVars
<1>4. ASSUME NEW d \in Dispatcher, Thread(d)
      PROVE  /\ \A i, a : Requested(i, a) => Requested(i, a)'
             /\ \A n, a : StoredOf(n, a) => StoredOf(n, a)'
             /\ decided \subseteq decided' /\ policy' = policy
  <2>1. decided' = decided /\ policy' = policy
    BY <1>4, ThreadWorks
  <2>2. CASE GateAsks(d)
    <3>1. artifacts' = artifacts
      BY <2>2 DEF GateAsks, storeVars
    <3> QED BY <1>1, <2>1, <2>2, <3>1 DEF GateAsks
  <2>3. CASE StoreArtifacts(d)
    <3>1. rows' = rows /\ artifacts' = Append(artifacts, job[d].attempt)
      BY <2>3 DEF StoreArtifacts, reviewVars
    <3> QED BY <1>1, <2>1, <3>1
  <2>4. CASE UNCHANGED <<rows, artifacts>>
    BY <2>1, <2>4
  <2> QED
    BY <1>4, <2>2, <2>3, <2>4 DEF Thread, RecordWaiting, GateGrants, Execute, ExecuteRaises,
       Check, StoreSummary, StoreEvidence, ProcessDies, reviewVars, storeVars
<1>5. CASE ApiDispatch
  BY <1>5, <1>2 DEF ApiDispatch, flowVars, storeVars
<1>6. ASSUME NEW r \in Reviewer, Decide(r)
      PROVE  /\ \A i, a : Requested(i, a) => Requested(i, a)'
             /\ \A n, a : StoredOf(n, a) => StoredOf(n, a)'
             /\ decided \subseteq decided' /\ policy' = policy
  <2>1. PICK i \in DOMAIN rows, decision \in Decision, paths \in Scopes :
          /\ rows' = [rows EXCEPT ![i].status = decision, ![i].paths = paths]
          /\ decided' = decided \cup {<<i, decision, paths>>}
    BY <1>6 DEF Decide
  <2>2. \A k \in DOMAIN rows : rows[k] \in Row
    BY <1>1
  <2>3. DOMAIN rows' = DOMAIN rows /\ \A k \in DOMAIN rows : rows'[k].attempt = rows[k].attempt
    BY <2>1, <2>2 DEF Row
  <2>4. artifacts' = artifacts /\ policy' = policy
    BY <1>6 DEF Decide, flowVars, storeVars
  <2> QED BY <2>1, <2>3, <2>4
<1>7. CASE \E r \in Reviewer : SignalRun(r) \/ Deliver(r) \/ SignalLost(r)
  BY <1>7, <1>2 DEF SignalRun, Deliver, SignalLost, flowVars, storeVars
<1>8. CASE UNCHANGED vars
  BY <1>8, <1>2 DEF vars
<1> QED BY <1>3, <1>4, <1>5, <1>6, <1>7, <1>8 DEF Next, People

(* The people and the API touch neither the workflow nor a thread that runs.*)
LEMMA PeopleStayAway ==
  ASSUME TypeOK, ApiDispatch \/ People
  PROVE  /\ UNCHANGED <<policy, wf, cur, reply, asked, took, ran, artifacts, summary, evidence>>
         /\ job'["activity"] = job["activity"]
         /\ job["api"] # None => job' = job
<1>1. CASE ApiDispatch
  BY <1>1 DEF ApiDispatch, StartJob, flowVars, storeVars, TypeOK, Dispatcher
<1>2. CASE People
  BY <1>2 DEF People, Decide, SignalRun, Deliver, SignalLost, flowVars, storeVars
<1> QED BY <1>1, <1>2

-----------------------------------------------------------------------------
(* The invariant is inductive                                               *)

(* While the thread it waits for is at work, the workflow does nothing but  *)
(* give it up and end.                                                      *)
LEMMA ActivityStep ==
  ASSUME TypeOK, ActivityIsCurrent, ApiIsNobodys, [Next]_vars
  PROVE  ActivityIsCurrent' /\ ApiIsNobodys'
<1>1. job \in [Dispatcher -> Job \cup {None}] /\ Dispatcher = {"activity", "api"}
  BY DEF TypeOK, Dispatcher
<1> USE DEF ActivityIsCurrent, ApiIsNobodys, NextBundle, Granted
<1>2. CASE Workflow
  <2>1. CASE TaskGate \/ TaskGateTimeout \/ DispatchInvalid \/ Resume \/ ApprovalTimeout
    BY <2>1 DEF TaskGate, TaskGateTimeout, DispatchInvalid, Resume, ApprovalTimeout
  <2>2. CASE Dispatch
    BY <1>1, <2>2 DEF Dispatch, StartJob
  <2>3. CASE ActivityTimeout
    BY <1>1, <2>3 DEF ActivityTimeout, Job
  <2> QED BY <1>2, <2>1, <2>2, <2>3 DEF Workflow
<1>3. ASSUME NEW d \in Dispatcher, Thread(d) PROVE ActivityIsCurrent' /\ ApiIsNobodys'
  BY <1>1, <1>3, ThreadWorks
<1>4. CASE ApiDispatch
  <2>1. job'["activity"] = job["activity"] /\ UNCHANGED <<policy, wf, cur, reply>>
    BY <1>4, PeopleStayAway
  <2>2. job'["api"].attempt = ApiAttempt
    BY <1>1, <1>4 DEF ApiDispatch, StartJob
  <2> QED BY <2>1, <2>2
<1>5. CASE People
  BY <1>5, PeopleStayAway DEF People, Decide, SignalRun, Deliver, SignalLost
<1>6. CASE UNCHANGED vars
  BY <1>6 DEF vars
<1> QED BY <1>2, <1>3, <1>4, <1>5, <1>6 DEF Next

(* A step that is not the thread's own leaves its job, or starts one at the *)
(* gate, or marks it late.                                                  *)
LEMMA OthersLeaveThreads ==
  ASSUME TypeOK, NEW d \in Dispatcher, NEW step \in Step \ {"gate"},
         [Next]_vars, ~Thread(d), At(d, step)'
  PROVE  /\ At(d, step) /\ job'[d].attempt = job[d].attempt /\ job'[d].bundle = job[d].bundle
         /\ job'[d].row = job[d].row /\ job'[d].made = job[d].made
<1>1. job \in [Dispatcher -> Job \cup {None}] /\ Dispatcher = {"activity", "api"}
  BY DEF TypeOK, Dispatcher
<1> USE DEF At, Job
<1>2. CASE Workflow
  BY <1>1, <1>2 DEF Workflow, TaskGate, TaskGateTimeout, Dispatch, DispatchInvalid, Resume,
     ApprovalTimeout, ActivityTimeout, StartJob
<1>3. CASE \E e \in Dispatcher : Thread(e)
  BY <1>1, <1>3, ThreadWorks
<1>4. CASE ApiDispatch
  BY <1>1, <1>4 DEF ApiDispatch, StartJob
<1>5. CASE People
  BY <1>5 DEF People, Decide, SignalRun, Deliver, SignalLost
<1>6. CASE UNCHANGED vars
  BY <1>6 DEF vars
<1> QED BY <1>2, <1>3, <1>4, <1>5, <1>6 DEF Next

(* ExecutorDispatchService evaluates the policy before it looks for an      *)
(* executor: no other way leads there.                                      *)
LEMMA GateStep ==
  ASSUME TypeOK, GatePassed, [Next]_vars
  PROVE  GatePassed'
<1> SUFFICES ASSUME NEW d \in Dispatcher, At(d, "execute")'
             PROVE  ~NeedsApproval(job'[d].bundle)
  BY DEF GatePassed
<1>1. CASE ~Thread(d)
  BY <1>1, OthersLeaveThreads DEF GatePassed, Step
<1>2. CASE Thread(d)
  <2>1. job \in [Dispatcher -> Job \cup {None}]
    BY DEF TypeOK
  <2>2. GateGrants(d)
    BY <1>2, <2>1 DEF Thread, GateAsks, RecordWaiting, Execute, ExecuteRaises, Check,
       StoreArtifacts, StoreSummary, StoreEvidence, ProcessDies, At, Goto, Done, Job
  <2> QED BY <1>2, <2>1, <2>2, ThreadWorks DEF GateGrants, At
<1> QED BY <1>1, <1>2

(* request_approval commits the row before anyone can be told of it.        *)
LEMMA RequestsStep ==
  ASSUME TypeOK, ActivityIsCurrent, RequestsOwn, [Next]_vars
  PROVE  RequestsOwn'
<1>1. job \in [Dispatcher -> Job \cup {None}] /\ Dispatcher = {"activity", "api"}
  BY DEF TypeOK, Dispatcher
<1>2. ASSUME NEW d \in Dispatcher, At(d, "record")'
      PROVE  Requested(job[d].row, job[d].attempt)' 
  <2>1. CASE ~Thread(d)
    BY <1>2, <2>1, OthersLeaveThreads, OnlyGrows DEF RequestsOwn, Step
  <2>2. CASE Thread(d)
    <3>1. GateAsks(d)
      BY <1>1, <1>2, <2>2 DEF Thread, GateGrants, RecordWaiting, Execute, ExecuteRaises, Check,
         StoreArtifacts, StoreSummary, StoreEvidence, ProcessDies, At, Goto, Done, Job
    <3>2. /\ rows \in Seq(Row) /\ job[d] # None
          /\ rows' = Append(rows, [attempt |-> job[d].attempt, status |-> "pending",
                                   paths |-> {}])
      BY <3>1 DEF GateAsks, At, TypeOK
    <3>3. job'[d].row = Len(rows) + 1 /\ job'[d].attempt = job[d].attempt
      BY <1>1, <3>1, <3>2 DEF GateAsks, Job
    <3> QED BY <3>2, <3>3 DEF Requested
  <2> QED BY <2>1, <2>2
<1>3. ASSUME wf' = "ask" PROVE Requested(asked, cur)'
  <2>1. CASE wf = "ask" /\ UNCHANGED <<wf, asked, cur>>
    BY <2>1, OnlyGrows DEF RequestsOwn
  <2>2. CASE Workflow
    BY <1>3, <2>2 DEF Workflow, TaskGate, TaskGateTimeout, Dispatch, DispatchInvalid, Resume,
       ApprovalTimeout, ActivityTimeout, AttemptFails, GateShut
  <2>3. ASSUME NEW d \in Dispatcher, Thread(d) PROVE Requested(asked, cur)'
    <3>1. CASE UNCHANGED <<wf, asked, cur>>
      BY <1>3, <2>1, <3>1
    <3>2. CASE RecordWaiting(d)
      <4>1. CASE UNCHANGED <<wf, cur, reply, asked>>
        BY <3>1, <4>1
      <4>2. CASE ~UNCHANGED <<wf, cur, reply, asked>>
        <5>1. d = "activity" /\ At(d, "record") /\ asked' = job[d].row /\ cur' = cur
          BY <1>3, <3>2, <4>2 DEF RecordWaiting, Awaited, AttemptFails
        <5>2. job[d].attempt = cur
          BY <5>1 DEF ActivityIsCurrent, At
        <5> QED BY <5>1, <5>2, OnlyGrows DEF RequestsOwn
      <4> QED BY <4>1, <4>2
    <3>3. CASE ExecuteRaises(d) \/ StoreEvidence(d)
      BY <1>3, <3>1, <3>3 DEF ExecuteRaises, StoreEvidence, AttemptFails
    <3> QED
      BY <2>3, <3>1, <3>2, <3>3 DEF Thread, GateAsks, GateGrants, Execute, Check,
         StoreArtifacts, StoreSummary, ProcessDies, flowVars
  <2>4. CASE ApiDispatch \/ People
    BY <1>3, <2>1, <2>4, PeopleStayAway
  <2>5. CASE UNCHANGED vars
    BY <1>3, <2>1, <2>5 DEF vars
  <2> QED BY <2>2, <2>3, <2>4, <2>5 DEF Next
<1> QED BY <1>2, <1>3 DEF RequestsOwn

(* A reviewer's signal says what the row was decided to be, and the reply   *)
(* the workflow dispatches again with is one it waited for.                 *)
LEMMA AnswersStep ==
  ASSUME TypeOK, RequestsOwn, AnswersBacked, [Next]_vars
  PROVE  AnswersBacked'
<1>1. decided \subseteq decided' /\ \A i, a : Requested(i, a) => Requested(i, a)'
  BY OnlyGrows
<1>2. pending \in [Reviewer -> Answer \cup {None}]
  BY DEF TypeOK
<1>3. ASSUME UNCHANGED pending
      PROVE  \A r \in Reviewer : pending'[r] # None => Backed(pending[r])'
  BY <1>1, <1>3 DEF AnswersBacked, Backed
<1>4. ASSUME slot' \in {slot, None} PROVE slot' # None => Backed(slot.answer)'
  BY <1>1, <1>4 DEF AnswersBacked, Backed
<1>5. ASSUME reply' = None \/ UNCHANGED <<reply, cur>>
      PROVE  Granted' => /\ Backed(reply)' /\ reply'.approved
                         /\ reply'.for = 0 \/ Requested(reply.for, cur)'
  BY <1>1, <1>5 DEF AnswersBacked, Backed, Granted
<1>6. CASE Workflow
  <2>1. UNCHANGED pending /\ slot' \in {slot, None}
    BY <1>6 DEF Workflow, TaskGate, TaskGateTimeout, Dispatch, DispatchInvalid, Resume,
       ApprovalTimeout, ActivityTimeout, Take, reviewVars
  <2>2. CASE reply' = None \/ UNCHANGED <<reply, cur>>
    BY <1>3, <1>4, <1>5, <2>1, <2>2 DEF AnswersBacked
  <2>3. CASE ~(reply' = None \/ UNCHANGED <<reply, cur>>)
    <3>1. Resume /\ slot.answer.approved /\ reply' = slot.answer /\ cur' = cur
      BY <1>6, <2>3 DEF Workflow, TaskGate, TaskGateTimeout, Dispatch, DispatchInvalid, Resume,
         ApprovalTimeout, ActivityTimeout, AttemptFails
    <3>2. slot # None /\ wf = "ask" /\ slot.answer.for \in {0, asked}
      BY <3>1 DEF Resume, Answers
    <3>3. Backed(reply)'
      BY <1>1, <3>1, <3>2 DEF AnswersBacked, Backed
    <3>4. reply'.for = 0 \/ Requested(reply.for, cur)'
      BY <1>1, <3>1, <3>2 DEF RequestsOwn
    <3> QED BY <1>3, <1>4, <2>1, <3>1, <3>3, <3>4 DEF AnswersBacked
  <2> QED BY <2>2, <2>3
<1>7. ASSUME NEW d \in Dispatcher, Thread(d) PROVE AnswersBacked'
  <2>1. UNCHANGED <<pending, slot>>
    BY <1>7, ThreadWorks
  <2>2. reply' = None \/ UNCHANGED <<reply, cur>>
    BY <1>7, ThreadWorks DEF Thread, GateAsks, RecordWaiting, GateGrants, Execute,
       ExecuteRaises, Check, StoreArtifacts, StoreSummary, StoreEvidence, ProcessDies,
       AttemptFails, flowVars
  <2> QED BY <1>3, <1>4, <1>5, <2>1, <2>2 DEF AnswersBacked
<1>8. CASE ApiDispatch
  BY <1>3, <1>4, <1>5, <1>8 DEF ApiDispatch, flowVars, AnswersBacked
<1>9. CASE People
  <2>1. UNCHANGED <<reply, cur>>
    BY <1>9, PeopleStayAway
  <2> SUFFICES ASSUME NEW r \in Reviewer, Decide(r) \/ SignalRun(r) \/ Deliver(r) \/ SignalLost(r)
               PROVE  /\ \A s \in Reviewer : pending'[s] # None => Backed(pending[s])'
                      /\ slot' # None => Backed(slot.answer)'
    BY <1>5, <1>9, <2>1 DEF People, AnswersBacked
  <2>3. CASE Decide(r)
    <3>1. PICK i \in DOMAIN rows, decision \in Decision, paths \in Scopes :
            /\ rows' = [rows EXCEPT ![i].status = decision, ![i].paths = paths]
            /\ decided' = decided \cup {<<i, decision, paths>>}
            /\ pending' = [pending EXCEPT ![r] =
                             [approved |-> decision = "approved", for |-> i, paths |-> paths]]
      BY <2>3 DEF Decide
    <3>2. \A s \in Reviewer : pending'[s] # None => Backed(pending[s])'
      BY <1>1, <1>2, <3>1 DEF AnswersBacked, Backed
    <3> QED BY <1>4, <2>3, <3>2 DEF Decide, flowVars
  <2>4. CASE SignalRun(r)
    <3>1. PICK approved \in BOOLEAN, i \in 0 .. Len(rows) :
            pending' = [pending EXCEPT ![r] = [approved |-> approved, for |-> i, paths |-> {}]]
      BY <2>4 DEF SignalRun
    <3>2. \A s \in Reviewer : pending'[s] # None => Backed(pending[s])'
      BY <1>1, <1>2, <3>1 DEF AnswersBacked, Backed
    <3> QED BY <1>4, <2>4, <3>2 DEF SignalRun, flowVars
  <2>5. CASE Deliver(r)
    <3>1. slot'.answer = pending[r] /\ pending[r] # None
      BY <2>5 DEF Deliver
    <3>2. Backed(slot.answer)'
      BY <1>1, <3>1 DEF AnswersBacked, Backed
    <3>3. \A s \in Reviewer : pending'[s] # None => Backed(pending[s])'
      BY <1>1, <1>2, <2>5 DEF Deliver, AnswersBacked, Backed
    <3> QED BY <3>2, <3>3
  <2>6. CASE SignalLost(r)
    <3>1. \A s \in Reviewer : pending'[s] # None => Backed(pending[s])'
      BY <1>1, <1>2, <2>6 DEF SignalLost, AnswersBacked, Backed
    <3> QED BY <1>4, <2>6, <3>1 DEF SignalLost, flowVars
  <2> QED BY <2>3, <2>4, <2>5, <2>6
<1>10. CASE UNCHANGED vars
  BY <1>3, <1>4, <1>5, <1>10 DEF vars, AnswersBacked
<1> QED BY <1>6, <1>7, <1>8, <1>9, <1>10 DEF Next

(* What a sequence holds is of its type.                                    *)
LEMMA ElementType ==
  ASSUME NEW S, NEW s \in Seq(S)
  PROVE  \A i \in DOMAIN s : s[i] \in S
OBVIOUS

(* Numbers grow with every delivery, and the slot is emptied when its       *)
(* answer is taken (approval_reset).                                        *)
LEMMA DeliveriesStep ==
  ASSUME TypeOK, DeliveriesNumbered, [Next]_vars
  PROVE  /\ DeliveriesNumbered'
         /\ OneAnswerOneGate => OneAnswerOneGate'
<1>1. took \in Seq(1 .. MaxDeliveries) /\ delivered \in Nat
  BY DEF TypeOK
<1> USE DEF DeliveriesNumbered, OneAnswerOneGate
<1>2. CASE UNCHANGED <<took, slot, delivered>>
  BY <1>2
<1>3. CASE slot # None /\ Take /\ UNCHANGED delivered
  <2>1. slot.no \in 1 .. MaxDeliveries
    BY <1>3 DEF TypeOK, Delivery
  <2>2. /\ took' = Append(took, slot.no) /\ slot' = None
        /\ DOMAIN took' = 1 .. Len(took) + 1 /\ DOMAIN took = 1 .. Len(took)
        /\ Len(took) \in Nat
        /\ took'[Len(took) + 1] = slot.no
        /\ \A i \in 1 .. Len(took) : took'[i] = took[i]
    BY <1>1, <1>3, <2>1 DEF Take
  <2>3. \A i \in DOMAIN took' : i \in DOMAIN took \/ i = Len(took) + 1
    BY <2>2
  <2> QED BY <1>3, <2>2, <2>3
<1>4. CASE Workflow
  BY <1>2, <1>3, <1>4 DEF Workflow, TaskGate, TaskGateTimeout, Dispatch, DispatchInvalid,
     Resume, ApprovalTimeout, ActivityTimeout, reviewVars
<1>5. CASE \E d \in Dispatcher : Thread(d)
  BY <1>2, <1>5, ThreadWorks
<1>6. CASE ApiDispatch
  BY <1>2, <1>6 DEF ApiDispatch, flowVars
<1>7. CASE People
  <2>1. CASE \E r \in Reviewer : Decide(r) \/ SignalRun(r) \/ SignalLost(r)
    BY <1>2, <2>1 DEF Decide, SignalRun, SignalLost, flowVars
  <2>2. ASSUME NEW r \in Reviewer, Deliver(r)
        PROVE  DeliveriesNumbered' /\ (OneAnswerOneGate => OneAnswerOneGate')
    <3>1. delivered' = delivered + 1 /\ slot'.no = delivered + 1 /\ took' = took
      BY <2>2 DEF Deliver
    <3>2. \A i \in DOMAIN took : took[i] \in 1 .. MaxDeliveries
      BY <1>1, ElementType
    <3>3. \A i \in DOMAIN took : took[i] \in Nat /\ took[i] <= delivered
      BY <3>2
    <3>4. \A i \in DOMAIN took : took[i] <= delivered + 1 /\ took[i] # delivered + 1
      BY <1>1, <3>3
    <3> QED BY <1>1, <3>1, <3>4
  <2> QED BY <1>7, <2>1, <2>2 DEF People
<1>8. CASE UNCHANGED vars
  BY <1>2, <1>8 DEF vars
<1> QED BY <1>4, <1>5, <1>6, <1>7, <1>8 DEF Next

(* A run that starts has asked for nothing and was told nothing.            *)
LEMMA InitInvariant == Init => IInv
<1> SUFFICES ASSUME Init PROVE IInv
  OBVIOUS
<1>1. TypeOK
  BY InitTypes
<1>2. \A d \in Dispatcher : job[d] = None
  BY DEF Init
<1>3. ActivityIsCurrent /\ ApiIsNobodys
  BY <1>2 DEF ActivityIsCurrent, ApiIsNobodys, Dispatcher
<1>4. GatePassed /\ RequestsOwn
  BY <1>2 DEF GatePassed, RequestsOwn, At, Init
<1>5. AnswersBacked /\ DeliveriesNumbered
  BY DEF Init, AnswersBacked, DeliveriesNumbered, Granted
<1> QED BY <1>1, <1>3, <1>4, <1>5 DEF IInv

(* The invariant is inductive: the steps above, put together.               *)
LEMMA InvariantStep ==
  ASSUME IInv, [Next]_vars
  PROVE  IInv'
BY TypesStep, ActivityStep, GateStep, RequestsStep, AnswersStep, DeliveriesStep DEF IInv

(* It holds in every state of every run.                                    *)
LEMMA Invariance == Spec => []IInv
BY InitInvariant, InvariantStep, PTL DEF Spec

(* An answer opens one gate, whatever is delivered twice, late or for       *)
(* another attempt (ApprovalFlow!OneAnswerOneGate).                         *)
THEOREM AnswersOpenOneGate == Spec => []OneAnswerOneGate
<1>1. Init => OneAnswerOneGate
  BY DEF Init, OneAnswerOneGate
<1>2. OneAnswerOneGate /\ IInv /\ [Next]_vars => OneAnswerOneGate'
  BY DeliveriesStep DEF IInv
<1> QED BY <1>1, <1>2, Invariance, PTL DEF Spec

(* The OPA policy refuses no bundle of a workflow that the service does not *)
(* refuse itself (ApprovalFlow!OpaAddsNothing): what a workflow builds is   *)
(* in place, and its allowlist is never empty.                              *)
THEOREM OpaRepeatsTheGates == Spec => []OpaAddsNothing
<1>1. IInv => OpaAddsNothing
  <2> SUFFICES ASSUME IInv, job["activity"] # None, OpaDenies(job["activity"].bundle)
               PROVE  NativeDenies(job["activity"].bundle)
    BY DEF OpaAddsNothing
  <2>1. job["activity"].bundle = NextBundle
    BY DEF IInv, ActivityIsCurrent
  <2>2. NextBundle.inPlace = TRUE
    BY DEF NextBundle, BuildBundle
  <2> QED BY <2>1, <2>2 DEF OpaDenies, NativeDenies, OpaWrite, WriteExecution
<1> QED BY <1>1, Invariance, PTL

-----------------------------------------------------------------------------
(* Writes                                                                   *)

(* What an executor was called with, and who allowed it: the answer is to a *)
(* request of the call's own attempt, which is stored.                      *)
CallAuthorized(e) ==
  /\ \A p \in e.bundle.writable : <<p, e.bundle.root>> \in Beneath
  /\ e.by = "activity" /\ e.bundle.writable # {} =>
       /\ policy.gated /\ ~policy.full =>
            /\ e.reply # None /\ e.reply.approved
            /\ e.reply.for = 0 \/ Requested(e.reply.for, e.attempt)
       /\ e.bundle.writable \subseteq policy.writable
          \/ <<e.reply.for, "approved", e.bundle.writable>> \in decided
CallsAuthorized == \A e \in ran : CallAuthorized(e)

(* The thread calls its executor with what the gate let pass.               *)
LEMMA ExecuteAuthorized ==
  ASSUME IInv, NEW d \in Dispatcher, At(d, "execute")
  PROVE  CallAuthorized([by |-> d, attempt |-> job[d].attempt, bundle |-> job[d].bundle,
                         reply |-> IF d = "activity" THEN reply ELSE None])
<1>1. ~NativeDenies(job[d].bundle)
  BY DEF IInv, GatePassed, NeedsApproval
<1>2. \A p \in job[d].bundle.writable : <<p, job[d].bundle.root>> \in Beneath
  BY <1>1 DEF NativeDenies, Isolated
<1>3. CASE d = "api"
  BY <1>2, <1>3 DEF CallAuthorized
<1>4. CASE d = "activity"
  <2>1. job[d].bundle = NextBundle /\ job[d].attempt = cur
    BY <1>4 DEF IInv, ActivityIsCurrent, At
  <2>2. /\ NextBundle.inPlace = TRUE
        /\ NextBundle.manual = (policy.gated /\ ~policy.full /\ ~Granted)
        /\ NextBundle.writable = IF Granted /\ reply.paths # {} THEN reply.paths
                                 ELSE policy.writable
    BY DEF NextBundle, BuildBundle, WritablePaths
  <2>3. NextBundle.writable # {} /\ policy.gated /\ ~policy.full => Granted
    BY <1>1, <2>1, <2>2 DEF NativeDenies, WriteExecution
  <2>4. Granted => /\ reply.approved /\ Backed(reply)
                   /\ reply.for = 0 \/ Requested(reply.for, cur)
    BY DEF IInv, AnswersBacked
  <2>5. \/ NextBundle.writable \subseteq policy.writable
        \/ <<reply.for, "approved", NextBundle.writable>> \in decided
    BY <2>2, <2>4 DEF Backed
  <2> QED BY <1>2, <1>4, <2>1, <2>3, <2>4, <2>5 DEF CallAuthorized, Granted
<1> QED BY <1>3, <1>4 DEF Dispatcher

(* Only an executor that is called adds to what executors were called with. *)
LEMMA OnlyExecuteRuns ==
  ASSUME TypeOK, [Next]_vars, ran' # ran
  PROVE  \E d \in Dispatcher :
           /\ At(d, "execute")
           /\ ran' = ran \cup {[by |-> d, attempt |-> job[d].attempt, bundle |-> job[d].bundle,
                               reply |-> IF d = "activity" THEN reply ELSE None]}
<1>1. ~UNCHANGED ran
  OBVIOUS
<1>2. ~Workflow
  BY DEF Workflow, TaskGate, TaskGateTimeout, Dispatch, DispatchInvalid, Resume,
     ApprovalTimeout, ActivityTimeout, storeVars
<1>3. ~ApiDispatch /\ ~People /\ ~UNCHANGED vars
  BY PeopleStayAway DEF vars
<1>4. PICK d \in Dispatcher : Thread(d)
  BY <1>2, <1>3 DEF Next
<1>5. Execute(d)
  BY <1>4 DEF Thread, GateAsks, RecordWaiting, GateGrants, ExecuteRaises, Check,
     StoreArtifacts, StoreSummary, StoreEvidence, ProcessDies, storeVars
<1> QED BY <1>5 DEF Execute

(* Executors are given to write only what they may                          *)
(* (ApprovalFlow!WritesAuthorized): where the task is gated, because of an  *)
(* answer to this attempt's own request, and paths nobody asked for because *)
(* they were approved in the approval's row; always paths whose names are   *)
(* beneath the root's, as the gate compares them, wherever they lead.       *)
THEOREM WritesAreAuthorized == Spec => []WritesAuthorized
<1>1. Init => CallsAuthorized
  BY DEF Init, CallsAuthorized
<1>2. ASSUME IInv, CallsAuthorized, [Next]_vars PROVE CallsAuthorized'
  <2>1. TypeOK
    BY <1>2 DEF IInv
  <2>2. \A e : CallAuthorized(e) => CallAuthorized(e)'
    BY <1>2, <2>1, OnlyGrows DEF CallAuthorized
  <2>3. CASE ran' = ran
    BY <1>2, <2>2, <2>3 DEF CallsAuthorized
  <2>4. ASSUME NEW d \in Dispatcher, At(d, "execute"),
               ran' = ran \cup {[by |-> d, attempt |-> job[d].attempt, bundle |-> job[d].bundle,
                                reply |-> IF d = "activity" THEN reply ELSE None]}
        PROVE  CallsAuthorized'
    BY <1>2, <2>2, <2>4, ExecuteAuthorized DEF CallsAuthorized
  <2> QED BY <1>2, <2>1, <2>3, <2>4, OnlyExecuteRuns
<1>3. CallsAuthorized => WritesAuthorized
  BY DEF CallsAuthorized, CallAuthorized, WritesAuthorized, Requested
<1> QED BY <1>1, <1>2, <1>3, Invariance, PTL DEF Spec

-----------------------------------------------------------------------------
(* Requests                                                                 *)

(* The requests of an attempt can be counted.                               *)
LEMMA RequestsFinite ==
  ASSUME TypeOK, NEW a
  PROVE  IsFiniteSet(RequestsIn(rows, a)) /\ Cardinality(RequestsIn(rows, a)) \in Nat
<1>1. DOMAIN rows = 1 .. Len(rows) /\ Len(rows) \in Nat
  BY DEF TypeOK
<1>2. IsFiniteSet(DOMAIN rows)
  BY <1>1, FS_Interval
<1>3. RequestsIn(rows, a) \subseteq DOMAIN rows
  BY DEF RequestsIn
<1> QED BY <1>2, <1>3, FS_Subset, FS_CardinalityType

(* The workflow, the people and the API add no request.                     *)
LEMMA RequestsKept ==
  ASSUME TypeOK, Workflow \/ ApiDispatch \/ People, NEW a
  PROVE  RequestsIn(rows', a) = RequestsIn(rows, a)
<1>1. CASE UNCHANGED rows
  BY <1>1 DEF RequestsIn
<1>2. CASE Workflow
  BY <1>1, <1>2 DEF Workflow, TaskGate, TaskGateTimeout, Dispatch, DispatchInvalid, Resume,
     ApprovalTimeout, ActivityTimeout, reviewVars
<1>3. CASE ApiDispatch
  BY <1>1, <1>3 DEF ApiDispatch
<1>4. ASSUME NEW r \in Reviewer, Decide(r) PROVE RequestsIn(rows', a) = RequestsIn(rows, a)
  <2>1. PICK i \in DOMAIN rows, decision \in Decision, paths \in Scopes :
          /\ rows' = [rows EXCEPT ![i].status = decision, ![i].paths = paths]
          /\ decided' = decided \cup {<<i, decision, paths>>}
    BY <1>4 DEF Decide
  <2>2. \A k \in DOMAIN rows : rows[k] \in Row
    BY ElementType DEF TypeOK
  <2>3. DOMAIN rows' = DOMAIN rows /\ \A k \in DOMAIN rows : rows'[k].attempt = rows[k].attempt
    BY <2>1, <2>2 DEF Row
  <2> QED BY <2>3 DEF RequestsIn
<1>5. CASE \E r \in Reviewer : SignalRun(r) \/ Deliver(r) \/ SignalLost(r)
  BY <1>1, <1>5 DEF SignalRun, Deliver, SignalLost
<1> QED BY <1>2, <1>3, <1>4, <1>5 DEF People

(* The gate's request counts for the attempt the thread works for.          *)
LEMMA RequestAdded ==
  ASSUME TypeOK, NEW d \in Dispatcher, GateAsks(d), NEW a
  PROVE  IF a = job[d].attempt
           THEN Cardinality(RequestsIn(rows', a)) = Cardinality(RequestsIn(rows, a)) + 1
           ELSE RequestsIn(rows', a) = RequestsIn(rows, a)
<1> DEFINE k == Len(rows) + 1
<1>1. /\ rows \in Seq(Row) /\ job \in [Dispatcher -> Job \cup {None}]
      /\ rows' = Append(rows, [attempt |-> job[d].attempt, status |-> "pending", paths |-> {}])
  BY DEF TypeOK, GateAsks
<1>2. /\ DOMAIN rows' = DOMAIN rows \cup {k} /\ k \notin DOMAIN rows
      /\ rows'[k].attempt = job[d].attempt
      /\ \A i \in DOMAIN rows : rows'[i] = rows[i]
  BY <1>1
<1> HIDE DEF k
<1>3. CASE a = job[d].attempt
  <2>1. RequestsIn(rows', a) = RequestsIn(rows, a) \cup {k} /\ k \notin RequestsIn(rows, a)
    BY <1>2, <1>3 DEF RequestsIn
  <2>2. IsFiniteSet(RequestsIn(rows, a))
    BY RequestsFinite
  <2>3. Cardinality(RequestsIn(rows, a) \cup {k}) = Cardinality(RequestsIn(rows, a)) + 1
    BY <2>1, <2>2, FS_AddElement
  <2> QED BY <1>3, <2>1, <2>3
<1>4. CASE a # job[d].attempt
  BY <1>2, <1>4 DEF RequestsIn
<1> QED BY <1>3, <1>4

(* What the requests counted so far leave to the attempts.                  *)
LEMMA CountsStep ==
  ASSUME IInv, RequestsCounted, [Next]_vars
  PROVE  RequestsCounted'
<1>1. TypeOK /\ cur \in 1 .. MaxAttempts /\ MaxAttempts \in Nat
  BY FlowAssumption DEF IInv, TypeOK
<1>2. job \in [Dispatcher -> Job \cup {None}] /\ Dispatcher = {"activity", "api"}
  BY <1>1 DEF TypeOK, Dispatcher
<1>3. \A a : Cardinality(RequestsIn(rows, a)) \in Nat
  BY <1>1, RequestsFinite
<1>4. Allowance \in Nat /\ Allowance' \in Nat
  BY DEF Allowance
<1>5. ASSUME \A a : RequestsIn(rows', a) = RequestsIn(rows, a), UNCHANGED cur,
             wf' \in {"gate", "ask"} => ~Granted', Allowance <= Allowance'
      PROVE  RequestsCounted'
  <2> HIDE DEF Allowance
  <2>1. Cardinality(RequestsIn(rows', cur')) <= Allowance'
    BY <1>3, <1>4, <1>5 DEF RequestsCounted
  <2> QED BY <1>5, <2>1 DEF RequestsCounted
<1>6. ASSUME \A a : RequestsIn(rows', a) = RequestsIn(rows, a), UNCHANGED <<cur, reply>>,
             wf' \in {"gate", "ask"} => wf' = wf, WillAsk' => WillAsk
      PROVE  RequestsCounted'
  BY <1>5, <1>6 DEF RequestsCounted, Allowance, Granted
(* A new attempt has made no request, the one before it at most two.        *)
<1>7. ASSUME \A a : RequestsIn(rows', a) = RequestsIn(rows, a), AttemptFails,
             ~(job'["activity"] # None /\ job'["activity"].step = "gate")
      PROVE  RequestsCounted'
  <2>1. CASE cur < MaxAttempts
    <3>1. cur' = cur + 1 /\ reply' = None /\ cur' \in 1 .. MaxAttempts
      BY <1>1, <1>7, <2>1 DEF AttemptFails
    <3>2. /\ Cardinality(RequestsIn(rows, cur)) <= 2
          /\ \A a \in 1 .. MaxAttempts : a < cur' => Cardinality(RequestsIn(rows', a)) <= 2
          /\ \A a \in 1 .. MaxAttempts : a > cur' => RequestsIn(rows', a) = {}
          /\ RequestsIn(rows', cur') = {}
      BY <1>1, <1>3, <1>7, <3>1 DEF RequestsCounted, Allowance
    <3> QED BY <3>1, <3>2, FS_EmptySet DEF RequestsCounted, Allowance, Granted
  <2>2. CASE ~(cur < MaxAttempts)
    BY <1>6, <1>7, <2>2 DEF AttemptFails, WillAsk
  <2> QED BY <2>1, <2>2
<1>8. CASE Workflow
  <2>1. \A a : RequestsIn(rows', a) = RequestsIn(rows, a)
    BY <1>1, <1>8, RequestsKept
  <2>2. CASE TaskGate \/ TaskGateTimeout \/ DispatchInvalid
    BY <1>6, <2>1, <2>2 DEF TaskGate, TaskGateTimeout, DispatchInvalid, GateShut, WillAsk
  <2>3. CASE Dispatch
    BY <1>2, <1>6, <2>1, <2>3 DEF Dispatch, WillAsk
  <2>4. CASE Resume \/ ApprovalTimeout
    <3>1. job["activity"] = None /\ UNCHANGED job /\ wf = "ask"
      BY <2>4 DEF Resume, ApprovalTimeout, IInv, ActivityIsCurrent
    <3>2. CASE AttemptFails
      BY <1>7, <2>1, <3>1, <3>2
    <3>3. CASE Resume /\ wf' = "dispatch" /\ reply' = slot.answer /\ UNCHANGED cur
      <4>1. slot.answer # None
        BY <1>1, <3>3, TakeTypes, NoneAssumption DEF Resume
      <4>2. Allowance = 1
        BY <3>1 DEF RequestsCounted, Allowance, WillAsk
      <4>3. Allowance' = 1
        BY <3>3, <4>1 DEF Allowance, WillAsk, Granted
      <4> QED BY <1>5, <2>1, <3>3, <4>2, <4>3
    <3> QED BY <2>4, <3>2, <3>3 DEF Resume, ApprovalTimeout
  <2>5. CASE ActivityTimeout
    <3>1. WillAsk' => WillAsk
      BY <1>2, <2>5 DEF ActivityTimeout, WillAsk, Job
    <3> QED BY <1>6, <2>1, <2>5, <3>1 DEF ActivityTimeout
  <2> QED BY <1>8, <2>2, <2>3, <2>4, <2>5 DEF Workflow
<1>9. ASSUME NEW d \in Dispatcher, Thread(d) PROVE RequestsCounted'
  <2>1. CASE GateAsks(d)
    <3>1. UNCHANGED <<wf, cur, reply>> /\ At(d, "gate")
      BY <2>1 DEF GateAsks, flowVars
    <3>2. CASE d = "api"
      <4>1. \A a \in 1 .. MaxAttempts : RequestsIn(rows', a) = RequestsIn(rows, a)
        BY <1>1, <2>1, <3>1, <3>2, RequestAdded DEF IInv, ApiIsNobodys, ApiAttempt, At
      <4>2. job'["activity"] = job["activity"]
        BY <1>1, <1>9, <3>2, ThreadWorks DEF Dispatcher
      <4>3. Allowance' = Allowance
        BY <3>1, <4>2 DEF Allowance, WillAsk, Granted
      <4> QED BY <1>1, <3>1, <4>1, <4>3 DEF RequestsCounted, Granted
    <3>3. CASE d = "activity"
      <4>1. job[d].attempt = cur /\ wf \in {"busy", "ended"} /\ WillAsk
        BY <3>1, <3>3 DEF IInv, ActivityIsCurrent, At, WillAsk
      <4>2. ~WillAsk'
        BY <1>2, <2>1, <3>1, <3>3, <4>1 DEF GateAsks, WillAsk, Job
      <4>3. Allowance' = Allowance + 1
        BY <3>1, <4>1, <4>2 DEF Allowance, Granted
      <4>4. /\ Cardinality(RequestsIn(rows', cur)) = Cardinality(RequestsIn(rows, cur)) + 1
            /\ \A a : a # cur => RequestsIn(rows', a) = RequestsIn(rows, a)
        BY <1>1, <2>1, <4>1, RequestAdded
      <4>5. Cardinality(RequestsIn(rows', cur')) <= Allowance'
        BY <1>3, <1>4, <3>1, <4>3, <4>4 DEF RequestsCounted
      <4> QED BY <1>1, <3>1, <4>1, <4>4, <4>5 DEF RequestsCounted
    <3> QED BY <3>2, <3>3 DEF Dispatcher
  <2>2. CASE ~GateAsks(d)
    <3>1. \A a : RequestsIn(rows', a) = RequestsIn(rows, a)
      BY <1>9, <2>2 DEF Thread, RecordWaiting, GateGrants, Execute, ExecuteRaises, Check,
         StoreArtifacts, StoreSummary, StoreEvidence, ProcessDies, reviewVars
    <3>2. /\ job'["activity"] # None /\ job'["activity"].step = "gate"
          => job["activity"] # None /\ job["activity"].step = "gate"
      <4>1. CASE d = "api"
        BY <1>1, <1>9, <4>1, ThreadWorks DEF Dispatcher
      <4>2. CASE d = "activity"
        BY <1>2, <1>9, <2>2, <4>2 DEF Thread, RecordWaiting, GateGrants, Execute, ExecuteRaises,
           Check, StoreArtifacts, StoreSummary, StoreEvidence, ProcessDies, At, Goto, Done, Job
      <4> QED BY <4>1, <4>2 DEF Dispatcher
    <3>3. CASE UNCHANGED <<wf, cur, reply>>
      BY <1>6, <3>1, <3>2, <3>3 DEF WillAsk
    <3>4. CASE ~UNCHANGED <<wf, cur, reply>>
      <4>1. d = "activity" /\ job'[d] = None /\ job[d] # None
        BY <1>1, <1>9, <3>4, ThreadWorks DEF Dispatcher
      <4>2. CASE AttemptFails
        BY <1>7, <3>1, <4>1, <4>2
      <4>3. CASE wf' = "ended" /\ UNCHANGED <<cur, reply>>
        BY <1>6, <3>1, <4>1, <4>3 DEF WillAsk
      <4>4. CASE wf' = "ask" /\ ~Granted /\ RecordWaiting(d) /\ UNCHANGED <<cur, reply>>
        <5>1. ~WillAsk /\ ~WillAsk'
          BY <4>1, <4>4 DEF RecordWaiting, At, WillAsk, IInv, ActivityIsCurrent
        <5>2. Allowance' = Allowance
          BY <4>4, <5>1 DEF Allowance, Granted
        <5> QED BY <1>4, <1>5, <3>1, <4>4, <5>2 DEF Granted
      <4> QED
        BY <1>9, <2>2, <3>4, <4>2, <4>3, <4>4 DEF Thread, RecordWaiting, GateGrants, Execute,
           ExecuteRaises, Check, StoreArtifacts, StoreSummary, StoreEvidence, ProcessDies,
           Reissued, flowVars
    <3> QED BY <3>3, <3>4
  <2> QED BY <2>1, <2>2
<1>10. CASE ApiDispatch \/ People
  <2>1. \A a : RequestsIn(rows', a) = RequestsIn(rows, a)
    BY <1>1, <1>10, RequestsKept
  <2>2. UNCHANGED <<wf, cur, reply>> /\ job'["activity"] = job["activity"]
    BY <1>1, <1>10, PeopleStayAway
  <2> QED BY <1>6, <2>1, <2>2 DEF WillAsk
<1>11. CASE UNCHANGED vars
  BY <1>6, <1>11 DEF vars, WillAsk
<1> QED BY <1>8, <1>9, <1>10, <1>11 DEF Next

(* The gate asks at most twice in an attempt (ApprovalFlow!RequestsBounded):*)
(* a request made after a grant fails the attempt.                          *)
THEOREM RequestsAreBounded == Spec => []RequestsBounded
<1>1. Init => RequestsCounted
  <2> SUFFICES ASSUME Init PROVE RequestsCounted
    OBVIOUS
  <2>1. \A a : RequestsIn(rows, a) = {}
    BY DEF Init, RequestsIn
  <2>2. Allowance \in Nat /\ ~Granted
    BY DEF Init, Allowance, Granted
  <2> QED BY <2>1, <2>2, FS_EmptySet DEF RequestsCounted
<1>2. RequestsCounted /\ IInv /\ [Next]_vars => RequestsCounted'
  BY CountsStep
<1>3. IInv /\ RequestsCounted => RequestsBounded
  <2> SUFFICES ASSUME IInv, RequestsCounted, NEW a \in 1 .. MaxAttempts
               PROVE  Cardinality(RequestsIn(rows, a)) <= 2
    BY DEF RequestsBounded, RequestsIn
  <2>1. cur \in 1 .. MaxAttempts /\ MaxAttempts \in Nat
    BY FlowAssumption DEF IInv, TypeOK
  <2>2. CASE a = cur
    <3>1. Cardinality(RequestsIn(rows, cur)) \in Nat
      BY RequestsFinite DEF IInv
    <3> QED BY <2>2, <3>1 DEF RequestsCounted, Allowance
  <2> QED BY <2>1, <2>2, FS_EmptySet DEF RequestsCounted
<1> QED BY <1>1, <1>2, <1>3, Invariance, PTL DEF Spec

-----------------------------------------------------------------------------
(* Results                                                                  *)

(* An activity thread works for an attempt of the task.                     *)
LEMMA ActivityAttempt ==
  ASSUME IInv, job["activity"] # None
  PROVE  /\ job["activity"].attempt = cur /\ cur \in Attempt \ {ApiAttempt}
         /\ wf \in {"busy", "ended"}
<1>1. cur \in 1 .. MaxAttempts /\ MaxAttempts \in Nat
  BY FlowAssumption DEF IInv, TypeOK
<1> QED BY <1>1 DEF IInv, ActivityIsCurrent, Attempt, ApiAttempt

(* Only the step before leads to a step.                                    *)
LEMMA StoreSteps ==
  ASSUME TypeOK, NEW d \in Dispatcher, Thread(d)
  PROVE  /\ At(d, "summary")' => StoreArtifacts(d)
         /\ At(d, "evidence")' => StoreSummary(d)
<1>1. job \in [Dispatcher -> Job \cup {None}]
  BY DEF TypeOK
<1> QED
  BY <1>1 DEF Thread, GateAsks, RecordWaiting, GateGrants, Execute, ExecuteRaises, Check,
     StoreArtifacts, StoreSummary, StoreEvidence, ProcessDies, At, Goto, Done, Job

(* The three transactions of persist_response, and what is between them.    *)
LEMMA ThreadsStoredStep ==
  ASSUME IInv, ThreadsStored, [Next]_vars
  PROVE  ThreadsStored'
<1>1. TypeOK /\ artifacts \in Seq(Attempt) /\ job \in [Dispatcher -> Job \cup {None}]
  BY DEF IInv, TypeOK
<1>2. \A made, a : AllStored(made, a) => AllStored(made, a)'
  BY <1>1, OnlyGrows DEF AllStored
<1> SUFFICES ASSUME NEW d \in Dispatcher, NEW step \in {"summary", "evidence"}, At(d, step)'
             PROVE  AllStored(job[d].made, job[d].attempt)'
  BY DEF ThreadsStored
<1>3. CASE ~Thread(d)
  <2>1. At(d, step) /\ job'[d].attempt = job[d].attempt /\ job'[d].made = job[d].made
    BY <1>1, <1>3, OthersLeaveThreads DEF Step
  <2> QED BY <1>2, <2>1 DEF ThreadsStored
<1>4. CASE Thread(d) /\ step = "summary"
  <2>1. /\ artifacts' = Append(artifacts, job[d].attempt) /\ job[d] # None
        /\ job' = [job EXCEPT ![d].step = "summary", ![d].made = {Len(artifacts) + 1}]
    BY <1>1, <1>4, StoreSteps DEF StoreArtifacts, At
  <2>2. job'[d].made = {Len(artifacts) + 1} /\ job'[d].attempt = job[d].attempt
    BY <1>1, <2>1 DEF Job
  <2>3. /\ Len(artifacts) + 1 \in DOMAIN artifacts'
        /\ artifacts'[Len(artifacts) + 1] = job[d].attempt
    BY <1>1, <2>1
  <2> QED BY <2>2, <2>3 DEF AllStored, StoredOf
<1>5. CASE Thread(d) /\ step = "evidence"
  <2>1. StoreSummary(d) /\ At(d, "summary")
    BY <1>1, <1>5, StoreSteps DEF StoreSummary
  <2>2. job'[d].made = job[d].made /\ job'[d].attempt = job[d].attempt
    BY <1>1, <2>1 DEF StoreSummary, Goto, At, Job
  <2> QED BY <1>2, <2>1, <2>2 DEF ThreadsStored
<1> QED BY <1>3, <1>4, <1>5

(* Only a thread writes summaries and evidence, of its own attempt.         *)
LEMMA OnlyThreadsStore ==
  ASSUME TypeOK, [Next]_vars, NEW a \in Attempt
  PROVE  /\ summary'[a] # summary[a] =>
              \E d \in Dispatcher : /\ job[d] # None /\ job[d].attempt = a
                                    /\ RecordWaiting(d) \/ StoreSummary(d)
         /\ evidence'[a] # evidence[a] =>
              \E d \in Dispatcher : /\ job[d] # None /\ job[d].attempt = a /\ StoreEvidence(d)
<1>1. /\ summary \in [Attempt -> Summary \cup {None}]
      /\ evidence \in [Attempt -> {None} \cup SUBSET Nat]
      /\ \A d \in Dispatcher : job[d] # None => job[d].attempt \in Attempt
  BY DEF TypeOK, Job
<1>2. CASE UNCHANGED <<summary, evidence>>
  BY <1>2
<1>3. CASE Workflow
  BY <1>2, <1>3 DEF Workflow, TaskGate, TaskGateTimeout, Dispatch, DispatchInvalid, Resume,
     ApprovalTimeout, ActivityTimeout, storeVars
<1>4. ASSUME NEW d \in Dispatcher, Thread(d),
             ~(RecordWaiting(d) \/ StoreSummary(d) \/ StoreEvidence(d))
      PROVE  UNCHANGED <<summary, evidence>>
  BY <1>4 DEF Thread, GateAsks, GateGrants, Execute, ExecuteRaises, Check, StoreArtifacts,
     ProcessDies, storeVars
<1>5. ASSUME NEW d \in Dispatcher, RecordWaiting(d) \/ StoreSummary(d)
      PROVE  evidence' = evidence /\ job[d] # None /\ (summary'[a] # summary[a] => job[d].attempt = a)
  BY <1>1, <1>5 DEF RecordWaiting, StoreSummary, At
<1>6. ASSUME NEW d \in Dispatcher, StoreEvidence(d)
      PROVE  summary' = summary /\ job[d] # None /\ (evidence'[a] # evidence[a] => job[d].attempt = a)
  BY <1>1, <1>6 DEF StoreEvidence, At
<1>7. CASE ApiDispatch \/ People
  BY <1>2, <1>7, PeopleStayAway
<1>8. CASE UNCHANGED vars
  BY <1>2, <1>8 DEF vars
<1> QED BY <1>2, <1>3, <1>4, <1>5, <1>6, <1>7, <1>8 DEF Next

(* The evidence of an attempt is written after its summary, and nobody else *)
(* writes a summary of that attempt in between.                             *)
LEMMA ActivitySummedStep ==
  ASSUME IInv, ActivitySummed, [Next]_vars
  PROVE  ActivitySummed'
<1> SUFFICES ASSUME At("activity", "evidence")'
             PROVE  /\ summary'[job'["activity"].attempt] # None
                    /\ summary'[job'["activity"].attempt].artifacts = job'["activity"].made
  BY DEF ActivitySummed
<1>1. TypeOK /\ "activity" \in Dispatcher /\ job \in [Dispatcher -> Job \cup {None}]
  BY DEF IInv, TypeOK, Dispatcher
<1>2. CASE ~Thread("activity")
  <2>1. /\ At("activity", "evidence")
        /\ job'["activity"].attempt = job["activity"].attempt
        /\ job'["activity"].made = job["activity"].made
    BY <1>1, <1>2, OthersLeaveThreads DEF Step
  <2>2. job["activity"].attempt \in Attempt \ {ApiAttempt}
    BY <2>1, ActivityAttempt DEF At
  <2>3. summary'[job["activity"].attempt] = summary[job["activity"].attempt]
    BY <1>1, <1>2, <2>2, OnlyThreadsStore DEF IInv, ApiIsNobodys, Dispatcher, Thread
  <2> QED BY <2>1, <2>3 DEF ActivitySummed
<1>3. CASE Thread("activity")
  <2>1. StoreSummary("activity") /\ job["activity"] # None
    BY <1>1, <1>3, StoreSteps DEF StoreSummary, At
  <2>2. /\ job'["activity"].attempt = job["activity"].attempt
        /\ job'["activity"].made = job["activity"].made
    BY <1>1, <2>1 DEF StoreSummary, Goto, Job
  <2>3. job["activity"].attempt \in Attempt /\ summary \in [Attempt -> Summary \cup {None}]
    BY <1>1, <2>1, ActivityAttempt DEF TypeOK
  <2>4. summary'[job["activity"].attempt] =
          [status |-> job["activity"].status, row |-> 0, artifacts |-> job["activity"].made]
    BY <2>1, <2>3 DEF StoreSummary
  <2>5. summary'[job["activity"].attempt] # None
    <3>1. job["activity"] \in Job
      BY <1>1, <2>1
    <3>2. summary'[job["activity"].attempt] \in Summary
      BY <2>4, <3>1 DEF Job, Summary
    <3> QED BY <3>2, NoneAssumption
  <2> QED BY <2>2, <2>4, <2>5
<1> QED BY <1>2, <1>3

(* A summary names an approval that is requested, or artifacts that are     *)
(* stored.                                                                  *)
LEMMA SummariesStep ==
  ASSUME IInv, ThreadsStored, SummariesStored, [Next]_vars
  PROVE  SummariesStored'
<1>1. /\ TypeOK /\ job \in [Dispatcher -> Job \cup {None}]
      /\ summary \in [Attempt -> Summary \cup {None}]
  BY DEF IInv, TypeOK
<1>2. /\ \A made, a : AllStored(made, a) => AllStored(made, a)'
      /\ \A i, a : Requested(i, a) => Requested(i, a)'
  BY <1>1, OnlyGrows DEF AllStored
<1> SUFFICES ASSUME NEW a \in Attempt, summary'[a] # None
             PROVE  /\ AllStored(summary[a].artifacts, a)'
                    /\ summary'[a].status = "waiting_approval" => Requested(summary[a].row, a)'
  BY DEF SummariesStored
<1>3. CASE summary'[a] = summary[a]
  BY <1>2, <1>3 DEF SummariesStored
<1>4. ASSUME NEW d \in Dispatcher, job[d] # None, job[d].attempt = a, RecordWaiting(d)
      PROVE  /\ AllStored(summary[a].artifacts, a)'
             /\ summary'[a].status = "waiting_approval" => Requested(summary[a].row, a)'
  <2>1. summary'[a] = [status |-> "waiting_approval", row |-> job[d].row, artifacts |-> {}]
    BY <1>1, <1>4 DEF RecordWaiting
  <2>2. Requested(job[d].row, a)
    BY <1>4 DEF RecordWaiting, IInv, RequestsOwn
  <2> QED BY <1>2, <2>1, <2>2 DEF AllStored
<1>5. ASSUME NEW d \in Dispatcher, job[d] # None, job[d].attempt = a, StoreSummary(d)
      PROVE  /\ AllStored(summary[a].artifacts, a)'
             /\ summary'[a].status = "waiting_approval" => Requested(summary[a].row, a)'
  <2>1. summary'[a] = [status |-> job[d].status, row |-> 0, artifacts |-> job[d].made]
    BY <1>1, <1>5 DEF StoreSummary
  <2>2. AllStored(job[d].made, a) /\ job[d].status # "waiting_approval"
    BY <1>1, <1>5 DEF StoreSummary, ThreadsStored, Job, Result
  <2> QED BY <1>2, <2>1, <2>2
<1> QED BY <1>1, <1>3, <1>4, <1>5, OnlyThreadsStore

(* What is settled stays so: an attempt that is over is not taken up again. *)
LEMMA StaysSettled ==
  ASSUME IInv, [Next]_vars, NEW a \in 1 .. MaxAttempts, Settled(a)
  PROVE  Settled(a)'
<1>1. TypeOK /\ cur \in 1 .. MaxAttempts /\ MaxAttempts \in Nat
  BY FlowAssumption DEF IInv, TypeOK
<1>2. CASE UNCHANGED <<cur, wf>> /\ job'["activity"] = job["activity"]
  BY <1>2 DEF Settled
<1>3. AttemptFails => cur' \in {cur, cur + 1}
  BY DEF AttemptFails
<1>4. cur' \in {cur, cur + 1} /\ a < cur => Settled(a)'
  BY <1>1 DEF Settled
<1>5. CASE Workflow
  <2>1. wf # "ended" /\ cur' \in {cur, cur + 1}
    BY <1>3, <1>5 DEF Workflow, TaskGate, TaskGateTimeout, Dispatch, DispatchInvalid, Resume,
       ApprovalTimeout, ActivityTimeout
  <2> QED BY <1>4, <2>1 DEF Settled
<1>6. ASSUME NEW d \in Dispatcher, Thread(d) PROVE Settled(a)'
  <2>1. CASE d = "api"
    BY <1>1, <1>2, <1>6, <2>1, ThreadWorks DEF Dispatcher
  <2>2. CASE d = "activity"
    <3>1. job["activity"] # None /\ cur' \in {cur, cur + 1}
      BY <1>1, <1>3, <1>6, <2>2, ThreadWorks DEF Thread, GateAsks, RecordWaiting, GateGrants,
         Execute, ExecuteRaises, Check, StoreArtifacts, StoreSummary, StoreEvidence,
         ProcessDies, flowVars
    <3> QED BY <1>4, <3>1 DEF Settled
  <2> QED BY <2>1, <2>2 DEF Dispatcher
<1>7. CASE ApiDispatch \/ People
  BY <1>1, <1>2, <1>7, PeopleStayAway
<1>8. CASE UNCHANGED vars
  BY <1>2, <1>8 DEF vars
<1> QED BY <1>5, <1>6, <1>7, <1>8 DEF Next

(* Evidence is the last of the three transactions: its attempt is over.     *)
LEMMA EvidenceStep ==
  ASSUME IInv, ActivitySummed, EvidenceStored, [Next]_vars
  PROVE  EvidenceStored'
<1>1. /\ TypeOK /\ job \in [Dispatcher -> Job \cup {None}] /\ cur \in 1 .. MaxAttempts
      /\ summary \in [Attempt -> Summary \cup {None}] /\ MaxAttempts \in Nat
      /\ evidence \in [Attempt -> {None} \cup SUBSET Nat]
  BY FlowAssumption DEF IInv, TypeOK
<1> SUFFICES ASSUME NEW a \in Attempt \ {ApiAttempt}, evidence'[a] # None
             PROVE  /\ Settled(a)' /\ summary'[a] # None
                    /\ summary'[a].artifacts = evidence'[a]
  BY DEF EvidenceStored
<1>2. a \in 1 .. MaxAttempts
  BY <1>1 DEF Attempt, ApiAttempt
<1>3. \A d \in Dispatcher : job[d] # None /\ job[d].attempt = a => d = "activity" /\ a = cur
  BY ActivityAttempt DEF IInv, ApiIsNobodys, Dispatcher
<1>4. CASE evidence'[a] = evidence[a]
  <2>1. Settled(a) /\ Settled(a)' /\ summary[a] # None /\ summary[a].artifacts = evidence[a]
    BY <1>2, <1>4, StaysSettled DEF EvidenceStored
  <2>2. summary'[a] = summary[a]
    BY <1>1, <1>3, <2>1, OnlyThreadsStore DEF Settled
  <2> QED BY <1>4, <2>1, <2>2
<1>5. CASE evidence'[a] # evidence[a]
  <2>1. /\ StoreEvidence("activity") /\ a = cur /\ job["activity"] # None
        /\ job["activity"].attempt = a
    BY <1>1, <1>3, <1>5, OnlyThreadsStore
  <2>2. evidence'[a] = job["activity"].made /\ summary' = summary
    BY <1>1, <2>1 DEF StoreEvidence
  <2>3. summary[a] # None /\ summary[a].artifacts = job["activity"].made
    BY <2>1 DEF StoreEvidence, ActivitySummed
  <2>4. Settled(a)'
    <3>1. job'["activity"] = None
      BY <1>1, <2>1 DEF StoreEvidence, Done, Dispatcher
    <3>2. CASE ~Awaited("activity") /\ UNCHANGED <<wf, cur>>
      BY <2>1, <3>1, <3>2 DEF Awaited, IInv, ActivityIsCurrent, Settled
    <3>3. CASE wf' = "ended" /\ UNCHANGED cur
      BY <2>1, <3>1, <3>3 DEF Settled
    <3>4. CASE cur' = cur + 1
      BY <1>1, <2>1, <3>4 DEF Settled
    <3> QED
      BY <2>1, <3>2, <3>3, <3>4 DEF StoreEvidence, AttemptFails
  <2> QED BY <2>2, <2>3, <2>4
<1> QED BY <1>4, <1>5

(* What is stored of a result is backed (ApprovalFlow!ResultsBacked),       *)
(* wherever between the three transactions the process dies, and whether or *)
(* not anybody still waits for the result.                                  *)
THEOREM ResultsAreBacked == Spec => []ResultsBacked
<1>1. Init => ResultsStored
  BY DEF Init, ResultsStored, ThreadsStored, ActivitySummed, SummariesStored, EvidenceStored,
     At, Dispatcher
<1>2. ResultsStored /\ IInv /\ [Next]_vars => ResultsStored'
  BY ThreadsStoredStep, ActivitySummedStep, SummariesStep, EvidenceStep DEF ResultsStored
<1>3. ResultsStored => ResultsBacked
  BY DEF ResultsStored, SummariesStored, EvidenceStored, AllStored, StoredOf, Requested,
     ResultsBacked
<1> QED BY <1>1, <1>2, <1>3, Invariance, PTL DEF Spec
=============================================================================
