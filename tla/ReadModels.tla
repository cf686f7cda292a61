----------------------------- MODULE ReadModels ------------------------------
(***************************************************************************)
(* What the API shows of a run: the task graph                              *)
(* (runtime_persistence/projectors.py) and the recovery times of            *)
(* runtime_sla_snapshot, both computed from the events the workflow emitted *)
(* and not from the rows it wrote.  The module adds to WorkflowRun the log  *)
(* of its events.  An event is logged by the activity after the one that    *)
(* wrote the row, and some changes of a row have no event.                  *)
(*                                                                          *)
(* Answers are not lost here (EventLog says what a lost answer does to the  *)
(* log), and events that say nothing about a status, a graph, a retry or an *)
(* approval are left out.                                                   *)
(***************************************************************************)
EXTENDS GraphRun, Notifications, FiniteSetsExt

VARIABLE log

readVars == <<vars, graphVars, noteVars, log>>

(* A graph event lists every task, none or one of them with a status.       *)
(* Of a checklist (todo) it says what its items amount to.                  *)
Event == [kind : {"graph", "status", "todo", "retrying", "requested", "resolved"},
          task : Task \cup {NoTask}, status : TaskStatus \cup {"none"}]
Entry(kind, t, s) == [kind |-> kind, task |-> t, status |-> s]

(* The task events: where the workflow is about to emit one, and the        *)
(* status it carries.                                                       *)
StatusAt ==
  [claimedEv |-> "claimed", reclaimEv |-> "reclaimed", runEv |-> "running",
   grantEv |-> "running", failEv |-> "failed", verifyEv |-> "verifying",
   finishEv |-> "completed"]

(* wait_for_approval returned, the answer is logged; a timeout is not.      *)
AnswerTaken ==
  /\ pc \in {"gateWait", "askWait"}
  /\ pc' \in {"gateOpen", "grantRun"} \/ outcome' = "approval_rejected"

Graph == <<Entry("graph", cur[1], ts)>>
Todo(s) == <<Entry("todo", cur[1], s)>>

(* The events of a step of the workflow.                                    *)
Emitted ==
  LET Nothing == << >>
      status == IF pc \in DOMAIN StatusAt
                THEN <<Entry("status", cur[1], StatusAt[pc])>> ELSE Nothing
      graph == IF pc = "dispatch" /\ pc' = "verify" THEN Graph ELSE Nothing
      todo == IF pc' = "failTask" THEN Todo("failed")
              ELSE IF pc \in {"todo", "runEv"} \/ graph # Nothing THEN Todo("running")
              ELSE IF pc = "release" THEN Todo("completed") ELSE Nothing
  IN IF pc' \in {pc, "crashed"} THEN Nothing
     ELSE CASE pc = "started" -> <<Entry("graph", NoTask, "none")>>
            [] pc \in {"againEv", "retryEv"} -> <<Entry("retrying", cur[1], "none")>>
            [] pc = "askEv" -> <<Entry("requested", cur[1], "none")>>
            [] AnswerTaken -> <<Entry("resolved", cur[1], "none")>>
            [] OTHER -> status \o todo \o graph

ReadInit == Init /\ GraphInit /\ NoteInit /\ log = << >>

(* A step of the workflow; its last one leads to the notification.  An      *)
(* executor that asks for an approval twice leaves the checklist as it was. *)
WorkflowStep ==
  /\ RunStep
  /\ \/ log' = log \o Emitted
     \/ granted /\ pc = "dispatch" /\ pc' = "failTask" /\ UNCHANGED log
  /\ IF pc = "completedEv" /\ pc' = "done" THEN StartSending
     ELSE UNCHANGED noteVars

(* A step of the graph of a task; its result updates the task graph.        *)
GraphActivity ==
  /\ GraphStep
  /\ log' = IF gpc' = "done" THEN log \o Todo("running") \o Graph ELSE log
  /\ UNCHANGED <<vars, noteVars>>

NotificationActivity == NoteStep /\ UNCHANGED <<vars, graphVars, log>>

ReadNext == WorkflowStep \/ GraphActivity \/ NotificationActivity
ReadSpec == ReadInit /\ [][ReadNext]_readVars

-----------------------------------------------------------------------------
(* TaskGraphProjector.project                                               *)

Indices(l, P(_)) == {i \in DOMAIN l : P(l[i])}
GraphsIn(l) == Indices(l, LAMBDA e : e.kind = "graph")
StatusesIn(l, t) == Indices(l, LAMBDA e : e.kind = "status" /\ e.task = t)

(* Mutant of Node: the graph says the same of every task.                   *)
NodeOfEvery(e, t) == IF e.status = "none" THEN "queued" ELSE e.status

(* What a graph event says of a task: every task but its own is queued.     *)
Node(e, t) == IF e.task = t THEN e.status ELSE "queued"

(* Mutant of Shown: only what came after the graph is replayed on it.       *)
ShownSinceGraph(l, rows, t) ==
  IF GraphsIn(l) = {} THEN rows[t]
  ELSE LET g == Max(GraphsIn(l))
           S == {i \in StatusesIn(l, t) : i > g} IN
         IF S = {} THEN Node(l[g], t) ELSE l[Max(S)].status

(* The latest graph, and on it every event of the run in order, those from  *)
(* before that graph included; the task rows while there is no graph.       *)
Shown(l, rows, t) ==
  IF GraphsIn(l) = {} THEN rows[t]
  ELSE IF StatusesIn(l, t) = {} THEN Node(l[Max(GraphsIn(l))], t)
  ELSE l[Max(StatusesIn(l, t))].status

(* The checklist of a task: the last one logged, over that of the graph.    *)
Checklist(l, t) ==
  LET S == Indices(l, LAMBDA e : e.kind = "todo" /\ e.task = t) IN
    IF S = {} THEN "queued" ELSE l[Max(S)].status

-----------------------------------------------------------------------------
(* runtime_sla_snapshot                                                     *)

Failure(e, t) == e = Entry("status", t, "failed")
Claimed(e, t) == e = Entry("status", t, "claimed")

(* Mutant of Pairing: a claim leaves the failure it answers pending.        *)
PairingKeepsPending(acc, e, n, t) ==
  CASE Failure(e, t) -> [acc EXCEPT !.pending = Append(@, n)]
    [] Claimed(e, t) /\ acc.pending # << >> ->
         [acc EXCEPT !.pairs = @ \cup {<<Head(acc.pending), n>>}]
    [] OTHER -> acc

(* What event n of a window makes of the failures that are pending and of   *)
(* the recoveries: a failure is queued, the next claim takes the oldest one.*)
Pairing(acc, e, n, t) ==
  CASE Failure(e, t) -> [acc EXCEPT !.pending = Append(@, n)]
    [] Claimed(e, t) /\ acc.pending # << >> ->
         [pending |-> Tail(acc.pending), pairs |-> acc.pairs \cup {<<Head(acc.pending), n>>}]
    [] OTHER -> acc

(* The recoveries of a task in a window.                                    *)
Pair(l, t) ==
  LET upTo[n \in 0 .. Len(l)] ==
        IF n = 0 THEN [pending |-> << >>, pairs |-> {}]
        ELSE Pairing(upTo[n - 1], l[n], n, t)
  IN upTo[Len(l)].pairs

Windows == {SubSeq(log, n, Len(log)) : n \in 1 .. Len(log) + 1}

-----------------------------------------------------------------------------

(* The graph follows the rows: a task the workflow is not working on is     *)
(* shown as its row reads, unless the closing of the run took it out of     *)
(* flight, for which there is no event.  A task that reads completed has    *)
(* its checklist done.                                                      *)
GraphFollowsRows ==
  \A t \in Task :
    \/ /\ Shown(log, task, t) = task[t]
       /\ task[t] = "completed" => Checklist(log, t) = "completed"
    \/ cur # NoAttempt /\ t = cur[1] /\ pc \notin {"select", "done"}
    \/ Shown(log, task, t) \in Inflight /\ \E r \in TerminalRun : task[t] = ClosedAs(r)

(* A task shown as completed is never shown otherwise again, although each  *)
(* graph the workflow publishes afterwards lists it as queued.              *)
CompletedStaysShown ==
  [][\A t \in Task : Shown(log, task, t) = "completed"
       => Shown(log', task', t) = "completed"]_readVars

(* A recovery is measured, when a claim is logged, from the last failure     *)
(* before the claim, whatever the window cuts off: no older failure of the  *)
(* task is left pending.                                                    *)
RecoveryFromLastFailure ==
  \A t \in Task : (log # << >> /\ Claimed(Last(log), t)) =>
    \A w \in Windows : \A p \in Pair(w, t) :
      \A i \in p[1] + 1 .. p[2] : ~Failure(w[i], t)
=============================================================================
