---------------------------- MODULE MCWorkflowRun ---------------------------
(***************************************************************************)
(* Small requests for WorkflowRun: two tasks and the shapes of plan and     *)
(* task that the workflow treats differently.                               *)
(***************************************************************************)
EXTENDS WorkflowRun, FiniteSets

CONSTANTS t1, t2

Plain == [deps |-> [t \in Task |-> {}], executor |-> {}, gated |-> {},
          reclaim |-> {}, retry |-> {}, terminal |-> {}]

After(r) == [r EXCEPT !.deps = [t \in Task |-> IF t = t2 THEN {t1} ELSE {}]]

(* An executor task, then a graph task that is retried in place.            *)
Chain == [After(Plain) EXCEPT !.executor = {t1}, !.retry = {t2}]
(* A gated executor task and an independent task.                           *)
Gated == [Plain EXCEPT !.gated = {t1}, !.executor = {t1}]
(* Stale leases, then a terminal failure.                                   *)
Rough == [After(Plain) EXCEPT !.reclaim = {t1}, !.terminal = {t2}]
Failing == [Plain EXCEPT !.terminal = {t1, t2}, !.retry = {t1}]
Loop == [Plain EXCEPT !.deps = [t \in Task |-> IF t = t1 THEN {t2} ELSE {t1}]]
Dangling == [Plain EXCEPT !.deps = [t \in Task |-> IF t = t1 THEN {NoTask} ELSE {}]]

AllRequests == {Chain, Gated, Rough, Failing, Loop, Dangling}
GatedOnly == {Gated}
ChainOnly == {Chain}
=============================================================================
