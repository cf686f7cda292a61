------------------------------ MODULE GraphRun -------------------------------
(***************************************************************************)
(* The graph executions of a run (agent_runtime/service.py): what a task    *)
(* without an executor does between the row that reads running and the      *)
(* transition to verifying.  A graph is prepare, then finalize.  A task of  *)
(* simulation.interrupt_task_ids stops before finalize: the activity stores *)
(* a checkpoint row and answers with its id, and a second activity resumes  *)
(* from it.                                                                 *)
(*                                                                          *)
(* Two stores are written, in transactions of their own: the thread of      *)
(* LangGraph, one snapshot per step, named after the attempt; and the rows  *)
(* of runtime_graph_checkpoints.  An execution may be cut anywhere, by a    *)
(* worker that dies or an answer that is lost, and is then repeated from    *)
(* its beginning.  Nothing reads the thread or the rows of an earlier       *)
(* attempt again, so they are forgotten with it.                            *)
(***************************************************************************)
EXTENDS WorkflowRun, Sequences, SequencesExt

CONSTANTS
  Interrupting,  \* request.simulation.interrupt_task_ids
  Durable,       \* LangGraph saves to Postgres, not in the worker's memory
  MaxRepeats     \* bound: executions of an attempt that are cut

ASSUME GraphAssumption ==
  Interrupting \subseteq Task /\ Durable \in BOOLEAN /\ MaxRepeats \in Nat

VARIABLES
  gpc,     \* where the graph execution of the attempt is
  thread,  \* the snapshots of its thread
  head,    \* the snapshot the execution runs from
  checkpoints,  \* the checkpoint rows of the attempt
  held,    \* the checkpoint_id the workflow was answered with, 0 for none
  steps,   \* the step_log of the completed result
  repeats

graphVars == <<gpc, thread, head, checkpoints, held, steps, repeats>>

GraphPc == {"none", "prepare", "finalize", "save", "answer", "interrupted",
            "mark", "resume", "done"}

GraphInit ==
  /\ gpc = "none" /\ thread = << >> /\ head = 0 /\ checkpoints = << >>
  /\ held = 0 /\ steps = << >> /\ repeats = 0

(* The attempt is at its graph execution.                                   *)
AtGraph == pc = "verify" /\ cur[1] \notin req.executor

Walk(from, to) == AtGraph /\ gpc = from /\ gpc' = to

(* A node, or the input, leaves a snapshot of the state and what is next.   *)
Snapshot(log, next) ==
  /\ thread' = Append(thread, [log |-> log, next |-> next])
  /\ head' = Len(thread) + 1

(* Mutant of Invoke: the state of a repeated execution is added to.         *)
InvokeKeepsState ==
  /\ Walk("none", "prepare")
  /\ Snapshot(IF thread = << >> THEN << >> ELSE Last(thread).log, "prepare")
  /\ UNCHANGED <<checkpoints, held, steps, repeats>>

(* invoke(initial_state): the state of a repeated execution is replaced.    *)
Invoke ==
  /\ Walk("none", "prepare")
  /\ Snapshot(<< >>, "prepare")
  /\ UNCHANGED <<checkpoints, held, steps, repeats>>

PrepareNode ==
  /\ Walk("prepare", IF cur[1] \in Interrupting THEN "save" ELSE "finalize")
  /\ Snapshot(Append(thread[head].log, "prepare"), "finalize")
  /\ UNCHANGED <<checkpoints, held, steps, repeats>>

FinalizeNode ==
  /\ Walk("finalize", "answer")
  /\ Snapshot(Append(thread[head].log, "finalize"), "end")
  /\ UNCHANGED <<checkpoints, held, steps, repeats>>

(* save_graph_checkpoint: a row of its own for every execution.             *)
NewRow == [snapshot |-> head, resumed |-> FALSE]

SaveCheckpoint ==
  /\ Walk("save", "answer")
  /\ checkpoints' = Append(checkpoints, NewRow)
  /\ UNCHANGED <<thread, head, held, steps, repeats>>

AnswerInterrupted ==
  /\ Walk("answer", "interrupted")
  /\ thread[head].next = "finalize"
  /\ held' = Len(checkpoints)
  /\ UNCHANGED <<thread, head, checkpoints, steps, repeats>>

AnswerCompleted ==
  /\ Walk("answer", "done")
  /\ thread[head].next = "end"
  /\ steps' = thread[head].log
  /\ UNCHANGED <<thread, head, checkpoints, held, repeats>>

(* load_graph_checkpoint, which does not ask whether the row was resumed.   *)
LoadCheckpoint ==
  /\ Walk("interrupted", "mark")
  /\ UNCHANGED <<thread, head, checkpoints, held, steps, repeats>>

MarkResumed ==
  /\ Walk("mark", "resume")
  /\ checkpoints' = [checkpoints EXCEPT ![held].resumed = TRUE]
  /\ UNCHANGED <<thread, head, held, steps, repeats>>

(* The row names its thread and the snapshot to go on from.                 *)
Located == checkpoints[held].snapshot \in DOMAIN thread

(* Mutant of Resume: it goes on from the end of the thread.                 *)
ResumeLatest ==
  /\ Walk("resume", "finalize")
  /\ Located
  /\ head' = Len(thread)
  /\ UNCHANGED <<thread, checkpoints, held, steps, repeats>>

(* invoke(None) at the snapshot of the row; a thread that is gone raises,   *)
(* and the activity is run again.                                           *)
Resume ==
  /\ Walk("resume", "finalize")
  /\ Located
  /\ head' = checkpoints[held].snapshot
  /\ UNCHANGED <<thread, checkpoints, held, steps, repeats>>

(* What is left of a thread: a worker that dies takes along what it had in  *)
(* memory.                                                                  *)
Saved == {thread} \cup (IF Durable THEN {} ELSE {<< >>})

(* The execution is cut and will be repeated.                               *)
Cut ==
  /\ AtGraph /\ gpc \notin {"none", "done"}
  /\ repeats < MaxRepeats
  /\ repeats' = repeats + 1
  /\ gpc' = IF held = 0 THEN "none" ELSE "interrupted"
  /\ thread' \in Saved
  /\ UNCHANGED <<head, checkpoints, held, steps>>

GraphStep ==
  \/ Invoke \/ PrepareNode \/ FinalizeNode \/ SaveCheckpoint
  \/ AnswerInterrupted \/ AnswerCompleted
  \/ LoadCheckpoint \/ MarkResumed \/ Resume \/ Cut

(* A step of the run: it passes its graph execution with the result only,   *)
(* and forgets it with the attempt.                                         *)
RunStep ==
  /\ Next
  /\ AtGraph /\ pc' = "verifyEv" => gpc = "done"
  /\ IF pc' = pc THEN UNCHANGED graphVars
     ELSE /\ gpc' = "none" /\ thread' = << >> /\ head' = 0 /\ checkpoints' = << >>
          /\ held' = 0 /\ steps' = << >> /\ repeats' = 0

-----------------------------------------------------------------------------

(* The result a task goes on with comes from one pass through the graph of  *)
(* its own attempt, however often an execution was cut, and of the rows the *)
(* cut executions left only the one answered is ever resumed.               *)
GraphRunsOnce ==
  /\ gpc = "done" => steps = <<"prepare", "finalize">>
  /\ \A i \in DOMAIN checkpoints : checkpoints[i].resumed => i = held
=============================================================================
