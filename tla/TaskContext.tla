----------------------------- MODULE TaskContext -----------------------------
(***************************************************************************)
(* The context of each attempt of the task of ApprovalFlow: the workflow    *)
(* has it assembled before the first dispatch of an attempt                 *)
(* (definitions/base.py, assemble_context_activity), out of the summaries   *)
(* the threads of earlier attempts have stored.                             *)
(***************************************************************************)
EXTENDS ApprovalFlow, Context

CONSTANTS
  Known,     \* what the database may hold beside the attempts
  Requests   \* the limits a run's metadata may set

(* The fields of an AssemblyRequest that a run's metadata sets.             *)
AssemblyLimits ==
  [facts : Nat \ {0}, attempts : Nat \ {0}, memory : Nat \ {0}, blocks : Nat \ {0},
   tokens : Nat, broker : BOOLEAN]

ASSUME ContextAssumption ==
  Requests \subseteq AssemblyLimits /\ \A q \in Requests : q.tokens >= 100

(* Rows have texts of some length, and a recall returns texts with scores.  *)
ASSUME KnownAssumption ==
  \A k \in Known :
    /\ {k.title.length, k.description.length, k.reason} \subseteq Nat
    /\ Len(k.runs) \in Nat /\ DOMAIN k.runs = 1 .. Len(k.runs)
    /\ Len(k.memory) \in Nat /\ DOMAIN k.memory = 1 .. Len(k.memory)
    /\ \A i \in DOMAIN k.runs : k.runs[i] \in Nat
    /\ \A i \in DOMAIN k.memory : k.memory[i].text.length \in Nat /\ k.memory[i].score \in Int

(* build_context_assembly_payload: the workspace is a worktree.             *)
AssemblyRequest(q, gated) ==
  [facts |-> q.facts, attempts |-> q.attempts, memory |-> q.memory, blocks |-> q.blocks,
   tokens |-> q.tokens, approval |-> gated, broker |-> q.broker, readOnly |-> FALSE]

(* What a summary is listed as: the reason of a failure if it has one, or   *)
(* else its status.                                                         *)
AttemptText(k, status) ==
  IF status = "failed_retryable" /\ k.reason > 0 THEN Say(<<"reason">>, k.reason)
  ELSE Say(<<"attempt", status>>, 24)

(* AttemptStore.list_attempts of the task, newest first: the statuses.      *)
ListAttempts ==
  LET stored == {a \in Attempt \ {ApiAttempt} : summary[a] # None}
      newest(n) == CHOOSE a \in stored : Cardinality({b \in stored : b >= a}) = n
  IN [n \in 1 .. Cardinality(stored) |-> summary[newest(n)].status]

Statuses == UNION {[1 .. n -> {"waiting_approval", "failed_retryable", "completed"}]
                   : n \in 0 .. MaxAttempts}

(* What the queries of an assembly find.                                    *)
Records(k, statuses) ==
  [title |-> k.title, description |-> k.description, runs |-> k.runs, memory |-> k.memory,
   attempts |-> [i \in DOMAIN statuses |-> AttemptText(k, statuses[i])]]

(* assemble, for each gate and history: found once for all states.          *)
Assembled(k, q, gated, statuses) ==
  BuildFromRecords(Records(k, statuses), AssemblyRequest(q, gated))

-----------------------------------------------------------------------------

(* A block with all of the text, or as much as one block holds.             *)
Shows(blocks, text) ==
  \E i \in DOMAIN blocks :
    /\ blocks[i].name = text.name
    /\ blocks[i].length = Least(text.length, MaxBody)

Binding(q, gated) ==
  (IF q.broker THEN {} ELSE {NoSecretBroker}) \cup (IF gated THEN {WriteApproval} ELSE {})

Informs(k, q, gated, statuses) ==
  LET blocks == Assembled(k, q, gated, statuses)
      told(i) == Shows(blocks, AttemptText(k, statuses[i]))
      bound == \A c \in Binding(q, gated) : Shows(blocks, c)
      remembers == \E i \in DOMAIN blocks : blocks[i].level = 3
  IN /\ blocks # << >>
     /\ remembers => (q.blocks >= 3 => bound) /\ (statuses # << >> => told(1))
     /\ q.tokens >= 280 * q.blocks =>
          /\ q.blocks >= 3 => bound
          /\ \A i \in 1 .. Least(q.attempts, Least(q.blocks, Len(statuses))) : told(i)

(* A set and not a function, so that it is computed only once.              *)
Informed ==
  {<<gated, statuses, \A k \in Known, q \in Requests : Informs(k, q, gated, statuses)>>
   : gated \in BOOLEAN, statuses \in Statuses}

(* An attempt that starts is told how the attempts before it ended and      *)
(* which constraints bind it: each of them has left its summary by then,    *)
(* whichever way it ended.  What limits and budget drop is never a          *)
(* constraint or the attempt just before while something recalled stays,    *)
(* in a level with places for the summary and two constraints.              *)
AttemptInformed ==
  wf = "dispatch" /\ ~Granted =>
    /\ Len(ListAttempts) = cur - 1
    /\ <<policy.gated, ListAttempts, TRUE>> \in Informed
=============================================================================
