------------------------------ MODULE Execution ------------------------------
(***************************************************************************)
(* One execution by a provider: ExecutorAdapter.execute of codex            *)
(* (providers/codex.py over a session of transports.py), of OpenHands       *)
(* (providers/openhands.py, openhands_runtime.py) and of the agent          *)
(* harnesses (providers/agent_harness.py).                                  *)
(*                                                                          *)
(* A codex session has a coroutine that talks and a task that reads: the    *)
(* reader resolves the future of a request and queues notifications.  A     *)
(* notification is taken to be read when it is sent, for the link keeps the *)
(* order and what is never read is as good as never sent.                   *)
(***************************************************************************)
EXTENDS Naturals, Sequences, FiniteSets

CONSTANTS
  Verify,       \* commands a bundle may ask to verify with
  Texts,        \* what the message of a provider's error can be read as
  Proposed,     \* numbers of proposed commands
  MaxSent       \* bound: notifications the provider sends

ASSUME ExecutionAssumption ==
  /\ Texts \subseteq {"timeout", "denied", "cancel", "other"}
  /\ Proposed \subseteq Nat /\ MaxSent \in Nat

(* fits: an item of the provider has no field but those CodexCompletedItem  *)
(* names; it is a trait of the provider's version.                          *)
JobOf(adapters, transports, simulated, fits, commands) ==
  [adapter : adapters, transport : transports, simulated : simulated,
   fits : fits, commands : commands, verify : SUBSET Verify]
Job ==
  JobOf({"codex"}, {"stdio", "websocket"}, BOOLEAN, BOOLEAN, {0})
    \cup JobOf({"openhands"}, {"none"}, {FALSE}, {TRUE}, Proposed)
    \cup JobOf({"harness"}, {"none"}, BOOLEAN, {TRUE}, {0})

(* A raised exception: an ExecutorTransportError, an HTTP error of httpx or *)
(* another one, with what its text or its class name is searched for.       *)
Error == [class : {"transport", "http", "other"},
          text : {"timeout", "denied", "cancel", "server", "other"}]
None == [class |-> "none", text |-> "none"]
Raised(class, text) == [class |-> class, text |-> text]
AnyText == Texts \cup {"other"}

(* What a notification says; "ran" is a commandExecution item.              *)
Saying ==
  {<<"message">>, <<"item">>, <<"retrying">>, <<"completed">>}
    \cup {<<"error", t>> : t \in Texts} \cup {<<"failed", t>> : t \in Texts}
    \cup {<<"ran", c, z>> : c \in Verify, z \in BOOLEAN}
Note == [ours : BOOLEAN, says : Saying]

VARIABLES
  job,
  at,       \* where execute is
  link,     \* the transport: "none", "open", "closed"
  reader,   \* "none", "running", "cancelled", "failed"
  death,    \* what the reader failed with
  notes,    \* the queue of notifications
  sent,     \* how many the provider has sent
  message,  \* final_agent_message has text
  items,    \* completed_items_raw has an item
  error,    \* turn_error
  seen,     \* the last result of each verify command, as far as it is known
  left,     \* OpenHands: commands still to run
  exc,      \* the exception on its way out
  result,
  told,     \* how the provider ended our turn
  truth     \* how each verify command ended when it was last run for us

vars == <<job, at, link, reader, death, notes, sent, message, items, error,
          seen, left, exc, result, told, truth>>
session == <<link, reader, death, notes, sent>>
turn == <<message, items, error, seen>>
ghosts == <<told, truth>>

Nothing == [c \in Verify |-> "none"]
Ended(zero) == IF zero THEN "passed" ELSE "failed"
Pending == [status |-> "none", kind |-> "none", category |-> "none", verdict |-> "none"]

Init ==
  /\ job \in Job
  /\ at = "start" /\ link = "none" /\ reader = "none" /\ death = None
  /\ notes = << >> /\ sent = 0
  /\ message = FALSE /\ items = FALSE /\ error = "none" /\ seen = Nothing
  /\ left = job.commands /\ exc = None /\ result = Pending
  /\ told = "none" /\ truth = Nothing

-----------------------------------------------------------------------------
(* Results.                                                                 *)

(* _classify_failure and _classify_openhands_failure.                       *)
Classify(e) ==
  CASE e.text = "timeout" -> <<"retryable", "provider_timeout">>
    [] e.text = "denied" /\ e.class # "other" -> <<"terminal", "sandbox_denial">>
    [] e.text = "cancel" /\ e.class = "transport" -> <<"terminal", "cancelled">>
    [] e.class = "transport" \/ e.text = "server" -> <<"retryable", "transport_failure">>
    [] OTHER -> <<"terminal", "provider_error">>

Failed(kind, category, verdict) ==
  [status |-> "failed", kind |-> kind, category |-> category, verdict |-> verdict]
Succeeded(verdict) ==
  [status |-> "succeeded", kind |-> "none", category |-> "none", verdict |-> verdict]

(* _map_verification: a command that was not observed has not passed.       *)
Verdict ==
  IF job.verify = {} THEN "none" ELSE Ended(\A c \in job.verify : seen[c] = "passed")

Done(res) ==
  /\ at' = "done" /\ result' = res
  /\ UNCHANGED <<job, session, turn, left, exc, ghosts>>

(* The exception reaches the except clause of execute.                      *)
Caught(e) == Failed(Classify(e)[1], Classify(e)[2], "none")
Raises(e) == Done(Caught(e))

-----------------------------------------------------------------------------
(* The agent harnesses, and the ways out before a provider is called.       *)

HarnessExecute ==
  /\ job.adapter = "harness" /\ at = "start"
  /\ Done(IF job.simulated THEN Succeeded("passed")
          ELSE Failed("terminal", "provider_error", "none"))

CodexSimulated ==
  /\ job.adapter = "codex" /\ at = "start" /\ job.simulated
  /\ Done(Succeeded(IF job.verify = {} THEN "none" ELSE "passed"))

(* _validate_workspace finds the root or a writable path at fault.          *)
CodexPrecheck ==
  /\ job.adapter = "codex" /\ at = "start" /\ ~job.simulated
  /\ Done(Failed("terminal", "provider_error", "none"))

-----------------------------------------------------------------------------
(* The codex session.                                                       *)

Requests == {"initialize", "thread", "turn"}
After == [initialize |-> "thread", thread |-> "turn", turn |-> "reading"]
Awaiting == Requests \cup {"reading", "closing"}

(* transport.open, then the reader is started.                              *)
Open ==
  /\ job.adapter = "codex" /\ at = "start" /\ ~job.simulated
  /\ at' = "initialize" /\ link' = "open" /\ reader' = "running"
  /\ UNCHANGED <<job, death, notes, sent, turn, left, exc, result, ghosts>>

(* No such command, nobody listens, or the handshake takes too long.        *)
OpenFails ==
  /\ job.adapter = "codex" /\ at = "start" /\ ~job.simulated
  /\ \E t \in {"other"} \cup (IF job.transport = "websocket" THEN {"timeout"} ELSE {}) :
       Raises(Raised("other", t))

(* The reader resolves the future of the request.                           *)
Answered ==
  /\ at \in Requests /\ reader = "running"
  /\ at' = After[at]
  /\ UNCHANGED <<job, session, turn, left, exc, result, ghosts>>

(* The body of the session ends with e (or with None, when the turn has     *)
(* ended); __aenter__ is not followed by __aexit__ when it fails.           *)
Leave(e) ==
  /\ at' = IF at = "initialize" THEN "finish" ELSE "exit"
  /\ exc' = e

(* The answer is an error, or lacks what is looked up in it; the request    *)
(* could not be written.                                                    *)
RequestErrors ==
  {Raised("other", "other")}
    \cup (IF reader = "running" THEN {Raised("transport", t) : t \in AnyText} ELSE {})
RequestFails ==
  /\ at \in Requests
  /\ \E e \in RequestErrors : Leave(e)
  /\ UNCHANGED <<job, session, turn, left, result, ghosts>>

(* The provider.  A server behind a websocket has other clients, and tells  *)
(* everyone; our turn is silent once it has ended.                          *)
CanSay(n) ==
  IF n.ours THEN at \in {"turn", "reading"} /\ told = "none"
            ELSE job.transport = "websocket" /\ n.says[1] # "retrying"

Send(n) ==
  /\ job.adapter = "codex" /\ reader = "running" /\ sent < MaxSent
  /\ at \in Requests \cup {"reading"} /\ CanSay(n)
  /\ sent' = sent + 1
  /\ notes' = Append(notes, n)
  /\ told' = IF n.ours /\ n.says[1] \in {"completed", "failed"} THEN n.says[1] ELSE told
  /\ truth' = IF n.ours /\ n.says[1] = "ran"
              THEN [truth EXCEPT ![n.says[2]] = Ended(n.says[3])] ELSE truth
  /\ UNCHANGED <<job, at, link, reader, death, turn, left, exc, result>>

(* _reader_loop raises: the stream ends, a line is not JSON, the socket     *)
(* closes, and on stdio the provider says nothing for startup_timeout.      *)
Deaths(transport) ==
  {Raised("other", "other"), Raised("other", "timeout")}
    \cup (IF transport = "stdio" THEN {Raised("transport", "other")} ELSE {})
ReaderDies ==
  /\ reader = "running" /\ at \in Awaiting \cup {"exit"}
  /\ reader' = "failed" /\ death' \in Deaths(job.transport)
  /\ UNCHANGED <<job, at, link, notes, sent, turn, left, exc, result, ghosts>>

(* Notifications of another thread or another turn are skipped.             *)
MineAny(n) == TRUE
Mine(n) == n.ours

(* An item that CodexCompletedItem refuses is not looked at again, but it   *)
(* counts as one.                                                           *)
Take(n) ==
  LET what == n.says[1] IN
  /\ message' = (message \/ what = "message")
  /\ items' = (items \/ what \in {"item", "ran"})
  /\ error' = IF what \in {"error", "failed"} THEN n.says[2] ELSE error
  /\ seen' = IF what = "ran" /\ job.fits
             THEN [seen EXCEPT ![n.says[2]] = Ended(n.says[3])] ELSE seen
  /\ IF what \in {"completed", "failed"} THEN Leave(None) ELSE UNCHANGED <<at, exc>>

NextNotification ==
  /\ at = "reading" /\ notes # << >>
  /\ notes' = Tail(notes)
  /\ IF Mine(Head(notes)) THEN Take(Head(notes)) ELSE UNCHANGED <<turn, at, exc>>
  /\ UNCHANGED <<job, link, reader, death, sent, left, result, ghosts>>

TimedOut == Raised("other", "timeout")

(* next_notification waits for turn_timeout at most.                        *)
TurnTimeoutEndsLoop ==
  /\ at = "reading" /\ notes = << >>
  /\ Leave(None)
  /\ UNCHANGED <<job, session, turn, left, result, ghosts>>
TurnTimeout ==
  /\ at = "reading" /\ notes = << >>
  /\ Leave(TimedOut)
  /\ UNCHANGED <<job, session, turn, left, result, ghosts>>

(* The wait_for of execute: it cancels the coroutine where it waits.        *)
DispatchTimeoutOfTurn ==
  /\ at \in {"reading", "closing"}
  /\ exc' = TimedOut
  /\ at' = IF at = "closing" THEN "finish" ELSE "exit"
  /\ UNCHANGED <<job, session, turn, left, result, ghosts>>
DispatchTimeout ==
  /\ at \in Awaiting
  /\ exc' = TimedOut
  /\ at' = IF at \in {"initialize", "closing"} THEN "finish" ELSE "exit"
  /\ UNCHANGED <<job, session, turn, left, result, ghosts>>

(* __aexit__ awaits the reader: its exception takes the place of whatever   *)
(* the body ended with, and the transport is not closed.                    *)
ExitReaderDropped ==
  /\ at = "exit" /\ reader = "failed"
  /\ at' = "closing" /\ reader' = "cancelled"
  /\ UNCHANGED <<job, link, death, notes, sent, turn, left, exc, result, ghosts>>
ExitReaderFailed ==
  /\ at = "exit" /\ reader = "failed"
  /\ at' = "finish" /\ exc' = death
  /\ UNCHANGED <<job, session, turn, left, result, ghosts>>
ExitCancelsReader ==
  /\ at = "exit" /\ reader = "running"
  /\ at' = "closing" /\ reader' = "cancelled"
  /\ UNCHANGED <<job, link, death, notes, sent, turn, left, exc, result, ghosts>>
Closed ==
  /\ at = "closing"
  /\ at' = "finish" /\ link' = "closed"
  /\ UNCHANGED <<job, reader, death, notes, sent, turn, left, exc, result, ghosts>>

(* A turn that left neither a message nor an item raises its error; one     *)
(* that left a message is partial.                                          *)
CodexResult ==
  IF exc # None THEN Caught(exc)
  ELSE IF error # "none" /\ ~message /\ ~items THEN Caught(Raised("transport", error))
  ELSE IF error # "none" /\ message THEN Failed("retryable", "partial_execution", Verdict)
  ELSE Succeeded(Verdict)
CodexFinish == job.adapter = "codex" /\ at = "finish" /\ Done(CodexResult)

-----------------------------------------------------------------------------
(* OpenHands.  Commands run one after the other in a thread.                *)

(* simulate_retryable_failure, no workspace configured, and what building   *)
(* the workspace or talking to it raises.                                   *)
WorkspaceErrors ==
  {Raised("transport", t) : t \in AnyText} \cup {Raised("other", "other")}
    \cup {Raised("http", t) : t \in {"timeout", "denied", "server", "other"}}
WorkspaceFails ==
  /\ job.adapter = "openhands" /\ at = "start"
  /\ \E e \in WorkspaceErrors : Raises(e)

EnterWorkspace ==
  /\ job.adapter = "openhands" /\ at = "start"
  /\ at' = "commands"
  /\ UNCHANGED <<job, session, turn, left, exc, result, ghosts>>

(* A call of the workspace that raises httpx.HTTPError.                     *)
CallFails ==
  /\ at \in {"commands", "verifying"}
  /\ \E t \in AnyText : Raises(Raised("transport", t))

(* The command is 0, or the thread goes no further; the command's own text  *)
(* is in the message that is classified.                                    *)
Command(zero, late) ==
  /\ at = "commands" /\ left > 0
  /\ IF zero /\ ~late
     THEN left' = left - 1
          /\ UNCHANGED <<job, at, session, turn, exc, result, ghosts>>
     ELSE \E t \in IF late THEN {"timeout"} ELSE AnyText : Raises(Raised("transport", t))

CommandsDone ==
  /\ at = "commands" /\ left = 0
  /\ at' = "verifying"
  /\ UNCHANGED <<job, session, turn, left, exc, result, ghosts>>

VerifyCommand(c, zero, late) ==
  /\ at = "verifying" /\ c \in job.verify /\ seen[c] = "none"
  /\ seen' = [seen EXCEPT ![c] = Ended(zero /\ ~late)]
  /\ truth' = [truth EXCEPT ![c] = Ended(zero /\ ~late)]
  /\ UNCHANGED <<job, at, session, message, items, error, left, exc, result, told>>

OpenHandsFinish ==
  /\ at = "verifying" /\ \A c \in job.verify : seen[c] # "none"
  /\ Done(Succeeded(Verdict))

-----------------------------------------------------------------------------

Provider ==
  \/ \E n \in Note : Send(n)
  \/ Answered
  \/ ReaderDies

(* What the adapter does by itself, its timers and the calls that have a    *)
(* timeout of their own.                                                    *)
Adapter ==
  \/ HarnessExecute \/ CodexSimulated \/ CodexPrecheck
  \/ Open \/ OpenFails
  \/ NextNotification \/ TurnTimeout \/ DispatchTimeout
  \/ ExitReaderFailed \/ ExitCancelsReader \/ Closed \/ CodexFinish
  \/ WorkspaceFails \/ EnterWorkspace \/ CommandsDone \/ OpenHandsFinish
  \/ \E zero, late \in BOOLEAN :
       Command(zero, late) \/ \E c \in Verify : VerifyCommand(c, zero, late)

Next == Adapter \/ Provider \/ RequestFails \/ CallFails

(* Timers fire and commands end; a provider owes nothing.                   *)
Spec == Init /\ [][Next]_vars /\ WF_vars(Adapter)

-----------------------------------------------------------------------------

TypeOK ==
  /\ job \in Job
  /\ at \in Awaiting \cup {"start", "exit", "finish", "commands", "verifying", "done"}
  /\ link \in {"none", "open", "closed"}
  /\ reader \in {"none", "running", "cancelled", "failed"}
  /\ (reader = "failed") = (death # None)
  /\ exc \in Error \cup {None}
  /\ (result = Pending) = (at # "done")
  /\ result.status = "failed" <=> result.kind # "none"

(* A success is backed by the provider: our turn was ended by the provider, *)
(* no failure was reported after a message, every command of OpenHands was  *)
(* run, and the session was closed.  Only a simulated success is not.  (A   *)
(* turn that failed and left items but no message does count as success.)   *)
SuccessBacked ==
  (result.status = "succeeded" /\ ~job.simulated) =>
    CASE job.adapter = "codex" ->
           /\ told \in {"completed", "failed"}
           /\ told = "failed" => items /\ ~message
           /\ link = "closed"
      [] job.adapter = "openhands" -> left = 0
      [] OTHER -> FALSE

(* A verification that passed was seen to pass: each verify command, when   *)
(* it was last run for this execution, returned 0.  What other clients of   *)
(* the same server ran does not count, nor does an earlier run.             *)
VerdictObserved ==
  (result.verdict = "passed" /\ ~job.simulated) =>
    \A c \in job.verify : truth[c] = "passed"

(* An execution ends whatever the provider does: silence, a reader that     *)
(* died with a request waiting, a link that never closes.                   *)
Ends == <>(at = "done")
=============================================================================
