--------------------------- MODULE ExecutionProofs ---------------------------
(***************************************************************************)
(* Execution: a success is the provider's, and a verification that passed   *)
(* was seen to pass.  For every set of verify commands, every error text    *)
(* and any number of notifications.                                         *)
(***************************************************************************)
EXTENDS Execution, TLAPS

-----------------------------------------------------------------------------
(* The inductive invariant                                                  *)

How == {"none", "passed", "failed"}

(* The variables TypeOK does not type.                                      *)
TurnTypes ==
  /\ notes \in Seq(Note)
  /\ message \in BOOLEAN /\ items \in BOOLEAN
  /\ error \in Texts \cup {"none"}
  /\ seen \in [Verify -> How] /\ truth \in [Verify -> How]
  /\ told \in {"none", "completed", "failed"}
  /\ death \in Error \cup {None}

(* An adapter keeps to its own places.                                      *)
OpenHandsPlaces == {"commands", "verifying"}
LeavingPlaces == {"exit", "closing", "finish"}
OwnPlaces ==
  /\ at \in Awaiting \cup LeavingPlaces => job.adapter = "codex" /\ ~job.simulated
  /\ at \in OpenHandsPlaces => job.adapter = "openhands"
  /\ at = "verifying" => left = 0
  /\ at = "start" => reader = "none"

(* The provider ends our turn once, and says nothing of it afterwards.      *)
EndsTurn(n) == n.ours /\ n.says[1] \in {"completed", "failed"}
TurnEndsOnce ==
  \A i \in DOMAIN notes : EndsTurn(notes[i]) =>
    /\ told = notes[i].says[1]
    /\ \A j \in DOMAIN notes : j > i => ~notes[j].ours

(* A body that ended without an exception has read the end of its turn, and *)
(* the link is closed before it gets to finish.                             *)
LeavesAtTheEnd ==
  at \in LeavingPlaces /\ exc = None =>
    /\ told \in {"completed", "failed"}
    /\ told = "failed" => error # "none"
    /\ at = "finish" => link = "closed"

(* What was not seen yet waits in the queue, its last result at the end.    *)
Ran(n, c) == n.ours /\ n.says[1] = "ran" /\ n.says[2] = c
SeenUpToQueue ==
  job.fits => \A c \in Verify :
    /\ (\A i \in DOMAIN notes : ~Ran(notes[i], c)) => seen[c] = truth[c]
    /\ \A i \in DOMAIN notes :
         /\ Ran(notes[i], c)
         /\ \A j \in DOMAIN notes : j > i => ~Ran(notes[j], c)
         => truth[c] = Ended(notes[i].says[3])
UnreadIsUnseen == ~job.fits => seen = Nothing
AllSeen == at \in LeavingPlaces /\ exc = None /\ job.fits => seen = truth
OpenHandsSees == job.adapter = "openhands" => seen = truth /\ notes = << >>

IInv ==
  /\ TypeOK /\ TurnTypes /\ OwnPlaces
  /\ TurnEndsOnce /\ LeavesAtTheEnd
  /\ SeenUpToQueue /\ UnreadIsUnseen /\ AllSeen /\ OpenHandsSees
  /\ SuccessBacked /\ VerdictObserved

-----------------------------------------------------------------------------
(* What is said, and what is raised                                         *)

(* A notification names the text of its error, or the command it ran.       *)
LEMMA NoteShape ==
  ASSUME NEW n \in Note
  PROVE  /\ n.ours \in BOOLEAN
         /\ n.says[1] \in {"error", "failed"} => n.says[2] \in Texts
         /\ n.says[1] = "ran" => n.says[2] \in Verify /\ n.says[3] \in BOOLEAN
<1>1. n.ours \in BOOLEAN /\ n.says \in Saying
  BY DEF Note
<1>2. CASE n.says \in {<<"message">>, <<"item">>, <<"retrying">>, <<"completed">>}
  BY <1>1, <1>2
<1>3. CASE n.says \in {<<"error", t>> : t \in Texts} \cup {<<"failed", t>> : t \in Texts}
  BY <1>1, <1>3
<1>4. CASE n.says \in {<<"ran", c, z>> : c \in Verify, z \in BOOLEAN}
  BY <1>1, <1>4
<1> QED BY <1>1, <1>2, <1>3, <1>4 DEF Saying

(* What an exception is made of; it is never no exception.                  *)
LEMMA ErrorShape ==
  /\ Error \cap {None} = {}
  /\ TimedOut \in Error
  /\ \A t \in AnyText : Raised("transport", t) \in Error
  /\ RequestErrors \subseteq Error /\ WorkspaceErrors \subseteq Error
  /\ \A tr : Deaths(tr) \subseteq Error
<1> USE ExecutionAssumption DEF Error, Raised, AnyText
<1>1. Error \cap {None} = {}
  BY DEF None
<1>2. TimedOut \in Error /\ \A t \in AnyText : Raised("transport", t) \in Error
  BY DEF TimedOut
<1>3. RequestErrors \subseteq Error
  BY <1>2 DEF RequestErrors
<1>4. WorkspaceErrors \subseteq Error
  BY <1>2 DEF WorkspaceErrors
<1>5. \A tr : Deaths(tr) \subseteq Error
  BY DEF Deaths
<1> QED BY <1>1, <1>2, <1>3, <1>4, <1>5

(* A result names its kind of failure, and only then.                       *)
Kinds == {"retryable", "terminal"}
Categories == {"provider_timeout", "sandbox_denial", "cancelled", "transport_failure",
               "provider_error", "partial_execution"}
Result ==
  [status : {"failed"}, kind : Kinds, category : Categories, verdict : {"none"} \cup How]
    \cup [status : {"succeeded"}, kind : {"none"}, category : {"none"},
          verdict : {"none"} \cup How]

(* What an exception is classified as is a failure without a verdict.       *)
LEMMA CaughtShape ==
  ASSUME NEW e
  PROVE  Caught(e) \in Result /\ Caught(e).status = "failed" /\ Caught(e).verdict = "none"
<1> DEFINE k == Classify(e)
<1>1. k[1] \in Kinds /\ k[2] \in Categories
  <2>1. CASE e.text = "timeout"
    BY <2>1 DEF Classify, Kinds, Categories
  <2>2. CASE e.text = "denied" /\ e.class # "other"
    BY <2>2 DEF Classify, Kinds, Categories
  <2>3. CASE e.text = "cancel" /\ e.class = "transport"
    BY <2>3 DEF Classify, Kinds, Categories
  <2>4. CASE /\ e.text # "timeout" /\ ~(e.text = "denied" /\ e.class # "other")
             /\ ~(e.text = "cancel" /\ e.class = "transport")
    BY <2>4 DEF Classify, Kinds, Categories
  <2> QED BY <2>1, <2>2, <2>3, <2>4
<1> HIDE DEF k
<1>2. Caught(e) = Failed(k[1], k[2], "none")
  BY DEF Caught, k
<1> QED BY <1>1, <1>2 DEF Failed, Result

(* The verdict is passed when every command to verify with was seen to pass.*)
LEMMA VerdictShape ==
  /\ Verdict \in {"none"} \cup How
  /\ Verdict = "passed" => \A c \in job.verify : seen[c] = "passed"
BY DEF Verdict, Ended, How

-----------------------------------------------------------------------------
(* Steps that end the execution, and steps that do not                      *)

(* An execution ends with a result that is backed and observed.             *)
LEMMA DoneStep ==
  ASSUME IInv, at # "done", NEW res \in Result, Done(res),
         (res.status = "succeeded" /\ ~job.simulated) =>
            CASE job.adapter = "codex" ->
                   /\ told \in {"completed", "failed"}
                   /\ told = "failed" => items /\ ~message
                   /\ link = "closed"
              [] job.adapter = "openhands" -> left = 0
              [] OTHER -> FALSE,
         (res.verdict = "passed" /\ ~job.simulated) =>
            \A c \in job.verify : truth[c] = "passed"
  PROVE  IInv'
<1> USE DEF Done, session, turn, ghosts
<1>1. TypeOK'
  BY DEF IInv, TypeOK, Result, Kinds, Pending
<1>2. TurnTypes' /\ TurnEndsOnce' /\ SeenUpToQueue' /\ UnreadIsUnseen' /\ OpenHandsSees'
  BY DEF IInv, TurnTypes, TurnEndsOnce, SeenUpToQueue, UnreadIsUnseen, OpenHandsSees
<1>3. OwnPlaces' /\ LeavesAtTheEnd' /\ AllSeen'
  BY DEF OwnPlaces, LeavesAtTheEnd, AllSeen, Awaiting, Requests, LeavingPlaces, OpenHandsPlaces
<1>4. SuccessBacked'
  BY DEF SuccessBacked
<1>5. VerdictObserved'
  BY DEF VerdictObserved
<1> QED BY <1>1, <1>2, <1>3, <1>4, <1>5 DEF IInv

(* An exception ends it without a claim to back.                            *)
LEMMA RaisesStep ==
  ASSUME IInv, at # "done", NEW e, Raises(e)
  PROVE  IInv'
BY CaughtShape, DoneStep DEF Raises

(* While there is no result there is nothing to back.                       *)
LEMMA NoResultYet ==
  ASSUME TypeOK, at # "done", result' = result
  PROVE  SuccessBacked' /\ VerdictObserved'
BY DEF TypeOK, Pending, SuccessBacked, VerdictObserved

(* Steps between the places of the session that leave the turn alone: what  *)
(* such a step owes is a new place of its own adapter, the end of the turn  *)
(* when it leaves without an exception, and a reader as TypeOK has it.      *)
LEMMA PlaceStep ==
  ASSUME IInv, at # "done", at' # "done", UNCHANGED <<job, result, sent, turn, left, ghosts, notes>>,
         TypeOK', OwnPlaces', LeavesAtTheEnd', death' \in Error \cup {None},
         at' \in LeavingPlaces /\ exc' = None => at \in LeavingPlaces /\ exc = None
  PROVE  IInv'
<1> USE DEF turn, ghosts
<1>1. TurnTypes' /\ TurnEndsOnce' /\ SeenUpToQueue' /\ UnreadIsUnseen' /\ OpenHandsSees'
  BY DEF IInv, TurnTypes, TurnEndsOnce, SeenUpToQueue, UnreadIsUnseen, OpenHandsSees
<1>2. AllSeen'
  BY DEF IInv, AllSeen
<1>3. SuccessBacked' /\ VerdictObserved'
  BY NoResultYet DEF IInv
<1> QED BY <1>1, <1>2, <1>3 DEF IInv

(* The session is opened, its requests are answered or fail, its timers     *)
(* fire, its reader dies and it is closed.                                  *)
SessionSteps ==
  \/ Open \/ Answered \/ RequestFails \/ ReaderDies \/ TurnTimeout \/ DispatchTimeout
  \/ ExitReaderFailed \/ ExitCancelsReader \/ Closed

(* None of them ends the turn, and each keeps to its place; the exception   *)
(* of the reader takes the place of whatever the body ended with.           *)
LEMMA SessionStep ==
  ASSUME IInv, SessionSteps
  PROVE  IInv'
<1>1. TypeOK /\ OwnPlaces /\ LeavesAtTheEnd /\ death \in Error \cup {None}
  BY DEF IInv, TurnTypes
<1>2. at # "done" /\ at' # "done" /\ UNCHANGED <<job, result, sent, turn, left, ghosts, notes>>
  BY DEF SessionSteps, Open, Answered, RequestFails, ReaderDies, TurnTimeout, DispatchTimeout,
     ExitReaderFailed, ExitCancelsReader, Closed, Leave, session, Requests, Awaiting, After
<1>3. TypeOK' /\ death' \in Error \cup {None}
  <2> USE DEF TypeOK, session
  <2>1. CASE Open \/ ExitCancelsReader \/ Closed
    BY <1>1, <1>2, <2>1 DEF Open, ExitCancelsReader, Closed, Requests, Awaiting,
       OwnPlaces
  <2>5. CASE Answered
    BY <1>1, <1>2, <2>5 DEF Answered, After, Requests, Awaiting
  <2>6. CASE ExitReaderFailed
    BY <1>1, <1>2, <2>6 DEF ExitReaderFailed
  <2>2. CASE RequestFails
    BY <1>1, <1>2, <2>2, ErrorShape DEF RequestFails, Leave, Awaiting
  <2>3. CASE ReaderDies
    BY <1>1, <1>2, <2>3, ErrorShape DEF ReaderDies
  <2>4. CASE TurnTimeout \/ DispatchTimeout
    BY <1>1, <1>2, <2>4, ErrorShape DEF TurnTimeout, DispatchTimeout, Leave, Awaiting
  <2> QED BY <2>1, <2>2, <2>3, <2>4, <2>5, <2>6 DEF SessionSteps
<1>4. OwnPlaces'
  BY <1>1, <1>2 DEF OwnPlaces, SessionSteps, Open, Answered, RequestFails, ReaderDies,
     TurnTimeout, DispatchTimeout, ExitReaderFailed, ExitCancelsReader, Closed, Leave, After,
     Requests, Awaiting, LeavingPlaces, OpenHandsPlaces
<1>5. at' \in LeavingPlaces /\ exc' = None =>
        /\ at \in LeavingPlaces /\ exc = None
        /\ at' = "finish" => link' = "closed" \/ (at = "finish" /\ link' = link)
  BY <1>1, ErrorShape DEF SessionSteps, Open, Answered, RequestFails, ReaderDies,
     TurnTimeout, DispatchTimeout, ExitReaderFailed, ExitCancelsReader, Closed, Leave, After,
     Requests, Awaiting, LeavingPlaces, TypeOK, session
<1>6. LeavesAtTheEnd'
  BY <1>1, <1>2, <1>5 DEF LeavesAtTheEnd, turn, ghosts
<1> QED BY <1>2, <1>3, <1>4, <1>5, <1>6, PlaceStep

(* The provider tells of our turn until it has ended it: its news are the   *)
(* last of the queue.                                                       *)
LEMMA SendStep ==
  ASSUME IInv, NEW n \in Note, Send(n)
  PROVE  IInv'
<1>1. TypeOK /\ TurnTypes /\ OwnPlaces /\ TurnEndsOnce /\ SeenUpToQueue /\ UnreadIsUnseen
  BY DEF IInv
<1>2. /\ at \in Requests \cup {"reading"} /\ notes' = Append(notes, n) /\ CanSay(n)
      /\ UNCHANGED <<job, at, link, reader, death, turn, left, exc, result>>
  BY DEF Send
<1>3. notes \in Seq(Note) /\ Len(notes) \in Nat
  BY <1>1 DEF TurnTypes
<1>4. /\ notes' \in Seq(Note) /\ Len(notes') = Len(notes) + 1
      /\ notes'[Len(notes) + 1] = n
      /\ \A i \in DOMAIN notes : i \in DOMAIN notes' /\ notes'[i] = notes[i]
      /\ \A i \in DOMAIN notes' : i \in DOMAIN notes \/ i = Len(notes) + 1
      /\ \A i \in DOMAIN notes : i \in Nat /\ i <= Len(notes)
  BY <1>2, <1>3
<1>5. /\ n.ours \in BOOLEAN
      /\ n.says[1] \in {"error", "failed"} => n.says[2] \in Texts
      /\ n.says[1] = "ran" => n.says[2] \in Verify /\ n.says[3] \in BOOLEAN
  BY NoteShape
<1>6. /\ told' = IF EndsTurn(n) THEN n.says[1] ELSE told
      /\ truth' = IF n.ours /\ n.says[1] = "ran"
                  THEN [truth EXCEPT ![n.says[2]] = Ended(n.says[3])] ELSE truth
      /\ n.ours => told = "none"
  BY DEF Send, EndsTurn, CanSay
<1>7. at # "done" /\ at \notin LeavingPlaces /\ job.adapter = "codex"
  BY <1>1, <1>2 DEF Requests, LeavingPlaces, OwnPlaces, Awaiting
<1>8. TypeOK' /\ OwnPlaces'
  BY <1>1, <1>2 DEF TypeOK, OwnPlaces
<1>9. TurnTypes'
  BY <1>1, <1>2, <1>4, <1>5, <1>6 DEF TurnTypes, turn, EndsTurn, Ended, How
<1>10. TurnEndsOnce'
  <2> SUFFICES ASSUME NEW i \in DOMAIN notes', EndsTurn(notes'[i])
               PROVE  /\ told' = notes'[i].says[1]
                      /\ \A j \in DOMAIN notes' : j > i => ~notes'[j].ours
    BY DEF TurnEndsOnce, EndsTurn
  <2>1. CASE i = Len(notes) + 1
    BY <1>3, <1>4, <1>6, <2>1
  <2>2. CASE i \in DOMAIN notes
    <3>1. told = notes[i].says[1] /\ told # "none" /\ \A j \in DOMAIN notes : j > i => ~notes[j].ours
      BY <1>1, <1>4, <2>2 DEF TurnEndsOnce, EndsTurn
    <3>2. ~n.ours /\ told' = told
      BY <1>5, <1>6, <3>1 DEF EndsTurn
    <3> QED BY <1>4, <2>2, <3>1, <3>2
  <2> QED BY <1>4, <2>1, <2>2
<1>11. LeavesAtTheEnd' /\ AllSeen' /\ UnreadIsUnseen' /\ OpenHandsSees'
  BY <1>1, <1>2, <1>7 DEF LeavesAtTheEnd, AllSeen, UnreadIsUnseen, OpenHandsSees, turn
<1>12. SeenUpToQueue'
  <2> SUFFICES ASSUME job.fits, NEW c \in Verify
               PROVE  /\ (\A i \in DOMAIN notes' : ~Ran(notes'[i], c)) => seen[c] = truth'[c]
                      /\ \A i \in DOMAIN notes' :
                           /\ Ran(notes'[i], c)
                           /\ \A j \in DOMAIN notes' : j > i => ~Ran(notes'[j], c)
                           => truth'[c] = Ended(notes'[i].says[3])
    BY <1>2 DEF SeenUpToQueue, turn, Ran
  <2>0. truth \in [Verify -> How] /\ Len(notes) + 1 \in DOMAIN notes'
    BY <1>1, <1>3, <1>4 DEF TurnTypes
  <2>1. CASE Ran(n, c)
    <3>1. truth'[c] = Ended(n.says[3])
      BY <1>6, <2>0, <2>1 DEF Ran
    <3>2. ASSUME NEW i \in DOMAIN notes', \A j \in DOMAIN notes' : j > i => ~Ran(notes'[j], c)
          PROVE  i = Len(notes) + 1
      BY <1>3, <1>4, <2>0, <2>1, <3>2
    <3> QED BY <1>4, <2>0, <2>1, <3>1, <3>2
  <2>2. CASE ~Ran(n, c)
    <3>1. truth'[c] = truth[c]
      BY <1>5, <1>6, <2>0, <2>2 DEF Ran
    <3>2. /\ (\A i \in DOMAIN notes : ~Ran(notes[i], c)) => seen[c] = truth[c]
          /\ \A i \in DOMAIN notes :
               /\ Ran(notes[i], c)
               /\ \A j \in DOMAIN notes : j > i => ~Ran(notes[j], c)
               => truth[c] = Ended(notes[i].says[3])
      BY <1>1 DEF SeenUpToQueue
    <3> QED BY <1>4, <2>2, <3>1, <3>2
  <2> QED BY <2>1, <2>2
<1>13. SuccessBacked' /\ VerdictObserved'
  BY <1>1, <1>2, <1>7, NoResultYet
<1> QED BY <1>8, <1>9, <1>10, <1>11, <1>12, <1>13 DEF IInv

(* A notification leaves the queue: the next ones move up.                  *)
LEMMA TailShape ==
  ASSUME notes \in Seq(Note), notes # << >>
  PROVE  /\ Tail(notes) \in Seq(Note)
         /\ Head(notes) = notes[1] /\ notes[1] \in Note /\ 1 \in DOMAIN notes
         /\ \A i \in DOMAIN Tail(notes) : /\ i \in Nat /\ i + 1 \in DOMAIN notes
                                          /\ Tail(notes)[i] = notes[i + 1]
         /\ \A i \in DOMAIN notes : i \in Nat /\ (i = 1 \/ (i > 1 /\ i - 1 \in DOMAIN Tail(notes)))
<1>1. Len(notes) \in Nat /\ Len(notes) > 0
  OBVIOUS
<1>2. Tail(notes) \in Seq(Note) /\ Len(Tail(notes)) = Len(notes) - 1
  OBVIOUS
<1>3. DOMAIN notes = 1 .. Len(notes) /\ DOMAIN Tail(notes) = 1 .. Len(notes) - 1
  BY <1>2
<1>4. \A i \in 1 .. Len(notes) - 1 : Tail(notes)[i] = notes[i + 1]
  BY <1>1
<1>5. Head(notes) = notes[1] /\ notes[1] \in Note
  BY <1>1
<1> QED BY <1>1, <1>2, <1>3, <1>4, <1>5

(* Reading a notification keeps what was seen level with what was sent: the *)
(* end of our turn is the last of ours to be read.                          *)
LEMMA ReadStep ==
  ASSUME IInv, NextNotification
  PROVE  IInv'
<1>1. TypeOK /\ TurnTypes /\ OwnPlaces /\ TurnEndsOnce /\ SeenUpToQueue /\ UnreadIsUnseen
  BY DEF IInv
<1> DEFINE n == Head(notes)
<1>2. /\ at = "reading" /\ notes # << >> /\ notes' = Tail(notes)
      /\ UNCHANGED <<job, link, reader, death, sent, left, result, ghosts>>
      /\ IF n.ours THEN Take(n) ELSE UNCHANGED <<turn, at, exc>>
  BY DEF NextNotification, Mine
<1>3. notes \in Seq(Note)
  BY <1>1 DEF TurnTypes
<1>4. /\ notes' \in Seq(Note)
      /\ n = notes[1] /\ n \in Note /\ 1 \in DOMAIN notes
      /\ \A i \in DOMAIN notes' : i \in Nat /\ i + 1 \in DOMAIN notes /\ notes'[i] = notes[i + 1]
      /\ \A i \in DOMAIN notes : i \in Nat /\ (i = 1 \/ (i > 1 /\ i - 1 \in DOMAIN notes'))
  BY <1>2, <1>3, TailShape
<1> HIDE DEF n
<1>5. /\ n.ours \in BOOLEAN
      /\ n.says[1] \in {"error", "failed"} => n.says[2] \in Texts
      /\ n.says[1] = "ran" => n.says[2] \in Verify /\ n.says[3] \in BOOLEAN
  BY <1>4, NoteShape
<1>6. job.adapter = "codex" /\ ~job.simulated /\ at # "done" /\ at' \in {"reading", "exit"}
      /\ (at' = "exit" => EndsTurn(n) /\ exc' = None)
      /\ (at' # "exit" => exc' = exc)
  BY <1>1, <1>2 DEF OwnPlaces, Awaiting, Take, Leave, EndsTurn
<1>7. seen' = IF Ran(n, n.says[2]) /\ job.fits
              THEN [seen EXCEPT ![n.says[2]] = Ended(n.says[3])] ELSE seen
  BY <1>2, <1>5 DEF Take, Ran, turn
<1>8. EndsTurn(n) => \A i \in DOMAIN notes' : ~notes'[i].ours
  <2> SUFFICES ASSUME EndsTurn(n), NEW i \in DOMAIN notes' PROVE ~notes'[i].ours
    OBVIOUS
  <2>1. i + 1 > 1 /\ i + 1 \in DOMAIN notes /\ notes'[i] = notes[i + 1]
    BY <1>4, SMT DEF EndsTurn
  <2> QED BY <1>1, <1>4, <2>1 DEF TurnEndsOnce, EndsTurn
<1>9. TypeOK' /\ OwnPlaces'
  BY <1>1, <1>2, <1>6 DEF TypeOK, OwnPlaces, Awaiting, LeavingPlaces, OpenHandsPlaces
<1>10. TurnTypes'
  BY <1>1, <1>2, <1>4, <1>5, <1>7 DEF TurnTypes, Take, turn, ghosts, Ended, How, Ran
<1>11. TurnEndsOnce'
  <2> SUFFICES ASSUME NEW i \in DOMAIN notes', EndsTurn(notes'[i])
               PROVE  /\ told = notes'[i].says[1]
                      /\ \A j \in DOMAIN notes' : j > i => ~notes'[j].ours
    BY <1>2 DEF TurnEndsOnce, EndsTurn, ghosts
  <2>1. i + 1 \in DOMAIN notes /\ EndsTurn(notes[i + 1]) /\ notes'[i] = notes[i + 1]
    BY <1>4
  <2>2. told = notes[i + 1].says[1] /\ \A j \in DOMAIN notes : j > i + 1 => ~notes[j].ours
    BY <1>1, <2>1 DEF TurnEndsOnce
  <2>3. ASSUME NEW j \in DOMAIN notes', j > i PROVE ~notes'[j].ours
    BY <1>4, <2>2, <2>3
  <2> QED BY <2>1, <2>2, <2>3
<1>12. LeavesAtTheEnd'
  <2> SUFFICES ASSUME at' = "exit"
               PROVE  told \in {"completed", "failed"} /\ (told = "failed" => error' # "none")
    BY <1>2, <1>6 DEF LeavesAtTheEnd, LeavingPlaces, ghosts
  <2>1. EndsTurn(n) /\ told = n.says[1]
    BY <1>1, <1>4, <1>6 DEF TurnEndsOnce
  <2> QED BY <1>2, <1>5, <2>1, ExecutionAssumption DEF EndsTurn, Take
<1>13. SeenUpToQueue'
  <2> SUFFICES ASSUME job.fits, NEW c \in Verify
               PROVE  /\ (\A i \in DOMAIN notes' : ~Ran(notes'[i], c)) => seen'[c] = truth[c]
                      /\ \A i \in DOMAIN notes' :
                           /\ Ran(notes'[i], c)
                           /\ \A j \in DOMAIN notes' : j > i => ~Ran(notes'[j], c)
                           => truth[c] = Ended(notes'[i].says[3])
    BY <1>2 DEF SeenUpToQueue, ghosts, Ran
  <2>1. /\ (\A i \in DOMAIN notes : ~Ran(notes[i], c)) => seen[c] = truth[c]
        /\ \A i \in DOMAIN notes :
             /\ Ran(notes[i], c)
             /\ \A j \in DOMAIN notes : j > i => ~Ran(notes[j], c)
             => truth[c] = Ended(notes[i].says[3])
    BY <1>1 DEF SeenUpToQueue
  <2>2. ASSUME \A i \in DOMAIN notes' : ~Ran(notes'[i], c)
        PROVE  seen'[c] = truth[c]
    <3>1. \A j \in DOMAIN notes : j # 1 => ~Ran(notes[j], c)
      <4> SUFFICES ASSUME NEW j \in DOMAIN notes, j # 1 PROVE ~Ran(notes[j], c)
        OBVIOUS
      <4>1. j \in Nat /\ j - 1 \in DOMAIN notes' /\ notes'[j - 1] = notes[(j - 1) + 1]
        BY <1>4
      <4>2. (j - 1) + 1 = j
        BY <4>1
      <4> QED BY <2>2, <4>1, <4>2
    <3>2. seen \in [Verify -> How]
      BY <1>1 DEF TurnTypes
    <3>3. CASE Ran(n, c)
      <4>1. truth[c] = Ended(n.says[3])
        BY <1>4, <2>1, <3>1, <3>3
      <4>2. n.says[2] = c /\ Ran(n, n.says[2])
        BY <3>3 DEF Ran
      <4> QED BY <1>7, <3>2, <4>1, <4>2
    <3>4. CASE ~Ran(n, c)
      <4>1. seen[c] = truth[c]
        BY <1>4, <2>1, <3>1, <3>4
      <4>2. seen'[c] = seen[c]
        BY <1>7, <3>2, <3>4
      <4> QED BY <4>1, <4>2
    <3> QED BY <3>3, <3>4
  <2>3. ASSUME NEW i \in DOMAIN notes', Ran(notes'[i], c),
               \A j \in DOMAIN notes' : j > i => ~Ran(notes'[j], c)
        PROVE  truth[c] = Ended(notes'[i].says[3])
    <3>1. i \in Nat /\ i + 1 \in DOMAIN notes /\ Ran(notes[i + 1], c) /\ notes'[i] = notes[i + 1]
      BY <1>4, <2>3
    <3>2. ASSUME NEW j \in DOMAIN notes, j > i + 1 PROVE ~Ran(notes[j], c)
      <4>1. j \in Nat /\ j - 1 \in DOMAIN notes' /\ notes'[j - 1] = notes[(j - 1) + 1]
        BY <1>4, <3>1, <3>2
      <4>2. (j - 1) + 1 = j /\ j - 1 > i
        BY <3>1, <3>2, <4>1
      <4> QED BY <2>3, <4>1, <4>2
    <3> QED BY <2>1, <3>1, <3>2
  <2> QED BY <2>2, <2>3
<1>14. UnreadIsUnseen' /\ OpenHandsSees'
  BY <1>1, <1>2, <1>6, <1>7 DEF UnreadIsUnseen, OpenHandsSees
<1>15. AllSeen'
  <2> SUFFICES ASSUME at' = "exit", job.fits PROVE seen' = truth'
    BY <1>2, <1>6 DEF AllSeen, LeavingPlaces
  <2>1. \A c \in Verify : \A i \in DOMAIN notes' : ~Ran(notes'[i], c)
    BY <1>6, <1>8 DEF Ran
  <2>2. \A c \in Verify : seen'[c] = truth'[c]
    BY <1>2, <1>13, <2>1 DEF SeenUpToQueue
  <2> QED BY <1>10, <2>2 DEF TurnTypes
<1>16. SuccessBacked' /\ VerdictObserved'
  BY <1>1, <1>2, <1>6, NoResultYet
<1> QED BY <1>9, <1>10, <1>11, <1>12, <1>13, <1>14, <1>15, <1>16 DEF IInv

-----------------------------------------------------------------------------
(* The ways to a result                                                     *)

(* A codex turn that succeeds has an end that was read, a closed link, and  *)
(* no failure but one that left items and no message; its verdict is of     *)
(* what was seen up to the end.                                             *)
LEMMA CodexStep ==
  ASSUME IInv, CodexFinish
  PROVE  IInv'
<1>1. TypeOK /\ TurnTypes /\ OwnPlaces /\ LeavesAtTheEnd /\ AllSeen /\ UnreadIsUnseen
  BY DEF IInv
<1>2. at = "finish" /\ at # "done" /\ ~job.simulated /\ job.adapter = "codex" /\ Done(CodexResult)
  BY <1>1 DEF CodexFinish, OwnPlaces, LeavingPlaces
<1>3. CASE exc # None
  BY <1>2, <1>3, RaisesStep DEF CodexResult, Raises
<1>4. CASE exc = None
  <2>1. told \in {"completed", "failed"} /\ (told = "failed" => error # "none") /\ link = "closed"
    BY <1>1, <1>2, <1>4 DEF LeavesAtTheEnd, LeavingPlaces
  <2>2. Verdict = "passed" => \A c \in job.verify : truth[c] = "passed"
    <3> SUFFICES ASSUME Verdict = "passed", NEW c \in job.verify PROVE truth[c] = "passed"
      OBVIOUS
    <3>1. seen[c] = "passed"
      BY VerdictShape
    <3>2. c \in Verify
      BY <1>1 DEF TypeOK, Job, JobOf
    <3>3. CASE job.fits
      BY <1>1, <1>2, <1>4, <3>1, <3>3 DEF AllSeen, LeavingPlaces
    <3>4. CASE ~job.fits
      BY <1>1, <3>1, <3>2, <3>4 DEF UnreadIsUnseen, Nothing
    <3> QED BY <3>3, <3>4
  <2>3. CASE error # "none" /\ ~message /\ ~items
    BY <1>2, <1>4, <2>3, RaisesStep DEF CodexResult, Raises
  <2>4. CASE error # "none" /\ message
    <3>1. Done(Failed("retryable", "partial_execution", Verdict))
      BY <1>2, <1>4, <2>4 DEF CodexResult
    <3>2. Failed("retryable", "partial_execution", Verdict) \in Result
      BY VerdictShape DEF Failed, Result, Kinds, Categories
    <3> QED BY <1>2, <2>2, <3>1, <3>2, DoneStep DEF Failed
  <2>5. CASE error = "none" \/ (items /\ ~message)
    <3>1. Done(Succeeded(Verdict))
      BY <1>2, <1>4, <2>5 DEF CodexResult
    <3>2. Succeeded(Verdict) \in Result
      BY VerdictShape DEF Succeeded, Result
    <3>3. told = "failed" => items /\ ~message
      BY <2>1, <2>5
    <3> QED BY <1>2, <2>1, <2>2, <3>1, <3>2, <3>3, DoneStep DEF Succeeded
  <2> QED BY <1>1, <2>3, <2>4, <2>5 DEF TurnTypes
<1> QED BY <1>3, <1>4

(* Before a provider is called, a simulation succeeds and everything else   *)
(* fails.                                                                   *)
LEMMA EarlyStep ==
  ASSUME IInv, HarnessExecute \/ CodexSimulated \/ CodexPrecheck \/ OpenFails
                 \/ WorkspaceFails \/ CallFails
  PROVE  IInv'
<1>1. CASE HarnessExecute
  <2> DEFINE res == IF job.simulated THEN Succeeded("passed")
                    ELSE Failed("terminal", "provider_error", "none")
  <2>1. res \in Result /\ (res.status = "succeeded" => job.simulated)
        /\ (res.verdict = "passed" => job.simulated)
    BY DEF Succeeded, Failed, Result, Kinds, Categories, How
  <2>2. at # "done" /\ Done(res)
    BY <1>1 DEF HarnessExecute
  <2> HIDE DEF res
  <2> QED BY <2>1, <2>2, DoneStep
<1>2. CASE CodexSimulated
  <2> DEFINE res == Succeeded(IF job.verify = {} THEN "none" ELSE "passed")
  <2>1. res \in Result
    BY DEF Succeeded, Result, How
  <2>2. at # "done" /\ Done(res) /\ job.simulated
    BY <1>2 DEF CodexSimulated
  <2> HIDE DEF res
  <2> QED BY <2>1, <2>2, DoneStep
<1>3. CASE CodexPrecheck
  <2> DEFINE res == Failed("terminal", "provider_error", "none")
  <2>1. res \in Result /\ res.status = "failed" /\ res.verdict = "none"
    BY DEF Failed, Result, Kinds, Categories
  <2>2. at # "done" /\ Done(res)
    BY <1>3 DEF CodexPrecheck
  <2> HIDE DEF res
  <2> QED BY <2>1, <2>2, DoneStep
<1>4. CASE OpenFails \/ WorkspaceFails \/ CallFails
  BY <1>4, RaisesStep DEF OpenFails, WorkspaceFails, CallFails
<1> QED BY <1>1, <1>2, <1>3, <1>4

(* OpenHands sees each verify command as it ends, after all its commands.   *)
LEMMA OpenHandsStep ==
  ASSUME IInv, \/ EnterWorkspace \/ CommandsDone \/ OpenHandsFinish
               \/ \E zero, late \in BOOLEAN :
                    Command(zero, late) \/ \E c \in Verify : VerifyCommand(c, zero, late)
  PROVE  IInv'
<1>1. TypeOK /\ TurnTypes /\ OwnPlaces /\ OpenHandsSees /\ SeenUpToQueue /\ UnreadIsUnseen
  BY DEF IInv
<1>2. ASSUME EnterWorkspace \/ CommandsDone PROVE IInv'
  <2>1. /\ at # "done" /\ at' \in OpenHandsPlaces /\ job.adapter = "openhands"
        /\ at' = "verifying" => left = 0
        /\ UNCHANGED <<job, session, turn, left, exc, result, ghosts>>
    BY <1>1, <1>2 DEF EnterWorkspace, CommandsDone, OpenHandsPlaces, OwnPlaces
  <2>2. TypeOK' /\ OwnPlaces' /\ LeavesAtTheEnd' /\ at' # "done" /\ at' \notin LeavingPlaces
        /\ death' \in Error \cup {None}
    BY <1>1, <2>1 DEF TypeOK, TurnTypes, OwnPlaces, LeavesAtTheEnd, OpenHandsPlaces, LeavingPlaces,
       Awaiting, Requests, session
  <2> QED BY <2>1, <2>2, PlaceStep DEF session
<1>3. ASSUME NEW zero \in BOOLEAN, NEW late \in BOOLEAN, Command(zero, late) PROVE IInv'
  <2>1. CASE zero /\ ~late
    <3>1. at = "commands" /\ left' = left - 1
          /\ UNCHANGED <<job, at, session, turn, exc, result, ghosts>>
      BY <1>3, <2>1 DEF Command
    <3> USE DEF session, turn, ghosts
    <3>2. TypeOK' /\ OwnPlaces' /\ TurnTypes' /\ OpenHandsSees' /\ UnreadIsUnseen'
      BY <1>1, <3>1 DEF TypeOK, OwnPlaces, TurnTypes, OpenHandsSees, UnreadIsUnseen,
         OpenHandsPlaces
    <3>3. SeenUpToQueue' /\ TurnEndsOnce'
      BY <1>1, <3>1 DEF IInv, SeenUpToQueue, TurnEndsOnce
    <3>4. LeavesAtTheEnd' /\ AllSeen'
      BY <3>1 DEF LeavesAtTheEnd, AllSeen, LeavingPlaces
    <3>5. SuccessBacked' /\ VerdictObserved'
      BY <1>1, <3>1, NoResultYet
    <3> QED BY <3>2, <3>3, <3>4, <3>5 DEF IInv
  <2>2. CASE ~(zero /\ ~late)
    BY <1>3, <2>2, RaisesStep DEF Command
  <2> QED BY <2>1, <2>2
<1>4. ASSUME NEW c \in Verify, NEW zero \in BOOLEAN, NEW late \in BOOLEAN,
             VerifyCommand(c, zero, late)
      PROVE  IInv'
  <2>1. /\ at = "verifying" /\ job.adapter = "openhands" /\ seen = truth
        /\ seen' = [seen EXCEPT ![c] = Ended(zero /\ ~late)] /\ truth' = seen'
        /\ UNCHANGED <<job, at, session, message, items, error, left, exc, result, told>>
    BY <1>1, <1>4 DEF VerifyCommand, OwnPlaces, OpenHandsPlaces, OpenHandsSees
  <2> USE DEF session
  <2>2. TypeOK' /\ OwnPlaces' /\ OpenHandsSees'
    BY <1>1, <2>1 DEF TypeOK, OwnPlaces, OpenHandsSees
  <2>3. TurnTypes'
    BY <1>1, <2>1 DEF TurnTypes, Ended, How
  <2>4. job.fits
    BY <1>1, <2>1 DEF TypeOK, Job, JobOf
  <2>5. TurnEndsOnce' /\ LeavesAtTheEnd' /\ AllSeen' /\ UnreadIsUnseen'
    BY <2>1, <2>4 DEF IInv, TurnEndsOnce, LeavesAtTheEnd, AllSeen, UnreadIsUnseen, LeavingPlaces
  <2>6. SeenUpToQueue'
    <3>1. notes' = << >> /\ truth' = seen'
      BY <1>1, <2>1 DEF OpenHandsSees
    <3> QED BY <3>1 DEF SeenUpToQueue
  <2>7. SuccessBacked' /\ VerdictObserved'
    BY <1>1, <2>1, NoResultYet
  <2> QED BY <2>2, <2>3, <2>5, <2>6, <2>7 DEF IInv
<1>5. ASSUME OpenHandsFinish PROVE IInv'
  <2>1. at # "done" /\ Done(Succeeded(Verdict)) /\ job.adapter = "openhands" /\ left = 0
    BY <1>1, <1>5 DEF OpenHandsFinish, OwnPlaces, OpenHandsPlaces
  <2>2. Succeeded(Verdict) \in Result
    BY VerdictShape DEF Succeeded, Result
  <2>3. Verdict = "passed" => \A c \in job.verify : truth[c] = "passed"
    BY <1>1, <2>1, VerdictShape DEF OpenHandsSees
  <2> QED BY <2>1, <2>2, <2>3, DoneStep DEF Succeeded
<1> QED BY <1>2, <1>3, <1>4, <1>5

-----------------------------------------------------------------------------
(* The theorems                                                             *)

(* Before execute is called nothing was seen, said or promised.             *)
LEMMA InitInv == Init => IInv
<1> SUFFICES ASSUME Init PROVE IInv
  OBVIOUS
<1> USE DEF Init
<1>1. TypeOK
  BY DEF TypeOK, Pending, None
<1>2. TurnTypes
  <2>1. notes \in Seq(Note)
    OBVIOUS
  <2>2. seen \in [Verify -> How] /\ truth \in [Verify -> How]
    BY DEF Nothing, How
  <2> QED BY <2>1, <2>2 DEF TurnTypes
<1>3. OwnPlaces /\ LeavesAtTheEnd /\ TurnEndsOnce /\ AllSeen
  BY DEF OwnPlaces, LeavesAtTheEnd, TurnEndsOnce, AllSeen, Awaiting, Requests, LeavingPlaces,
     OpenHandsPlaces
<1>4. SeenUpToQueue /\ UnreadIsUnseen /\ OpenHandsSees
  BY DEF SeenUpToQueue, UnreadIsUnseen, OpenHandsSees
<1>5. SuccessBacked /\ VerdictObserved
  BY DEF SuccessBacked, VerdictObserved, Pending
<1> QED BY <1>1, <1>2, <1>3, <1>4, <1>5 DEF IInv

(* The invariant is inductive: the steps above, put together.               *)
LEMMA Invariance == Spec => []IInv
<1>1. IInv /\ [Next]_vars => IInv'
  <2> SUFFICES ASSUME IInv, [Next]_vars PROVE IInv'
    OBVIOUS
  <2>1. CASE Adapter
    BY <2>1, EarlyStep, SessionStep, ReadStep, CodexStep, OpenHandsStep
       DEF Adapter, SessionSteps
  <2>2. CASE Provider
    BY <2>2, SendStep, SessionStep DEF Provider, SessionSteps
  <2>3. CASE RequestFails \/ CallFails
    BY <2>3, SessionStep, EarlyStep DEF SessionSteps
  <2>4. CASE UNCHANGED vars
    <3> USE <2>4 DEF vars, session, turn, ghosts
    <3>1. TypeOK' /\ TurnTypes' /\ OwnPlaces' /\ LeavesAtTheEnd' /\ TurnEndsOnce'
      BY DEF IInv, TypeOK, TurnTypes, OwnPlaces, LeavesAtTheEnd, TurnEndsOnce
    <3>2. SeenUpToQueue' /\ UnreadIsUnseen' /\ AllSeen' /\ OpenHandsSees'
      BY DEF IInv, SeenUpToQueue, UnreadIsUnseen, AllSeen, OpenHandsSees
    <3>3. SuccessBacked' /\ VerdictObserved'
      BY DEF IInv, SuccessBacked, VerdictObserved
    <3> QED BY <3>1, <3>2, <3>3 DEF IInv
  <2> QED BY <2>1, <2>2, <2>3, <2>4 DEF Next
<1> QED BY InitInv, <1>1, PTL DEF Spec

(* An execution has a result exactly when it is done, and every failure is  *)
(* classified (_classify_failure, _classify_openhands_failure), whatever    *)
(* the exception was (Execution!TypeOK).                                    *)
THEOREM ExecutionTypes == Spec => []TypeOK
BY Invariance, PTL DEF IInv

(* A success that is not simulated is the provider's own                    *)
(* (Execution!SuccessBacked): ExecutorAdapter.execute has read the end of   *)
(* its own turn, or run every command, and closed the session.              *)
THEOREM SuccessIsBacked == Spec => []SuccessBacked
BY Invariance, PTL DEF IInv

(* A verification that passed was seen to pass when it was last run for     *)
(* this execution (Execution!VerdictObserved): _map_verification never      *)
(* reads a result that was overtaken, nor one of another client's turn.     *)
THEOREM VerdictIsObserved == Spec => []VerdictObserved
BY Invariance, PTL DEF IInv
=============================================================================
