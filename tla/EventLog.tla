------------------------------ MODULE EventLog -------------------------------
(***************************************************************************)
(* The events of one stream (a workflow run, or worker-health::<worker>)    *)
(* and those who append to them.  Emitting is not one transaction:          *)
(* next_sequence counts the rows in a session of its own, the builder then  *)
(* stamps the time, and append_event looks the idempotency key up, counts   *)
(* again and inserts, under the two unique constraints of run_events.  No   *)
(* lock is held from the first step to the last.                            *)
(*                                                                          *)
(* Emitters are the activities of the worker, coroutines that emit without  *)
(* an await and are repeated until answered, and the calls of the API,      *)
(* threads that try once.  All events have the same type, as those of the   *)
(* worker-health stream do: the idempotency key, run:sequence:type, is then *)
(* the sequence.  The run row the first append creates is left out: two     *)
(* appends that both create it also have the same sequence.                 *)
(***************************************************************************)
EXTENDS Naturals, Sequences, FiniteSets

CONSTANTS
  Activities,    \* emit_runtime_event, report_worker_health_activity
  Calls,         \* emitters in the API process
  MaxEmits,      \* bound: events each emitter has to emit
  MaxClock,      \* bound: the times
  MaxRows        \* bound: no answer is lost from this number of rows on

ASSUME BoundsAssumption ==
  /\ MaxEmits \in Nat
  /\ MaxClock \in Nat \ {0}
  /\ MaxRows \in Nat

VARIABLES
  rows,     \* the rows of run_events
  clock,    \* the wall clock
  pc,       \* what each emitter does next
  no,       \* the event it is emitting, or how many it has emitted
  seen,     \* the sequence it read
  at,       \* the time it stamped, 0 before it has
  told      \* the rows append_event returned to it, one for each event

vars == <<rows, clock, pc, no, seen, at, told>>

Emitter == Activities \cup Calls
Entry == [by : Emitter, no : 1 .. MaxEmits, at : 1 .. MaxClock]
Row == [seq : Nat \ {0}, entry : Entry]

Stamped == {"lookup", "validate", "insert"}
Emitting == {"stamp"} \cup Stamped

Init ==
  /\ rows = {}
  /\ clock = 1
  /\ pc = [e \in Emitter |-> "idle"]
  /\ no = [e \in Emitter |-> 0]
  /\ seen = [e \in Emitter |-> 1]
  /\ at = [e \in Emitter |-> 0]
  /\ told = [e \in Emitter |-> << >>]

-----------------------------------------------------------------------------

(* The activities run in one event loop and do not await between the two    *)
(* calls: one that has read its sequence ends before another starts.        *)
Alone(e) == e \in Activities => \A f \in Activities : pc[f] \notin Emitting

Goto(e, step) == pc' = [pc EXCEPT ![e] = step]

Begin(e) ==
  /\ pc[e] = "idle" /\ no[e] < MaxEmits
  /\ no' = [no EXCEPT ![e] = @ + 1]
  /\ at' = [at EXCEPT ![e] = 0]
  /\ Goto(e, "read")
  /\ UNCHANGED <<rows, clock, seen, told>>

(* next_sequence: the number of rows and one.                               *)
NextSequenceUncounted == Cardinality(rows)
NextSequence == Cardinality(rows) + 1

ReadSequenceAhead(e) ==
  /\ pc[e] = "read" /\ Alone(e)
  /\ seen' = [seen EXCEPT ![e] = NextSequence + 1]
  /\ Goto(e, "stamp")
  /\ UNCHANGED <<rows, clock, no, at, told>>
ReadSequence(e) ==
  /\ pc[e] = "read" /\ Alone(e)
  /\ seen' = [seen EXCEPT ![e] = NextSequence]
  /\ Goto(e, "stamp")
  /\ UNCHANGED <<rows, clock, no, at, told>>

(* The arguments of build are evaluated first, the sequence among them.     *)
StampOnce(e) ==
  /\ pc[e] = "stamp"
  /\ at' = [at EXCEPT ![e] = IF @ = 0 THEN clock ELSE @]
  /\ Goto(e, "lookup")
  /\ UNCHANGED <<rows, clock, no, seen, told>>
Stamp(e) ==
  /\ pc[e] = "stamp"
  /\ at' = [at EXCEPT ![e] = clock]
  /\ Goto(e, "lookup")
  /\ UNCHANGED <<rows, clock, no, seen, told>>

(* append_event returns row: the emitter is done, or its answer is lost and *)
(* the activity is repeated from the start.                                 *)
Answer(e, row) ==
  \/ /\ told' = [told EXCEPT ![e] = Append(@, row)]
     /\ Goto(e, "idle")
  \/ /\ e \in Activities /\ Cardinality(rows) < MaxRows
     /\ Goto(e, "read")
     /\ UNCHANGED told

(* append_event raises: the activity is repeated, the call answers 500.     *)
RefusedKeepsEvent(e) ==
  /\ Goto(e, IF e \in Activities THEN "validate" ELSE "idle")
  /\ UNCHANGED <<rows, clock, no, seen, at, told>>
Refused(e) ==
  /\ Goto(e, IF e \in Activities THEN "read" ELSE "idle")
  /\ UNCHANGED <<rows, clock, no, seen, at, told>>

(* The rows with the event's idempotency key, which are those with its      *)
(* sequence.                                                                *)
KeyFoundByType(e) == rows
KeyFound(e) == {r \in rows : r.seq = seen[e]}

(* A row with the key exists: it is returned, and nothing is inserted.      *)
ReturnExisting(e) ==
  /\ pc[e] = "lookup"
  /\ \E r \in KeyFound(e) : Answer(e, r)
  /\ UNCHANGED <<rows, clock, no, seen, at>>

Lookup(e) ==
  /\ pc[e] = "lookup" /\ KeyFound(e) = {}
  /\ Goto(e, "validate")
  /\ UNCHANGED <<rows, clock, no, seen, at, told>>

(* _validate_sequence counts again.                                         *)
Expected == Cardinality(rows) + 1

Validate(e) ==
  /\ pc[e] = "validate" /\ seen[e] = Expected
  /\ Goto(e, "insert")
  /\ UNCHANGED <<rows, clock, no, seen, at, told>>

RefuseSequence(e) ==
  /\ pc[e] = "validate" /\ seen[e] # Expected
  /\ Refused(e)

NewRow(e) == [seq |-> seen[e], entry |-> [by |-> e, no |-> no[e], at |-> at[e]]]

(* The insert commits if neither unique constraint is violated.             *)
InsertUnchecked(e) ==
  /\ pc[e] = "insert"
  /\ rows' = rows \cup {NewRow(e)}
  /\ Answer(e, NewRow(e))
  /\ UNCHANGED <<clock, no, seen, at>>
InsertReplaces(e) ==
  /\ pc[e] = "insert"
  /\ rows' = (rows \ KeyFound(e)) \cup {NewRow(e)}
  /\ Answer(e, NewRow(e))
  /\ UNCHANGED <<clock, no, seen, at>>
Insert(e) ==
  /\ pc[e] = "insert" /\ KeyFound(e) = {}
  /\ rows' = rows \cup {NewRow(e)}
  /\ Answer(e, NewRow(e))
  /\ UNCHANGED <<clock, no, seen, at>>

RefuseDuplicate(e) ==
  /\ pc[e] = "insert" /\ KeyFound(e) # {}
  /\ Refused(e)

Tick ==
  /\ clock < MaxClock
  /\ clock' = clock + 1
  /\ UNCHANGED <<rows, pc, no, seen, at, told>>

Emit(e) ==
  \/ ReadSequence(e)
  \/ Stamp(e)
  \/ ReturnExisting(e)
  \/ Lookup(e)
  \/ Validate(e)
  \/ RefuseSequence(e)
  \/ Insert(e)
  \/ RefuseDuplicate(e)

Next ==
  \/ \E e \in Emitter : Begin(e) \/ Emit(e)
  \/ Tick

Spec == Init /\ [][Next]_vars

(* The worker goes on with its activities; a call may stop at any step.     *)
FairSpec == Spec /\ \A e \in Activities : WF_vars(Emit(e))

-----------------------------------------------------------------------------

(* Every row is one an emitter can build, and whoever is about to insert    *)
(* has an event and a time to insert.                                       *)
TypeOK ==
  /\ rows \subseteq Row /\ IsFiniteSet(rows)
  /\ clock \in 1 .. MaxClock
  /\ pc \in [Emitter -> {"idle", "read"} \cup Emitting]
  /\ no \in [Emitter -> 0 .. MaxEmits]
  /\ seen \in [Emitter -> Nat \ {0}]
  /\ at \in [Emitter -> 0 .. MaxClock]
  /\ told \in [Emitter -> Seq(Row)]
  /\ \A e \in Emitter : pc[e] # "idle" => no[e] \in 1 .. MaxEmits
  /\ \A e \in Emitter : pc[e] \in Stamped => at[e] \in 1 .. MaxClock

(* The sequences of a stream are 1 to the number of its rows, although the  *)
(* count and the insert are in different transactions: the timeline and the *)
(* next sequence are derived from that.                                     *)
GapFree ==
  /\ {r.seq : r \in rows} = 1 .. Cardinality(rows)
  /\ \A r, s \in rows : r.seq = s.seq => r = s

(* Times do not contradict sequences, whoever emitted: the worker-health    *)
(* projector orders by time, the timeline by sequence, and they show the    *)
(* same last event.  It holds because the sequence is read before the time. *)
TimesFollowSequence ==
  \A r, s \in rows : r.seq <= s.seq => r.entry.at <= s.entry.at

(* Why: the sequence an emitter holds is at most the next one, and the      *)
(* events before it are not later than the time it stamped, however long    *)
(* ago it read the one and stamped the other.                               *)
PendingFits ==
  /\ \A r \in rows : r.entry.at <= clock
  /\ \A e \in Emitter : pc[e] \in Emitting => seen[e] <= NextSequence
  /\ \A e \in Emitter : pc[e] \in Stamped =>
       /\ at[e] <= clock
       /\ \A r \in rows : r.seq < seen[e] => r.entry.at <= at[e]

(* The stream is an append-only log in order of time.                       *)
EntryAt(R, n) == (CHOOSE r \in R : r.seq = n).entry
LogOf(R) == [n \in 1 .. Cardinality(R) |-> EntryAt(R, n)]

L == INSTANCE AppendLog WITH log <- LogOf(rows)
IsAppendLog == L!LogSpec

(* An emitter that has the stream to itself is told of its own event each   *)
(* time, in order: an event answered is an event stored, however many       *)
(* answers were lost before.                                                *)
OwnEventLogged ==
  \A e \in Emitter : \A i \in DOMAIN told[e] :
    told[e][i] \in rows /\ told[e][i].entry.by = e /\ told[e][i].entry.no = i

(* A repeated activity is answered in the end, whatever the calls do to the *)
(* stream meanwhile.                                                        *)
ActivitiesAnswered ==
  \A e \in Activities : (pc[e] # "idle") ~> (pc[e] = "idle")
=============================================================================
