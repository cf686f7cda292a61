--------------------------- MODULE EventLogProofs ----------------------------
(***************************************************************************)
(* For any number of emitters, events and times: a stream of events has no  *)
(* gap, its times follow its sequences, and it is an append-only log.       *)
(***************************************************************************)
EXTENDS EventLog, FiniteSetTheorems, TLAPS

(* What an answer leaves: the row is added to those the emitter was told,   *)
(* or the activity starts again.                                            *)
LEMMA AnswerTypes ==
  ASSUME TypeOK, NEW e \in Emitter, NEW row \in Row, Answer(e, row)
  PROVE  /\ told' \in [Emitter -> Seq(Row)]
         /\ pc' \in [Emitter -> {"idle", "read"} \cup Emitting]
         /\ \A f \in Emitter : pc'[f] = pc[f] \/ (f = e /\ pc'[f] \in {"idle", "read"})
<1> USE DEF TypeOK, Answer, Goto
<1>1. told[e] \in Seq(Row)
  OBVIOUS
<1>2. Append(told[e], row) \in Seq(Row)
  BY <1>1
<1> HIDE DEF TypeOK
<1>3. told' \in [Emitter -> Seq(Row)]
  BY <1>2 DEF TypeOK
<1>4. /\ pc' \in [Emitter -> {"idle", "read"} \cup Emitting]
      /\ \A f \in Emitter : pc'[f] = pc[f] \/ (f = e /\ pc'[f] \in {"idle", "read"})
  BY DEF TypeOK
<1> QED BY <1>3, <1>4

(* Each step of an emitter keeps the types.                                 *)
LEMMA EventTypesStep == TypeOK /\ [Next]_vars => TypeOK'
<1> SUFFICES ASSUME TypeOK, [Next]_vars PROVE TypeOK'
  OBVIOUS
<1> USE DEF TypeOK, Emitting, Stamped, Goto
<1>0. Cardinality(rows) \in Nat
  BY FS_CardinalityType
<1>1. ASSUME NEW e \in Emitter, Begin(e) PROVE TypeOK'
  BY <1>1, BoundsAssumption DEF Begin
<1>2. ASSUME NEW e \in Emitter, ReadSequence(e) PROVE TypeOK'
  BY <1>0, <1>2 DEF ReadSequence, NextSequence
<1>3. ASSUME NEW e \in Emitter, Stamp(e) PROVE TypeOK'
  BY <1>3 DEF Stamp
<1>4. ASSUME NEW e \in Emitter, ReturnExisting(e) PROVE TypeOK'
  <2>1. PICK r \in KeyFound(e) : Answer(e, r)
    BY <1>4 DEF ReturnExisting
  <2>2. r \in Row
    BY DEF KeyFound
  <2>3. pc[e] = "lookup" /\ UNCHANGED <<rows, clock, no, seen, at>>
    BY <1>4 DEF ReturnExisting
  <2> QED BY <2>1, <2>2, <2>3, AnswerTypes
<1>5. ASSUME NEW e \in Emitter, Lookup(e) PROVE TypeOK'
  BY <1>5 DEF Lookup
<1>6. ASSUME NEW e \in Emitter, Validate(e) PROVE TypeOK'
  BY <1>6 DEF Validate
<1>7. ASSUME NEW e \in Emitter, RefuseSequence(e) PROVE TypeOK'
  BY <1>7 DEF RefuseSequence, Refused
<1>8. ASSUME NEW e \in Emitter, Insert(e) PROVE TypeOK'
  <2>1. NewRow(e) \in Row
    BY <1>8 DEF Insert, NewRow, Row, Entry
  <2>2. rows' \subseteq Row /\ IsFiniteSet(rows')
    BY <1>8, <2>1, FS_AddElement DEF Insert
  <2>3. /\ pc[e] = "insert" /\ Answer(e, NewRow(e))
        /\ UNCHANGED <<clock, no, seen, at>>
    BY <1>8 DEF Insert
  <2> QED BY <2>1, <2>2, <2>3, AnswerTypes
<1>9. ASSUME NEW e \in Emitter, RefuseDuplicate(e) PROVE TypeOK'
  BY <1>9 DEF RefuseDuplicate, Refused
<1>10. CASE Tick
  BY <1>10, BoundsAssumption DEF Tick
<1>11. CASE UNCHANGED vars
  BY <1>11 DEF vars
<1> QED
  BY <1>1, <1>2, <1>3, <1>4, <1>5, <1>6, <1>7, <1>8, <1>9, <1>10, <1>11
     DEF Next, Emit

(* Every row is one an emitter can build: TypeOK holds for any emitters,    *)
(* whatever happens between next_sequence and the insert of append_event.   *)
THEOREM EventTypes == Spec => []TypeOK
<1>1. Init => TypeOK
  BY BoundsAssumption, FS_EmptySet DEF Init, TypeOK, Emitting, Stamped
<1> QED BY <1>1, EventTypesStep, PTL DEF Spec

-----------------------------------------------------------------------------

LogInv == GapFree /\ TimesFollowSequence /\ PendingFits

(* What an insert does to a stream without gaps: the row it adds comes next *)
(* after all the others.                                                    *)
LEMMA InsertComesNext ==
  ASSUME TypeOK, LogInv, NEW e \in Emitter, Insert(e)
  PROVE  /\ seen[e] = Cardinality(rows) + 1
         /\ Cardinality(rows) \in Nat
         /\ Cardinality(rows') = Cardinality(rows) + 1
         /\ NewRow(e) \notin rows
         /\ \A r \in rows : r.seq \in 1 .. Cardinality(rows)
         /\ \A r \in rows : r.entry.at <= at[e]
<1>1. Cardinality(rows) \in Nat
  BY FS_CardinalityType DEF TypeOK
<1>2. seen[e] \in Nat \ {0} /\ seen[e] <= Cardinality(rows) + 1
  BY DEF Insert, LogInv, PendingFits, TypeOK, NextSequence, Emitting, Stamped
<1>3. \A r \in rows : r.seq # seen[e]
  BY DEF Insert, KeyFound
<1>4. seen[e] \notin 1 .. Cardinality(rows)
  BY <1>3 DEF LogInv, GapFree
<1>5. seen[e] = Cardinality(rows) + 1
  BY <1>1, <1>2, <1>4
<1>6. \A r \in rows : r.seq \in 1 .. Cardinality(rows)
  BY DEF LogInv, GapFree
<1>7. NewRow(e) \notin rows
  BY <1>3 DEF NewRow
<1>8. Cardinality(rows') = Cardinality(rows) + 1
  BY <1>7, FS_AddElement DEF Insert, TypeOK
<1>9. \A r \in rows : r.entry.at <= at[e]
  BY <1>1, <1>5, <1>6 DEF Insert, LogInv, PendingFits, Stamped
<1> QED BY <1>1, <1>5, <1>6, <1>7, <1>8, <1>9

(* An insert keeps the stream without gaps, in order, and leaves what the   *)
(* other emitters are about to insert fitting.                              *)
LEMMA InsertKeepsLogInv ==
  ASSUME TypeOK, LogInv, NEW e \in Emitter, Insert(e)
  PROVE  LogInv'
<1> DEFINE N == Cardinality(rows)
           new == NewRow(e)
<1>1. /\ seen[e] = N + 1 /\ N \in Nat /\ Cardinality(rows') = N + 1
      /\ \A r \in rows : r.seq \in 1 .. N
      /\ \A r \in rows : r.entry.at <= at[e]
  BY InsertComesNext
<1>2. rows' = rows \cup {new} /\ new.seq = N + 1 /\ new.entry.at = at[e]
  BY <1>1 DEF Insert, NewRow
<1>3. at[e] \in Nat /\ at[e] <= clock
  BY DEF Insert, LogInv, PendingFits, TypeOK, Stamped
<1>4. \A r \in rows : r.entry.at \in Nat
  BY DEF TypeOK, Row, Entry
<1> HIDE DEF N, new
<1>5. GapFree'
  <2>1. {r.seq : r \in rows} = 1 .. N
    BY DEF LogInv, GapFree, N
  <2>2. {r.seq : r \in rows'} = {r.seq : r \in rows} \cup {N + 1}
    BY <1>2
  <2>3. {r.seq : r \in rows'} = 1 .. N + 1
    BY <1>1, <2>1, <2>2
  <2>4. \A r, s \in rows' : r.seq = s.seq => r = s
    BY <1>1, <1>2 DEF LogInv, GapFree
  <2> QED BY <1>1, <2>3, <2>4 DEF GapFree
<1>6. TimesFollowSequence'
  BY <1>1, <1>2, <1>3 DEF LogInv, TimesFollowSequence
<1>7. PendingFits'
  <2>1. clock' = clock /\ seen' = seen /\ at' = at
    BY DEF Insert
  <2>2. \A f \in Emitter : pc'[f] \in Emitting => f # e /\ pc'[f] = pc[f]
    BY DEF Insert, Answer, Goto, TypeOK, Emitting, Stamped
  <2>3. \A r \in rows' : r.entry.at <= clock
    BY <1>2, <1>3 DEF LogInv, PendingFits
  <2>4. \A f \in Emitter : pc[f] \in Emitting => seen[f] \in Nat /\ seen[f] <= N + 1
    BY <1>1 DEF LogInv, PendingFits, NextSequence, TypeOK, N
  <2>5. ASSUME NEW f \in Emitter, pc'[f] \in Stamped
        PROVE  /\ at'[f] <= clock'
               /\ \A r \in rows' : r.seq < seen'[f] => r.entry.at <= at'[f]
    <3>1. pc[f] \in Stamped /\ pc[f] \in Emitting
      BY <2>2, <2>5 DEF Emitting
    <3>2. ~(new.seq < seen[f])
      BY <1>1, <1>2, <2>4, <3>1
    <3> QED BY <1>2, <2>1, <3>1, <3>2 DEF LogInv, PendingFits
  <2>6. \A f \in Emitter : pc'[f] \in Emitting => seen'[f] <= NextSequence'
    BY <1>1, <2>1, <2>2, <2>4 DEF NextSequence
  <2> QED BY <2>1, <2>3, <2>5, <2>6 DEF PendingFits
<1> QED BY <1>5, <1>6, <1>7 DEF LogInv

(* Steps that insert nothing only have to keep PendingFits.                 *)
LEMMA PendingStep ==
  ASSUME TypeOK, LogInv, rows' = rows,
         \/ \E e \in Emitter : Begin(e) \/ Emit(e)
         \/ Tick
  PROVE  PendingFits'
<1> USE DEF LogInv, PendingFits, TypeOK, Emitting, Stamped, Goto, NextSequence
<1>0. /\ Cardinality(rows) \in Nat
      /\ \A r \in rows : /\ r.seq \in Nat /\ r.entry.at \in Nat
                         /\ r.seq \in 1 .. Cardinality(rows)
  BY FS_CardinalityType DEF Row, Entry, GapFree
<1>1. ASSUME NEW e \in Emitter, Begin(e) PROVE PendingFits'
  BY <1>1 DEF Begin
<1>2. ASSUME NEW e \in Emitter, ReadSequence(e) PROVE PendingFits'
  BY <1>0, <1>2 DEF ReadSequence
<1>3. ASSUME NEW e \in Emitter, Stamp(e) PROVE PendingFits'
  BY <1>0, <1>3 DEF Stamp
<1>4. ASSUME NEW e \in Emitter, ReturnExisting(e) PROVE PendingFits'
  BY <1>4 DEF ReturnExisting, Answer
<1>5. ASSUME NEW e \in Emitter, Lookup(e) PROVE PendingFits'
  BY <1>5 DEF Lookup
<1>6. ASSUME NEW e \in Emitter, Validate(e) PROVE PendingFits'
  BY <1>6 DEF Validate
<1>7. ASSUME NEW e \in Emitter, RefuseSequence(e) PROVE PendingFits'
  BY <1>7 DEF RefuseSequence, Refused
<1>8. ASSUME NEW e \in Emitter, Insert(e) PROVE PendingFits'
  BY <1>8, InsertKeepsLogInv
<1>9. ASSUME NEW e \in Emitter, RefuseDuplicate(e) PROVE PendingFits'
  BY <1>9 DEF RefuseDuplicate, Refused
<1>10. CASE Tick
  BY <1>0, <1>10 DEF Tick
<1> QED
  BY <1>1, <1>2, <1>3, <1>4, <1>5, <1>6, <1>7, <1>8, <1>9, <1>10 DEF Emit

(* Only Insert changes the rows.                                            *)
LEMMA OnlyInsertAdds ==
  ASSUME [Next]_vars, rows' # rows
  PROVE  \E e \in Emitter : Insert(e)
BY DEF Next, Emit, vars, Begin, ReadSequence, Stamp, ReturnExisting, Lookup,
       Validate, RefuseSequence, RefuseDuplicate, Refused, Tick

(* The three parts of LogInv are inductive together.                        *)
LEMMA LogInvStep == TypeOK /\ LogInv /\ [Next]_vars => LogInv'
<1> SUFFICES ASSUME TypeOK, LogInv, [Next]_vars PROVE LogInv'
  OBVIOUS
<1>1. CASE rows' # rows
  BY <1>1, OnlyInsertAdds, InsertKeepsLogInv
<1>2. CASE rows' = rows /\ Next
  <2>1. PendingFits'
    BY <1>2, PendingStep DEF Next
  <2>2. GapFree' /\ TimesFollowSequence'
    BY <1>2 DEF LogInv, GapFree, TimesFollowSequence
  <2> QED BY <2>1, <2>2 DEF LogInv
<1>3. CASE UNCHANGED vars
  BY <1>3 DEF vars, LogInv, GapFree, TimesFollowSequence, PendingFits, NextSequence
<1> QED BY <1>1, <1>2, <1>3

(* The empty stream.                                                        *)
LEMMA LogInvInit == Init => LogInv
<1> SUFFICES ASSUME Init PROVE LogInv
  OBVIOUS
<1>1. Cardinality({}) = 0
  BY FS_EmptySet
<1> QED
  BY <1>1 DEF Init, LogInv, GapFree, TimesFollowSequence, PendingFits, Emitting, Stamped

(* GapFree: append_event keeps the sequences of a stream from 1 to the      *)
(* number of its rows, for any emitters; the constraint is what does it,    *)
(* since a sequence read too early is never too large.                      *)
THEOREM SequencesGapFree == Spec => []GapFree
BY EventTypes, LogInvInit, LogInvStep, PTL DEF Spec, LogInv

(* TimesFollowSequence: order by time and order by sequence agree, for any  *)
(* emitters that share a clock.                                             *)
THEOREM TimesInOrder == Spec => []TimesFollowSequence
BY EventTypes, LogInvInit, LogInvStep, PTL DEF Spec, LogInv

(* PendingFits: whoever is about to insert holds a sequence that is not     *)
(* beyond the next one and a time that is not before those of the events    *)
(* it will follow, however long the insert of append_event is delayed.      *)
THEOREM PendingEventsFit == Spec => []PendingFits
BY EventTypes, LogInvInit, LogInvStep, PTL DEF Spec, LogInv

-----------------------------------------------------------------------------

(* One emitter has the stream to itself, as a worker has its worker-health  *)
(* stream while it is the only one.                                         *)
OneEmitter == \E e : Emitter = {e}

(* It is at the event after those it was told, and nothing comes between    *)
(* the sequence it read and its insert.                                     *)
OwnInv ==
  \A e \in Emitter :
    /\ \A i \in DOMAIN told[e] : told[e][i] \in rows /\ told[e][i].entry.no = i
    /\ no[e] = IF pc[e] = "idle" THEN Len(told[e]) ELSE Len(told[e]) + 1
    /\ pc[e] \in Emitting => seen[e] = NextSequence

(* An answer with the row of its own event leaves the only emitter where    *)
(* it should be.                                                            *)
LEMMA OwnAnswer ==
  ASSUME TypeOK, OwnInv, NEW e \in Emitter, Emitter = {e}, NEW row \in Row,
         row \in rows', rows \subseteq rows', row.entry.no = no[e],
         pc[e] # "idle", no' = no, Answer(e, row)
  PROVE  OwnInv'
<1>1. /\ told[e] \in Seq(Row) /\ Len(told[e]) \in Nat
      /\ no[e] = Len(told[e]) + 1
      /\ \A i \in 1 .. Len(told[e]) : told[e][i] \in rows /\ told[e][i].entry.no = i
  BY DEF TypeOK, OwnInv
<1>2. pc'[e] \notin Emitting
  BY DEF Answer, Goto, TypeOK, Emitting, Stamped
<1>3. CASE told' = [told EXCEPT ![e] = Append(@, row)] /\ Goto(e, "idle")
  <2>1. told'[e] = Append(told[e], row) /\ pc'[e] = "idle"
    BY <1>3 DEF TypeOK, Goto
  <2>2. Len(told'[e]) = Len(told[e]) + 1 /\ DOMAIN told'[e] = 1 .. Len(told[e]) + 1
    BY <1>1, <2>1
  <2>3. \A i \in 1 .. Len(told[e]) : told'[e][i] = told[e][i]
    BY <1>1, <2>1
  <2>4. told'[e][Len(told[e]) + 1] = row
    BY <1>1, <2>1
  <2>5. \A i \in DOMAIN told'[e] : told'[e][i] \in rows' /\ told'[e][i].entry.no = i
    BY <1>1, <2>2, <2>3, <2>4
  <2> QED BY <1>1, <1>2, <2>1, <2>2, <2>5 DEF OwnInv
<1>4. CASE told' = told /\ Goto(e, "read")
  <2>1. pc'[e] = "read"
    BY <1>4 DEF Goto, TypeOK
  <2> QED BY <1>1, <1>2, <1>4, <2>1 DEF OwnInv
<1> QED BY <1>3, <1>4 DEF Answer

(* Without another emitter no step finds the key of its event taken or its  *)
(* sequence refused.                                                        *)
LEMMA OwnInvStep ==
  ASSUME OneEmitter PROVE TypeOK /\ LogInv /\ OwnInv /\ [Next]_vars => OwnInv'
<1> SUFFICES ASSUME TypeOK, LogInv, OwnInv, [Next]_vars PROVE OwnInv'
  OBVIOUS
<1>0. PICK e \in Emitter : Emitter = {e}
  BY DEF OneEmitter
<1>a. Cardinality(rows) \in Nat /\ \A r \in rows : r.seq \in 1 .. Cardinality(rows)
  BY FS_CardinalityType DEF TypeOK, LogInv, GapFree
<1>b. pc[e] \in Emitting => seen[e] = Cardinality(rows) + 1 /\ KeyFound(e) = {}
  BY <1>a DEF OwnInv, NextSequence, KeyFound
<1>c. told[e] \in Seq(Row) /\ Len(told[e]) \in Nat /\ no[e] \in Nat
  BY DEF TypeOK
<1> USE DEF TypeOK, Emitting, Stamped, Goto, NextSequence
<1>1. CASE Begin(e)
  BY <1>0, <1>1, <1>c DEF Begin, OwnInv
<1>2. CASE ReadSequence(e)
  BY <1>0, <1>2 DEF ReadSequence, OwnInv
<1>3. CASE Stamp(e)
  BY <1>0, <1>3 DEF Stamp, OwnInv
<1>4. CASE ReturnExisting(e)
  BY <1>4, <1>b DEF ReturnExisting
<1>5. CASE Lookup(e)
  BY <1>0, <1>5 DEF Lookup, OwnInv
<1>6. CASE Validate(e)
  BY <1>0, <1>6 DEF Validate, OwnInv
<1>7. CASE RefuseSequence(e)
  BY <1>7, <1>b DEF RefuseSequence, Expected
<1>8. CASE Insert(e)
  <2>1. NewRow(e) \in Row /\ NewRow(e).entry.no = no[e]
    BY <1>8 DEF Insert, NewRow, Row, Entry
  <2> HIDE DEF TypeOK
  <2> QED BY <1>0, <1>8, <2>1, OwnAnswer DEF Insert
<1>9. CASE RefuseDuplicate(e)
  BY <1>9, <1>b DEF RefuseDuplicate
<1>10. CASE Tick
  BY <1>10 DEF Tick, OwnInv
<1>11. CASE UNCHANGED vars
  BY <1>11 DEF vars, OwnInv
<1> QED
  BY <1>0, <1>1, <1>2, <1>3, <1>4, <1>5, <1>6, <1>7, <1>8, <1>9, <1>10, <1>11
     DEF Next, Emit

(* OwnEventLogged: an emitter that has the stream to itself is told of its  *)
(* own event each time, in order, for any number of events and of answers   *)
(* lost: what append_event returned to it is stored.                        *)
THEOREM OwnEventsLogged == ASSUME OneEmitter PROVE Spec => []OwnEventLogged
<1>1. Init => OwnInv
  BY DEF Init, OwnInv, Emitting, Stamped
<1>2. TypeOK /\ OwnInv => OwnEventLogged
  <2> SUFFICES ASSUME TypeOK, OwnInv, NEW e \in Emitter, NEW i \in DOMAIN told[e]
               PROVE  /\ told[e][i] \in rows
                      /\ told[e][i].entry.by = e /\ told[e][i].entry.no = i
    BY DEF OwnEventLogged
  <2>1. told[e][i] \in rows /\ told[e][i].entry.no = i
    BY DEF OwnInv
  <2>2. told[e][i].entry.by \in Emitter
    BY <2>1 DEF TypeOK, Row, Entry
  <2> QED BY <2>1, <2>2 DEF OneEmitter
<1>3. TypeOK /\ LogInv /\ OwnInv /\ [Next]_vars => OwnInv'
  BY OwnInvStep
<1> QED BY <1>1, <1>2, <1>3, EventTypes, LogInvInit, LogInvStep, PTL DEF Spec

-----------------------------------------------------------------------------

(* Rows without a gap make a log: entry n of it is that of the row with     *)
(* sequence n.                                                              *)
LEMMA LogOfRows ==
  ASSUME NEW R \in SUBSET Row, Cardinality(R) \in Nat,
         {r.seq : r \in R} = 1 .. Cardinality(R),
         \A r, s \in R : r.seq = s.seq => r = s
  PROVE  /\ LogOf(R) \in Seq(Entry)
         /\ Len(LogOf(R)) = Cardinality(R)
         /\ \A r \in R : r.seq \in 1 .. Cardinality(R) /\ LogOf(R)[r.seq] = r.entry
         /\ \A n \in 1 .. Cardinality(R) : \E r \in R : r.seq = n
<1> DEFINE N == Cardinality(R)
           log == LogOf(R)
<1>1. \A n \in 1 .. N : \E r \in R : r.seq = n
  OBVIOUS
<1>2. \A r \in R : r.seq \in 1 .. N /\ EntryAt(R, r.seq) = r.entry
  BY DEF EntryAt
<1>3. \A n \in 1 .. N : EntryAt(R, n) \in Entry
  BY <1>1, <1>2 DEF Row
<1>4. log = [n \in 1 .. N |-> EntryAt(R, n)]
  BY DEF LogOf
<1> HIDE DEF N, log
<1>5. log \in [1 .. N -> Entry]
  BY <1>3, <1>4
<1>6. N \in Nat
  BY DEF N
<1>7. log \in Seq(Entry) /\ Len(log) = N
  BY <1>5, <1>6
<1>8. \A r \in R : r.seq \in 1 .. N /\ log[r.seq] = r.entry
  BY <1>2, <1>4
<1> QED BY <1>1, <1>7, <1>8 DEF N, log

(* Two sequences of the same length with the same elements are the same.    *)
LEMMA SameLog ==
  ASSUME NEW s \in Seq(Entry), NEW u \in Seq(Entry), Len(s) = Len(u),
         \A n \in 1 .. Len(s) : s[n] = u[n]
  PROVE  s = u
OBVIOUS

(* run_events implements an append-only log in order of time.               *)
THEOREM EventsImplementAppendLog == Spec => IsAppendLog
<1>1. Init => L!LogInit
  <2> SUFFICES ASSUME Init PROVE LogOf({}) = << >>
    BY DEF Init, L!LogInit
  <2> QED BY FS_EmptySet DEF LogOf
<1>2. TypeOK /\ LogInv /\ TypeOK' /\ LogInv' /\ [Next]_vars => [L!LogNext]_(LogOf(rows))
  <2> SUFFICES ASSUME TypeOK, LogInv, TypeOK', LogInv', [Next]_vars, rows' # rows
               PROVE  L!LogNext
    OBVIOUS
  <2>1. PICK e \in Emitter : Insert(e)
    BY OnlyInsertAdds
  <2> DEFINE N == Cardinality(rows)
             new == NewRow(e)
             old == LogOf(rows)
             grown == LogOf(rows')
  <2>2. /\ N \in Nat /\ Cardinality(rows') = N + 1
        /\ rows' = rows \cup {new} /\ new.seq = N + 1
        /\ \A r \in rows : r.entry.at <= new.entry.at
    BY <2>1, InsertComesNext DEF Insert, NewRow
  <2>3. new.entry \in Entry
    BY <2>1, <2>2 DEF TypeOK, Row
  <2>4. /\ old \in Seq(Entry) /\ Len(old) = N
        /\ \A r \in rows : r.seq \in 1 .. N /\ old[r.seq] = r.entry
        /\ \A n \in 1 .. N : \E r \in rows : r.seq = n
    BY <2>2, LogOfRows DEF LogInv, GapFree, TypeOK
  <2>5. /\ grown \in Seq(Entry) /\ Len(grown) = N + 1
        /\ \A r \in rows' : grown[r.seq] = r.entry
    <3>1. rows' \in SUBSET Row
      BY DEF TypeOK
    <3>2. /\ {r.seq : r \in rows'} = 1 .. Cardinality(rows')
          /\ \A r, s \in rows' : r.seq = s.seq => r = s
      BY DEF LogInv, GapFree
    <3>3. Cardinality(rows') \in Nat
      BY <2>2
    <3> HIDE DEF N, new, old
    <3> QED BY <2>2, <3>1, <3>2, <3>3, LogOfRows
  <2> HIDE DEF N, new, old, grown
  <2>6. \A n \in 1 .. N : grown[n] = old[n]
    BY <2>2, <2>4, <2>5
  <2>7. grown[N + 1] = new.entry
    BY <2>2, <2>5
  <2>8. grown = Append(old, new.entry)
    <3>1. Append(old, new.entry) \in Seq(Entry) /\ Len(Append(old, new.entry)) = N + 1
      BY <2>3, <2>4
    <3>2. \A n \in 1 .. N + 1 : grown[n] = Append(old, new.entry)[n]
      BY <2>2, <2>3, <2>4, <2>6, <2>7
    <3> QED BY <2>5, <3>1, <3>2, SameLog
  <2>9. \A n \in 1 .. Len(old) : old[n].at <= new.entry.at
    BY <2>2, <2>4
  <2> QED BY <2>3, <2>8, <2>9 DEF L!LogNext, L!InTime, old, grown
<1> QED BY <1>1, <1>2, EventTypes, LogInvInit, LogInvStep, PTL
        DEF Spec, IsAppendLog, L!LogSpec
=============================================================================
