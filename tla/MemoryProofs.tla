---------------------------- MODULE MemoryProofs -----------------------------
(***************************************************************************)
(* For any contents, candidates, writers, batches and bounds: a content of  *)
(* the memory is kept once and counted right, a record refers to a memory   *)
(* of its own, and recall skips what is superseded.                         *)
(***************************************************************************)
EXTENDS Memory, FiniteSetTheorems, TLAPS

(* What a writer that has something to write holds.                         *)
WriterPlace == {"accept", "supersede", "merge", "overwrite", "insert", "upsert", "improve"}
Busy == [at : WriterPlace, cand : Candidates, sup : Nat, ref : Ref, old : Ref, seen : Nat]
MaintPlace == {"idle", "mark", "mark done", "merge", "merge done", "clean", "clean done",
               "purge"}

(* The types, with the bounds of the counters left to WritesSuffice.        *)
RowShape ==
  [key : Key, version : Nat, quality : 0..100, ref : Ref, sup : {None} \cup Live,
   retention : Retention, created : 0..now, used : 0..now, stale : Never..now]

(* The ids given are 1 to their number, so that the next one is new.        *)
Numbered ==
  /\ IsFiniteSet(DOMAIN bumps) /\ DOMAIN bumps = 1 .. Cardinality(DOMAIN bumps)
  /\ \A r \in DOMAIN bumps : bumps[r] \in Nat
  /\ Live \subseteq DOMAIN bumps

Shapes ==
  /\ provider \in Providers
  /\ \A r \in Live : rows[r] \in RowShape
  /\ \A e \in DOMAIN remote : remote[e] \in Key
  /\ idless \subseteq Key
  /\ writes \in 0..MaxWrites /\ stored \in Nat /\ now \in 0..MaxNow
  /\ since \cup during \cup maint.hit \subseteq DOMAIN bumps
  /\ wr \in [Writer -> Busy \cup {Idle}]
  /\ maint \in [at : MaintPlace, hit : SUBSET Nat, passes : Nat]
  /\ Numbered

(* Those who still write, and those who may still add a memory to mem0.     *)
Active == {w \in Writer : wr[w] # Idle}
Storing == {w \in Active : wr[w].at \in {"accept", "supersede", "merge", "overwrite"}}

(* Each write gives one id or one version, and adds one memory, at most.    *)
WritesSuffice ==
  /\ IsFiniteSet(Active)
  /\ Cardinality(DOMAIN bumps) + Cardinality(Active) <= writes
  /\ \A r \in DOMAIN bumps : bumps[r] + Cardinality(Active) <= writes
  /\ stored + Cardinality(Storing) <= writes

OneOfAKey == \A q, r \in Live : rows[q].key = rows[r].key => q = r
VersionsCount == \A r \in Live : rows[r].version = bumps[r] + 1

(* If it refers to a memory of mem0, one that has the content k, when mem0  *)
(* holds m, or the memory "unknown" where k is one of s.                    *)
Owns(m, s, ref, k) ==
  ref \in Mem0Ref => IF ref = Unknown THEN k \in s ELSE ref \in DOMAIN m /\ m[ref] = k

(* No candidate names a memory of mem0 itself.                              *)
NamesNoMemory == \A c \in Candidates : c.ref \notin Mem0Ref

MemoriesOwned ==
  /\ DOMAIN remote \subseteq {Mem0(n) : n \in 0 .. stored}
  /\ Unknown \in DOMAIN remote => remote[Unknown] \in idless
  /\ \A r \in Live : Owns(remote, idless, rows[r].ref, rows[r].key)
  /\ \A w \in Active : /\ Owns(remote, idless, wr[w].ref, wr[w].cand.key)
                       /\ Owns(remote, idless, wr[w].old, wr[w].cand.key)

IInv ==
  /\ Shapes /\ WritesSuffice
  /\ OneOfAKey /\ VersionsCount

(* Where a pass has retired what was superseded before it began.            *)
Merged == {"merge done", "clean", "clean done", "purge"}
RetiredBut(new, marked) ==
  \A q, r \in Live \ new : rows[q].sup = r => r \in marked \/ rows[r].stale # Never

PassInv ==
  /\ RetiredBut(since, {})
  /\ maint.at = "merge" => RetiredBut(during, maint.hit)
  /\ maint.at \in Merged => RetiredBut(during, {})

-----------------------------------------------------------------------------
(* Types.                                                                   *)

(* The counters are within numbers.                                         *)
LEMMA Bounds ==
  ASSUME Shapes
  PROVE  /\ MaxWrites \in Nat /\ MaxNow \in Nat
         /\ writes \in Nat /\ now \in Nat /\ stored \in Nat
<1>1. MaxWrites \in Nat /\ MaxNow \in Nat
  BY MemoryAssumption
<1>2. writes \in 0 .. MaxWrites /\ now \in 0 .. MaxNow /\ stored \in Nat
  BY DEF Shapes
<1> QED BY <1>1, <1>2

(* The next id is new, and ids are numbers that are not None.               *)
LEMMA NewId ==
  ASSUME Numbered
  PROVE  /\ Cardinality(DOMAIN bumps) \in Nat
         /\ Cardinality(DOMAIN bumps) + 1 \notin DOMAIN bumps
         /\ Live \subseteq Nat \ {None} /\ DOMAIN bumps \subseteq Nat \ {None}
<1>1. Cardinality(DOMAIN bumps) \in Nat
  BY FS_CardinalityType DEF Numbered
<1> QED BY <1>1 DEF Numbered, None

(* More stored memories, more references.                                   *)
LEMMA RefGrows ==
  ASSUME stored \in Nat, stored' \in Nat, stored <= stored'
  PROVE  Ref \subseteq Ref' /\ \A n \in 0 .. stored' : Mem0(n) \in Ref'
BY DEF Ref, Mem0Ref, Mem0

(* A writer that is not idle is busy.                                       *)
LEMMA WriterBusy ==
  ASSUME Shapes, NEW w \in Writer, wr[w].at # "idle"
  PROVE  wr[w] \in Busy
BY DEF Shapes, Idle

(* The insert of a record keeps the ids numbered and the rows well shaped.  *)
LEMMA InsertShapes ==
  ASSUME Shapes, NEW w \in Writer, wr[w].at # "idle", Insert(w), UNCHANGED <<now, stored, maint>>
  PROVE  /\ \A r \in Live' : rows'[r] \in RowShape'
         /\ since' \cup during' \cup maint'.hit \subseteq DOMAIN bumps'
         /\ Numbered'
<1> DEFINE n == Cardinality(DOMAIN bumps)
           id == n + 1
           new == Record(w, 1, wr[w].sup, now)
<1>0. wr[w] \in Busy
  BY WriterBusy
<1>1. n \in Nat /\ id \notin DOMAIN bumps /\ Live \subseteq Nat \ {None}
  BY NewId DEF Shapes
<1>2. CASE UNCHANGED dbVars
  <2>1. RowShape' = RowShape /\ Live' = Live
    BY <1>2 DEF RowShape, Ref, Live, dbVars
  <2> QED BY <1>2, <2>1 DEF dbVars, Shapes, Numbered, Live
<1>3. CASE /\ wr[w].sup \in Live \cup {None}
           /\ rows' = Put(rows, id, new) /\ bumps' = Put(bumps, id, 0) /\ Wrote(id)
  <2>1. /\ Live' = Live \cup {id} /\ rows'[id] = new
        /\ \A r \in Live : rows'[r] = rows[r]
    BY <1>1, <1>3 DEF Put, Live, Shapes, Numbered
  <2>2. /\ DOMAIN bumps' = DOMAIN bumps \cup {id} /\ bumps'[id] = 0
        /\ \A r \in DOMAIN bumps : bumps'[r] = bumps[r]
    BY <1>1, <1>3 DEF Put
  <2>3. IsFiniteSet(DOMAIN bumps') /\ Cardinality(DOMAIN bumps') = n + 1
    BY <1>1, <2>2, FS_AddElement DEF Shapes, Numbered
  <2>4. DOMAIN bumps' = 1 .. n + 1
    BY <1>1, <2>2 DEF Shapes, Numbered
  <2>5. Numbered'
    <3>1. IsFiniteSet(DOMAIN bumps') /\ DOMAIN bumps' = 1 .. Cardinality(DOMAIN bumps')
      BY <2>3, <2>4
    <3>2. \A r \in DOMAIN bumps' : bumps'[r] \in Nat
      BY <2>2 DEF Shapes, Numbered
    <3>3. Live' \subseteq DOMAIN bumps'
      BY <2>1, <2>2 DEF Shapes, Numbered
    <3> QED BY <3>1, <3>2, <3>3 DEF Numbered
  <2>6. since' \cup during' \cup maint'.hit \subseteq DOMAIN bumps'
    BY <1>3, <2>2 DEF Shapes, Wrote
  <2>7. Ref' = Ref
    BY DEF Ref
  <2>8. wr[w].cand \in Candidate
    BY <1>0, MemoryAssumption DEF Busy
  <2>9. new \in RowShape'
    BY <1>0, <1>3, <2>1, <2>7, <2>8 DEF RowShape, Record, Busy, Candidate, Shapes, Never, Live
  <2>10. \A r \in Live : rows[r] \in RowShape'
    BY <2>1, <2>7 DEF RowShape, Shapes
  <2> QED BY <2>1, <2>5, <2>6, <2>9, <2>10
<1> QED BY <1>2, <1>3 DEF Insert

(* So does the insert or the update of a superseding write.                 *)
LEMMA SupersedingShapes ==
  ASSUME Shapes, NEW w \in Writer, StoreSuperseding(w)
  PROVE  /\ \A r \in Live' : rows'[r] \in RowShape'
         /\ since' \cup during' \cup maint'.hit \subseteq DOMAIN bumps'
         /\ Numbered'
<1>0. wr[w] \in Busy /\ UNCHANGED <<now, stored, maint>>
  BY WriterBusy DEF StoreSuperseding, fixedVars, remoteVars
<1>1. CASE Insert(w)
  BY <1>0, <1>1, InsertShapes DEF StoreSuperseding
<1>2. CASE UNCHANGED dbVars
  <2>1. RowShape' = RowShape /\ Live' = Live
    BY <1>0, <1>2 DEF RowShape, Ref, Live, dbVars
  <2> QED BY <1>0, <1>2, <2>1 DEF dbVars, Shapes, Numbered, Live
<1>3. ASSUME NEW r \in OfKey(wr[w].cand.key), wr[w].sup \in Live \cup {None},
             rows' = [rows EXCEPT ![r] = Rewrite(w, r)],
             bumps' = [bumps EXCEPT ![r] = @ + 1], Wrote(r)
      PROVE  /\ \A q \in Live' : rows'[q] \in RowShape'
             /\ since' \cup during' \cup maint'.hit \subseteq DOMAIN bumps'
             /\ Numbered'
  <2>1. r \in Live /\ r \in DOMAIN bumps /\ rows[r] \in RowShape
    BY DEF OfKey, Shapes, Numbered
  <2>2. /\ Live' = Live /\ rows'[r] = Rewrite(w, r)
        /\ \A q \in Live \ {r} : rows'[q] = rows[q]
    BY <1>3, <2>1 DEF Live
  <2>3. /\ DOMAIN bumps' = DOMAIN bumps
        /\ \A q \in DOMAIN bumps : bumps'[q] \in Nat
    BY <1>3, <2>1 DEF Shapes, Numbered
  <2>4. Numbered'
    BY <2>2, <2>3 DEF Numbered, Shapes
  <2>5. since' \cup during' \cup maint'.hit \subseteq DOMAIN bumps'
    BY <1>0, <1>3, <2>1, <2>3 DEF Shapes, Wrote
  <2>6. RowShape' = RowShape
    BY <1>0, <2>2 DEF RowShape, Ref
  <2>7. wr[w].cand \in Candidate
    BY <1>0, MemoryAssumption DEF Busy
  <2>8. rows[r].created \in 0 .. now /\ rows[r].used \in 0 .. now /\ now \in Nat
        /\ rows[r].version + 1 \in Nat /\ rows[r].sup \in {None} \cup Live
    BY <2>1 DEF RowShape, Shapes
  <2>9. Rewrite(w, r) \in RowShape
    BY <1>0, <1>3, <2>7, <2>8 DEF Rewrite, RowShape, Record, Busy, Candidate, Never
  <2> QED BY <2>2, <2>4, <2>5, <2>6, <2>9 DEF Shapes
<1> QED BY <1>1, <1>2, <1>3 DEF StoreSuperseding

(* A step that leaves the rows alone has only its writers, its remote       *)
(* memories and its maintenance to answer for.                              *)
LEMMA QuietShapes ==
  ASSUME Shapes, UNCHANGED <<provider, rows, bumps, now>>,
         stored' \in Nat, stored <= stored', writes' \in 0..MaxWrites,
         \A e \in DOMAIN remote' : remote'[e] \in Key, idless' \subseteq Key,
         since' \cup during' \cup maint'.hit \subseteq DOMAIN bumps,
         wr' \in [Writer -> Busy' \cup {Idle}],
         maint' \in [at : MaintPlace, hit : SUBSET Nat, passes : Nat]
  PROVE  Shapes'
<1>1. Ref \subseteq Ref'
  BY RefGrows DEF Shapes
<1>2. RowShape \subseteq RowShape'
  BY <1>1 DEF RowShape, Live
<1>3. Numbered'
  BY DEF Shapes, Numbered, Live
<1> QED BY <1>2, <1>3 DEF Shapes, Live

(* One writer goes on.                                                      *)
LEMMA OneWriter ==
  ASSUME Shapes, stored' \in Nat, stored <= stored', NEW w \in Writer,
         \E x \in Busy' \cup {Idle} : wr' = [wr EXCEPT ![w] = x]
  PROVE  wr' \in [Writer -> Busy' \cup {Idle}]
<1>1. Ref \subseteq Ref'
  BY RefGrows DEF Shapes
<1>2. Busy \subseteq Busy'
  BY <1>1 DEF Busy
<1> QED BY <1>2 DEF Shapes

(* The steps of a write up to its record.                                   *)
LEMMA WritingShapes ==
  ASSUME Shapes, NEW w \in Writer,
         \/ \E c \in Candidates, sup \in Live \cup {None} : Evaluate(w, c, sup)
         \/ Lookup(w) \/ OpenVikingWrite(w) \/ \E o \in Outcomes : Mem0Write(w, o)
         \/ MergeRead(w)
  PROVE  Shapes'
<1>1. ASSUME NEW c \in Candidates, NEW sup \in Live \cup {None}, Evaluate(w, c, sup)
      PROVE  Shapes'
  <2> DEFINE x == [at |-> Governed(c, sup), cand |-> c, sup |-> sup, ref |-> c.ref,
                   old |-> Empty, seen |-> None]
  <2>1. Governed(c, sup) \in {"accept", "supersede", "merge"}
    BY <1>1 DEF Evaluate, Governed
  <2>2. sup \in Nat /\ None \in Nat
    BY NewId DEF Shapes, None
  <2>3. c.ref \in Ref /\ Empty \in Ref
    BY MemoryAssumption DEF Candidate, Ref
  <2>4. x \in Busy
    BY <2>1, <2>2, <2>3 DEF Busy, WriterPlace
  <2>5. /\ wr' = [wr EXCEPT ![w] = x] /\ writes' = writes + 1 /\ writes < MaxWrites
        /\ UNCHANGED <<fixedVars, dbVars, remoteVars, maint>>
    BY <1>1 DEF Evaluate
  <2>6. stored \in Nat /\ stored' \in Nat /\ stored <= stored' /\ Busy' = Busy
    BY <2>5 DEF remoteVars, Busy, Ref, Shapes
  <2> HIDE DEF x
  <2>7. wr' \in [Writer -> Busy' \cup {Idle}]
    BY <2>4, <2>5, <2>6, OneWriter
  <2>8. writes' \in 0 .. MaxWrites
    <3>1. writes \in Nat /\ MaxWrites \in Nat
      BY Bounds
    <3> QED BY <2>5, <3>1
  <2> QED BY <2>5, <2>6, <2>7, <2>8, QuietShapes DEF Shapes, fixedVars, dbVars, remoteVars
<1>2. CASE Lookup(w)
  <2> DEFINE x == [wr[w] EXCEPT !.at = "overwrite",
                                !.old = IF Overwrites(w) = {} THEN Empty
                                        ELSE rows[CHOOSE r \in Overwrites(w) : TRUE].ref]
  <2>1. wr[w] \in Busy
    BY <1>2, WriterBusy DEF Lookup
  <2>2. \A r \in Overwrites(w) : rows[r].ref \in Ref
    BY DEF Overwrites, OfKey, Shapes, RowShape
  <2>3. (IF Overwrites(w) = {} THEN Empty
         ELSE rows[CHOOSE r \in Overwrites(w) : TRUE].ref) \in Ref
    BY <2>2 DEF Ref
  <2>4. x \in Busy
    BY <2>1, <2>3 DEF Busy, WriterPlace
  <2>5. wr' = [wr EXCEPT ![w] = x] /\ UNCHANGED <<fixedVars, dbVars, remoteVars, writes, maint>>
    BY <1>2 DEF Lookup, Shapes
  <2>6. stored \in Nat /\ stored' \in Nat /\ stored <= stored' /\ Busy' = Busy
    BY <2>5 DEF remoteVars, Busy, Ref, Shapes
  <2> HIDE DEF x
  <2>7. wr' \in [Writer -> Busy' \cup {Idle}]
    BY <2>4, <2>5, <2>6, OneWriter
  <2> QED BY <2>5, <2>6, <2>7, QuietShapes DEF Shapes, fixedVars, dbVars, remoteVars
<1>3. CASE OpenVikingWrite(w)
  <2>1. wr[w] \in Busy /\ wr[w].cand \in Candidate
    BY <1>3, WriterBusy, MemoryAssumption DEF OpenVikingWrite, Busy
  <2>2. PICK got \in {Uri(wr[w].cand.key), wr[w].cand.ref} : Answered(w, got)
    BY <1>3 DEF OpenVikingWrite
  <2>3. got \in Ref /\ Empty \in Ref
    BY <2>1, <2>2 DEF Ref, Candidate
  <2> DEFINE x == [wr[w] EXCEPT !.at = IF wr[w].at = "accept" THEN "insert" ELSE "upsert",
                                !.ref = got, !.old = Empty]
  <2>4. x \in Busy
    BY <2>1, <2>3 DEF Busy, WriterPlace
  <2>5. wr' = [wr EXCEPT ![w] = x] /\ UNCHANGED <<fixedVars, dbVars, remoteVars, writes, maint>>
    BY <1>3, <2>2 DEF OpenVikingWrite, Answered, Shapes
  <2>6. stored \in Nat /\ stored' \in Nat /\ stored <= stored' /\ Busy' = Busy
    BY <2>5 DEF remoteVars, Busy, Ref, Shapes
  <2> HIDE DEF x
  <2>7. wr' \in [Writer -> Busy' \cup {Idle}]
    BY <2>4, <2>5, <2>6, OneWriter
  <2> QED BY <2>5, <2>6, <2>7, QuietShapes DEF Shapes, fixedVars, dbVars, remoteVars
<1>4. ASSUME NEW o \in Outcomes, Mem0Write(w, o) PROVE Shapes'
  <2> DEFINE old == wr[w].old
             updates == old \in Mem0Ref
             ref == IF updates THEN old ELSE Mem0(stored + 1)
             lacksId == o = "no id" /\ ~updates
             got == CASE o \in {"lost", "refused"} -> wr[w].cand.ref
                      [] lacksId -> Unknown
                      [] OTHER -> ref
             x == [wr[w] EXCEPT !.at = IF wr[w].at = "accept" THEN "insert" ELSE "upsert",
                                !.ref = got, !.old = Empty]
  <2>1. wr[w] \in Busy /\ wr[w].cand \in Candidate
    BY <1>4, WriterBusy, MemoryAssumption DEF Mem0Write, Busy
  <2>2. /\ remote' = IF o = "refused" THEN remote ELSE Put(remote, ref, wr[w].cand.key)
        /\ stored' = IF o = "refused" \/ updates THEN stored ELSE stored + 1
        /\ idless' = IF lacksId THEN idless \cup {wr[w].cand.key} ELSE idless
        /\ Answered(w, got)
        /\ UNCHANGED <<fixedVars, dbVars, writes, maint>>
    BY <1>4 DEF Mem0Write
  <2>3. stored \in Nat /\ stored' \in Nat /\ stored <= stored'
    <3>1. stored \in Nat
      BY DEF Shapes
    <3>2. stored' = stored \/ stored' = stored + 1
      BY <2>2
    <3> QED BY <3>1, <3>2
  <2>4. Ref \subseteq Ref' /\ Unknown \in Ref' /\ Mem0(stored') \in Ref'
    BY <2>3, RefGrows DEF Unknown
  <2>5. wr[w].cand.ref \in Ref' /\ wr[w].old \in Ref' /\ Empty \in Ref'
    BY <2>1, <2>4 DEF Busy, Candidate, Ref
  <2>6. got \in Ref'
    <3>1. CASE o \in {"lost", "refused"}
      BY <3>1, <2>5
    <3>2. CASE o \notin {"lost", "refused"} /\ lacksId
      BY <3>2, <2>4
    <3>3. CASE o \notin {"lost", "refused"} /\ ~lacksId
      <4>1. got = ref
        BY <3>3
      <4>2. CASE updates
        BY <4>1, <4>2, <2>5
      <4>3. CASE ~updates
        BY <4>1, <4>3, <3>3, <2>2, <2>4
      <4> QED BY <4>2, <4>3
    <3> QED BY <3>1, <3>2, <3>3
  <2>7. x \in Busy'
    <3> HIDE DEF got
    <3>1. wr[w] \in Busy'
      BY <2>1, <2>4 DEF Busy
    <3> QED BY <2>5, <2>6, <3>1 DEF Busy, WriterPlace
  <2>8. wr' = [wr EXCEPT ![w] = x]
    BY <2>2 DEF Answered, Shapes
  <2>9. (\A e \in DOMAIN remote' : remote'[e] \in Key) /\ idless' \subseteq Key
    BY <2>1, <2>2 DEF Put, Shapes, Candidate
  <2> HIDE DEF x, got, ref, updates, lacksId
  <2>10. wr' \in [Writer -> Busy' \cup {Idle}]
    BY <2>3, <2>7, <2>8, OneWriter
  <2> QED BY <2>2, <2>3, <2>9, <2>10, QuietShapes DEF Shapes, fixedVars, dbVars
<1>5. CASE MergeRead(w)
  <2>1. wr[w] \in Busy
    BY <1>5, WriterBusy DEF MergeRead
  <2>2. UNCHANGED <<fixedVars, dbVars, remoteVars, writes, maint>>
    BY <1>5 DEF MergeRead
  <2>3. stored \in Nat /\ stored' \in Nat /\ stored <= stored' /\ Busy' = Busy
    BY <2>2 DEF remoteVars, Busy, Ref, Shapes
  <2>4. \A r \in OfKey(wr[w].cand.key) : r \in Nat
    BY NewId DEF OfKey, Shapes
  <2>5. \E x \in Busy \cup {Idle} : wr' = [wr EXCEPT ![w] = x]
    <3>1. CASE wr' = [wr EXCEPT ![w].at = "accept"]
      <4>1. wr' = [wr EXCEPT ![w] = [wr[w] EXCEPT !.at = "accept"]]
        BY <3>1 DEF Shapes
      <4>2. [wr[w] EXCEPT !.at = "accept"] \in Busy
        BY <2>1 DEF Busy, WriterPlace
      <4> QED BY <4>1, <4>2
    <3>2. ASSUME NEW r \in OfKey(wr[w].cand.key),
                 wr' = [wr EXCEPT ![w].at = "improve", ![w].seen = r]
          PROVE  \E x \in Busy \cup {Idle} : wr' = [wr EXCEPT ![w] = x]
      <4>1. wr' = [wr EXCEPT ![w] = [wr[w] EXCEPT !.at = "improve", !.seen = r]]
        BY <3>2 DEF Shapes
      <4>2. [wr[w] EXCEPT !.at = "improve", !.seen = r] \in Busy
        BY <2>1, <2>4 DEF Busy, WriterPlace
      <4> QED BY <4>1, <4>2
    <3>3. CASE wr' = [wr EXCEPT ![w] = Idle]
      BY <3>3
    <3> QED BY <1>5, <3>1, <3>2, <3>3 DEF MergeRead
  <2>6. wr' \in [Writer -> Busy' \cup {Idle}]
    BY <2>3, <2>5, OneWriter
  <2> QED BY <2>2, <2>3, <2>6, QuietShapes DEF Shapes, fixedVars, dbVars, remoteVars
<1> QED BY <1>1, <1>2, <1>3, <1>4, <1>5

(* What a batch holds.                                                      *)
LEMMA BatchIsSubset == ASSUME NEW S, NEW b \in Batches(S) PROVE b \subseteq S
BY DEF Batches, kSubset

(* The parts of maintenance that only select.                               *)
LEMMA SelectShapes ==
  ASSUME Shapes, MarkSelect \/ MergeSelect \/ CleanSelect \/ PurgeSelect
  PROVE  Shapes'
<1>1. Live \subseteq Nat /\ Live \subseteq DOMAIN bumps
  BY NewId DEF Shapes, Numbered
<1>2. ASSUME NEW from \in MaintPlace, NEW to \in MaintPlace, NEW hit,
             \A p \in hit : p \subseteq Live,
             Part(from, to, hit), during' = during \/ during' = {}
      PROVE  Shapes'
  <2>1. /\ UNCHANGED <<fixedVars, rows, bumps, since, remoteVars, writes, wr>>
        /\ \E p \in SUBSET Live : maint' = [maint EXCEPT !.at = to, !.hit = p]
    BY <1>2 DEF Part
  <2>2. PICK p \in SUBSET Live : maint' = [maint EXCEPT !.at = to, !.hit = p]
    BY <2>1
  <2>3. maint' \in [at : MaintPlace, hit : SUBSET Nat, passes : Nat] /\ maint'.hit = p
    BY <1>1, <2>2 DEF Shapes
  <2>4. since' \cup during' \cup maint'.hit \subseteq DOMAIN bumps
    BY <1>1, <1>2, <2>1, <2>3 DEF Shapes
  <2>5. stored' \in Nat /\ stored <= stored' /\ Busy' = Busy
    BY <2>1, Bounds DEF remoteVars, Busy, Ref
  <2> QED BY <2>1, <2>3, <2>4, <2>5, QuietShapes DEF fixedVars, remoteVars, Shapes
<1>3. CASE MarkSelect
  <2> DEFINE hit == {picked \in SUBSET Live : \A p \in Retention :
                       {r \in picked : rows[r].retention = p} \in
                         (IF p = "keep" THEN {{}} ELSE Batches(Expired(p)))}
  <2>1. Part("idle", "mark", hit) /\ during' = {}
    BY <1>3 DEF MarkSelect
  <2>2. \A p \in hit : p \subseteq Live
    OBVIOUS
  <2> HIDE DEF hit
  <2> QED BY <1>2, <2>1, <2>2 DEF MaintPlace
<1>4. CASE MergeSelect
  <2> DEFINE hit == {{rows[r].sup : r \in b} : b \in Batches(Superseding)}
  <2>1. Part("mark done", "merge", hit) /\ during' = during
    BY <1>4 DEF MergeSelect
  <2>2. ASSUME NEW b \in Batches(Superseding) PROVE {rows[r].sup : r \in b} \subseteq Live
    BY <2>2, BatchIsSubset DEF Superseding, Shapes, RowShape
  <2>3. \A p \in hit : p \subseteq Live
    BY <2>2
  <2> HIDE DEF hit
  <2> QED BY <1>2, <2>1, <2>3 DEF MaintPlace
<1>5. CASE CleanSelect
  <2> DEFINE S == {r \in Live : rows[r].ref = Empty}
  <2>1. Part("merge done", "clean", Batches(S)) /\ during' = during
    BY <1>5 DEF CleanSelect
  <2>2. \A p \in Batches(S) : p \subseteq Live
    BY BatchIsSubset
  <2> QED BY <1>2, <2>1, <2>2 DEF MaintPlace
<1>6. CASE PurgeSelect
  <2> DEFINE S == {r \in Live : rows[r].stale # Never /\ rows[r].stale + PurgeAge < now}
  <2>1. Part("clean done", "purge", Batches(S)) /\ during' = during
    BY <1>6 DEF PurgeSelect
  <2>2. \A p \in Batches(S) : p \subseteq Live
    BY BatchIsSubset
  <2> QED BY <1>2, <2>1, <2>2 DEF MaintPlace
<1> QED BY <1>3, <1>4, <1>5, <1>6

(* What upkeep of the rows never changes: deleting, retiring, counting a    *)
(* use and improving leave a record its content, version and reference.     *)
Upkept ==
  /\ bumps' = bumps /\ Live' \subseteq Live
  /\ \A r \in Live' : /\ rows'[r].key = rows[r].key
                      /\ rows'[r].version = rows[r].version
                      /\ rows'[r].ref = rows[r].ref

(* The steps that keep the rows up.                                         *)
LEMMA UpkeepShapes ==
  ASSUME Shapes, Retire \/ Purge \/ Recall \/ \E w \in Writer : MergeWrite(w)
  PROVE  Shapes' /\ Upkept
<1>0. /\ UNCHANGED <<fixedVars, bumps, remoteVars, writes>> /\ Ref' = Ref /\ Busy' = Busy
      /\ now \in Nat /\ stored \in Nat
  BY Bounds DEF Retire, Purge, Recall, MergeWrite, fixedVars, remoteVars, Ref, Busy
<1>1. ASSUME NEW S \in SUBSET Live, DOMAIN rows' = S,
             \A r \in S : /\ rows'[r] \in RowShape'
                          /\ rows'[r].key = rows[r].key /\ rows'[r].version = rows[r].version
                          /\ rows'[r].ref = rows[r].ref,
             wr' \in [Writer -> Busy \cup {Idle}],
             maint' \in [at : MaintPlace, hit : SUBSET Nat, passes : Nat],
             since' \cup during' \cup maint'.hit \subseteq DOMAIN bumps
      PROVE  Shapes' /\ Upkept
  <2>1. Live' = S
    BY <1>1 DEF Live
  <2>2. Numbered'
    BY <1>0, <2>1 DEF Shapes, Numbered
  <2> QED BY <1>0, <1>1, <2>1, <2>2 DEF Shapes, Upkept, fixedVars, remoteVars
<1>2. CASE Retire
  <2>1. /\ rows' = [r \in Live |-> IF r \in maint.hit THEN [rows[r] EXCEPT !.stale = now]
                                   ELSE rows[r]]
        /\ UNCHANGED <<since, during, wr>>
    BY <1>2 DEF Retire
  <2>2. /\ maint' \in [at : MaintPlace, hit : SUBSET Nat, passes : Nat]
        /\ maint'.hit = {}
    BY <1>2 DEF Retire, Shapes, MaintPlace
  <2>3. DOMAIN rows' = Live /\ RowShape' = RowShape
    BY <1>0, <2>1 DEF RowShape, Live, fixedVars
  <2>4. \A r \in Live : /\ rows'[r] \in RowShape
                        /\ rows'[r].key = rows[r].key /\ rows'[r].version = rows[r].version
                        /\ rows'[r].ref = rows[r].ref
    BY <1>0, <2>1 DEF RowShape, Shapes, Never
  <2>5. since' \cup during' \cup maint'.hit \subseteq DOMAIN bumps
    BY <2>1, <2>2 DEF Shapes
  <2> QED BY <1>1, <2>1, <2>2, <2>3, <2>4, <2>5 DEF Shapes
<1>3. CASE Purge
  <2>1. /\ rows' = Without(maint.hit) /\ since' = during /\ during' = {} /\ wr' = wr
        /\ maint' = [at |-> "idle", hit |-> {}, passes |-> maint.passes + 1]
    BY <1>3 DEF Purge
  <2>2. DOMAIN rows' = Live \ maint.hit /\ Live' = Live \ maint.hit
    BY <2>1 DEF Without, Live
  <2>3. \A r \in Live \ maint.hit :
          /\ rows'[r] \in RowShape'
          /\ rows'[r].key = rows[r].key /\ rows'[r].version = rows[r].version
          /\ rows'[r].ref = rows[r].ref
    <3> SUFFICES ASSUME NEW r \in Live \ maint.hit
                 PROVE  /\ rows'[r] \in RowShape'
                        /\ rows'[r].key = rows[r].key /\ rows'[r].version = rows[r].version
                        /\ rows'[r].ref = rows[r].ref
      OBVIOUS
    <3>1. rows[r] \in RowShape
      BY DEF Shapes
    <3>2. rows'[r] = IF rows[r].sup \in maint.hit THEN [rows[r] EXCEPT !.sup = None] ELSE rows[r]
      BY <2>1 DEF Without
    <3>3. CASE rows[r].sup \in maint.hit
      BY <1>0, <2>2, <3>1, <3>2, <3>3 DEF RowShape, fixedVars
    <3>4. CASE rows[r].sup \notin maint.hit
      BY <1>0, <2>2, <3>1, <3>2, <3>4 DEF RowShape, fixedVars
    <3> QED BY <3>3, <3>4
  <2>4. maint' \in [at : MaintPlace, hit : SUBSET Nat, passes : Nat]
    <3>1. maint.passes \in Nat
      BY DEF Shapes
    <3>2. maint.passes + 1 \in Nat
      BY <3>1
    <3> QED BY <2>1, <3>2 DEF MaintPlace
  <2>5. since' \cup during' \cup maint'.hit \subseteq DOMAIN bumps
    BY <2>1 DEF Shapes
  <2> QED BY <1>1, <2>1, <2>2, <2>3, <2>4, <2>5 DEF Shapes
<1>4. CASE Recall
  <2>1. PICK top \in Answers \ {{}} :
          rows' = [r \in Live |-> IF r \in top THEN [rows[r] EXCEPT !.used = now] ELSE rows[r]]
    BY <1>4 DEF Recall
  <2>2. UNCHANGED <<since, during, wr, maint>>
    BY <1>4 DEF Recall
  <2>3. DOMAIN rows' = Live /\ RowShape' = RowShape
    BY <1>0, <2>1 DEF RowShape, Live, fixedVars
  <2>4. \A r \in Live : /\ rows'[r] \in RowShape
                        /\ rows'[r].key = rows[r].key /\ rows'[r].version = rows[r].version
                        /\ rows'[r].ref = rows[r].ref
    BY <1>0, <2>1 DEF RowShape, Shapes
  <2> QED BY <1>1, <2>2, <2>3, <2>4 DEF Shapes
<1>5. ASSUME NEW w \in Writer, MergeWrite(w) PROVE Shapes' /\ Upkept
  <2>1. wr[w] \in Busy /\ wr[w].cand.quality \in 0..100
    BY <1>5, WriterBusy, MemoryAssumption DEF MergeWrite, Busy, Candidate
  <2>2. /\ rows' = IF wr[w].seen \in Live
                   THEN [rows EXCEPT ![wr[w].seen].quality = wr[w].cand.quality] ELSE rows
        /\ wr' = [wr EXCEPT ![w] = Idle] /\ UNCHANGED <<since, during, maint>>
    BY <1>5 DEF MergeWrite
  <2>3. DOMAIN rows' = Live /\ RowShape' = RowShape
    BY <1>0, <2>2 DEF RowShape, Live, fixedVars
  <2>4. \A r \in Live : /\ rows'[r] \in RowShape
                        /\ rows'[r].key = rows[r].key /\ rows'[r].version = rows[r].version
                        /\ rows'[r].ref = rows[r].ref
    <3>1. CASE wr[w].seen \notin Live
      BY <2>2, <3>1 DEF Shapes
    <3>2. CASE wr[w].seen \in Live
      <4>1. rows' = [rows EXCEPT ![wr[w].seen] =
                       [rows[wr[w].seen] EXCEPT !.quality = wr[w].cand.quality]]
        BY <2>2, <3>2 DEF Live
      <4>2. \A r \in Live : rows[r] \in RowShape
        BY DEF Shapes
      <4>3. \A r \in Live : rows'[r] = IF r = wr[w].seen
                                       THEN [rows[r] EXCEPT !.quality = wr[w].cand.quality]
                                       ELSE rows[r]
        BY <4>1 DEF Live
      <4>4. ASSUME NEW r \in Live, NEW x, rows'[r] = [rows[r] EXCEPT !.quality = x], x \in 0..100
            PROVE  /\ rows'[r] \in RowShape
                   /\ rows'[r].key = rows[r].key /\ rows'[r].version = rows[r].version
                   /\ rows'[r].ref = rows[r].ref
        BY <4>2, <4>4 DEF RowShape
      <4> QED BY <2>1, <4>2, <4>3, <4>4
    <3> QED BY <3>1, <3>2
  <2>5. wr' \in [Writer -> Busy \cup {Idle}]
    BY <2>2 DEF Shapes
  <2> QED BY <1>1, <2>2, <2>3, <2>4, <2>5 DEF Shapes
<1> QED BY <1>2, <1>3, <1>4, <1>5

(* Each step keeps the types.                                               *)
LEMMA ShapesStep == Shapes /\ [Next]_vars => Shapes'
<1> SUFFICES ASSUME Shapes, [Next]_vars PROVE Shapes'
  OBVIOUS
<1>1. ASSUME NEW w \in Writer, StoreNew(w) PROVE Shapes'
  <2>1. /\ UNCHANGED <<fixedVars, remoteVars, writes, maint>>
        /\ wr' = [wr EXCEPT ![w] = Idle] /\ wr[w].at # "idle" /\ Insert(w)
    BY <1>1 DEF StoreNew
  <2>2. Busy' = Busy
    BY <2>1 DEF Busy, Ref, remoteVars
  <2>3. wr' \in [Writer -> Busy' \cup {Idle}]
    BY <2>1, <2>2 DEF Shapes
  <2> QED BY <2>1, <2>3, InsertShapes DEF Shapes, fixedVars, remoteVars
<1>2. ASSUME NEW w \in Writer, StoreSuperseding(w) PROVE Shapes'
  <2>1. /\ UNCHANGED <<fixedVars, remoteVars, writes, maint>>
        /\ wr' = [wr EXCEPT ![w] = Idle]
    BY <1>2 DEF StoreSuperseding
  <2>2. Busy' = Busy
    BY <2>1 DEF Busy, Ref, remoteVars
  <2>3. wr' \in [Writer -> Busy' \cup {Idle}]
    BY <2>1, <2>2 DEF Shapes
  <2> QED BY <1>2, <2>1, <2>3, SupersedingShapes DEF Shapes, fixedVars, remoteVars
<1>3. CASE Tick
  <2>1. now' \in 0 .. MaxNow /\ now' \in Nat /\ now' = now + 1 /\ now \in Nat
    BY <1>3, Bounds DEF Tick
  <2>2. UNCHANGED <<provider, dbVars, remoteVars, writes, wr, maint>>
    BY <1>3 DEF Tick
  <2>3. Live' = Live /\ Ref' = Ref /\ Busy' = Busy
    BY <2>2 DEF Live, Ref, Busy, dbVars, remoteVars
  <2>4. RowShape \subseteq RowShape'
    BY <2>1, <2>3 DEF RowShape, Never
  <2> QED BY <2>1, <2>2, <2>3, <2>4 DEF Shapes, Numbered, dbVars, remoteVars
<1>4. CASE UNCHANGED vars
  <2>1. Live' = Live /\ Ref' = Ref /\ Busy' = Busy
    BY <1>4 DEF vars, Live, Ref, Busy
  <2>2. RowShape' = RowShape
    BY <1>4, <2>1 DEF vars, RowShape
  <2> QED BY <1>4, <2>1, <2>2 DEF vars, Shapes, Numbered
<1> QED
  BY <1>1, <1>2, <1>3, <1>4, WritingShapes, SelectShapes, UpkeepShapes DEF Next

-----------------------------------------------------------------------------
(* What the steps do to the records and to the writers.                     *)

(* The writer w commits its record: a new one, or a version of r.           *)
Commits(w) ==
  /\ wr[w].at \in {"insert", "upsert"} /\ wr' = [wr EXCEPT ![w] = Idle]
  /\ UNCHANGED <<provider, remoteVars, writes, maint, now>>

Inserted(w) ==
  LET id == Cardinality(DOMAIN bumps) + 1 IN
    /\ Commits(w) /\ OfKey(wr[w].cand.key) = {}
    /\ Live' = Live \cup {id} /\ rows'[id] = Record(w, 1, wr[w].sup, now)
    /\ \A r \in Live : rows'[r] = rows[r]
    /\ DOMAIN bumps' = DOMAIN bumps \cup {id} /\ bumps'[id] = 0
    /\ \A r \in DOMAIN bumps : bumps'[r] = bumps[r]
    /\ Wrote(id)

Rewritten(w, r) ==
  /\ Commits(w) /\ r \in OfKey(wr[w].cand.key)
  /\ Live' = Live /\ rows'[r] = Rewrite(w, r)
  /\ \A q \in Live \ {r} : rows'[q] = rows[q]
  /\ DOMAIN bumps' = DOMAIN bumps /\ bumps'[r] = bumps[r] + 1
  /\ \A q \in DOMAIN bumps \ {r} : bumps'[q] = bumps[q]
  /\ Wrote(r)

Refuses(w) == Commits(w) /\ UNCHANGED dbVars

(* A write that comes to its record commits it or is refused.               *)
LEMMA CommitSteps ==
  ASSUME Shapes, NEW w \in Writer, StoreNew(w) \/ StoreSuperseding(w)
  PROVE  Inserted(w) \/ Refuses(w) \/ \E r \in Live : Rewritten(w, r)
<1> DEFINE id == Cardinality(DOMAIN bumps) + 1
<1>1. Commits(w)
  BY DEF StoreNew, StoreSuperseding, Commits, fixedVars, remoteVars
<1>2. id \notin DOMAIN bumps /\ Live \subseteq DOMAIN bumps
  BY NewId DEF Shapes, Numbered
<1>4. CASE /\ OfKey(wr[w].cand.key) = {}
           /\ rows' = Put(rows, id, Record(w, 1, wr[w].sup, now))
           /\ bumps' = Put(bumps, id, 0) /\ Wrote(id)
  <2>1. /\ Live' = Live \cup {id} /\ rows'[id] = Record(w, 1, wr[w].sup, now)
        /\ \A r \in Live : rows'[r] = rows[r]
    BY <1>2, <1>4 DEF Put, Live
  <2>2. /\ DOMAIN bumps' = DOMAIN bumps \cup {id} /\ bumps'[id] = 0
        /\ \A r \in DOMAIN bumps : bumps'[r] = bumps[r]
    BY <1>2, <1>4 DEF Put
  <2> HIDE DEF id
  <2>3. Inserted(w)
    BY <1>1, <1>4, <2>1, <2>2 DEF Inserted, id
  <2> QED BY <2>3
<1>5. ASSUME NEW r \in OfKey(wr[w].cand.key), rows' = [rows EXCEPT ![r] = Rewrite(w, r)],
             bumps' = [bumps EXCEPT ![r] = @ + 1], Wrote(r)
      PROVE  \E q \in Live : Rewritten(w, q)
  <2>1. r \in Live /\ r \in DOMAIN bumps
    BY <1>2 DEF OfKey
  <2>2. Rewritten(w, r)
    BY <1>1, <1>5, <2>1 DEF Rewritten, Live
  <2> QED BY <2>1, <2>2
<1>6. CASE UNCHANGED dbVars
  BY <1>1, <1>6 DEF Refuses
<1>7. Insert(w) => \/ /\ OfKey(wr[w].cand.key) = {}
                       /\ rows' = Put(rows, id, Record(w, 1, wr[w].sup, now))
                       /\ bumps' = Put(bumps, id, 0) /\ Wrote(id)
                    \/ UNCHANGED dbVars
  BY DEF Insert
<1> QED BY <1>4, <1>5, <1>6, <1>7 DEF StoreNew, StoreSuperseding

(* Every other step leaves the content, version and reference of each       *)
(* record.                                                                  *)
LEMMA RowSteps ==
  ASSUME Shapes, [Next]_vars
  PROVE  \/ Upkept
         \/ \E w \in Writer : Inserted(w) \/ \E r \in Live : Rewritten(w, r)
<1>1. CASE rows' = rows /\ bumps' = bumps
  BY <1>1 DEF Upkept, Live
<1>2. CASE \E w \in Writer : StoreNew(w) \/ StoreSuperseding(w)
  BY <1>1, <1>2, CommitSteps DEF Refuses, dbVars
<1>3. CASE Retire \/ Purge \/ Recall \/ \E w \in Writer : MergeWrite(w)
  BY <1>3, UpkeepShapes
<1> QED
  BY <1>1, <1>2, <1>3
     DEF Next, vars, Evaluate, Lookup, OpenVikingWrite, Mem0Write, MergeRead, MarkSelect,
         MergeSelect, CleanSelect, PurgeSelect, Part, Tick, dbVars

-----------------------------------------------------------------------------
(* One record of a content, and its version.                                *)

(* The unique constraint refuses the second of two inserts, and the         *)
(* database counts the version at each conflict.                            *)
LEMMA KeysStep ==
  ASSUME Shapes, OneOfAKey, VersionsCount, [Next]_vars
  PROVE  OneOfAKey' /\ VersionsCount'
<1>0. Live \subseteq DOMAIN bumps /\ \A r \in Live : rows[r].version \in Nat /\ bumps[r] \in Nat
  BY DEF Shapes, Numbered, RowShape
<1>1. CASE Upkept
  BY <1>1 DEF Upkept, OneOfAKey, VersionsCount
<1>2. ASSUME NEW w \in Writer, Inserted(w) PROVE OneOfAKey' /\ VersionsCount'
  <2> DEFINE id == Cardinality(DOMAIN bumps) + 1
             k == wr[w].cand.key
  <2>1. /\ Live' = Live \cup {id} /\ \A r \in Live : rows'[r] = rows[r] /\ rows[r].key # k
        /\ bumps'[id] = 0 /\ \A r \in Live : bumps'[r] = bumps[r]
    BY <1>0, <1>2 DEF Inserted, OfKey
  <2>2. rows'[id].key = k /\ rows'[id].version = 1
    BY <1>2 DEF Inserted, Record
  <2> HIDE DEF id, k
  <2> QED BY <2>1, <2>2 DEF OneOfAKey, VersionsCount
<1>3. ASSUME NEW w \in Writer, NEW r \in Live, Rewritten(w, r)
      PROVE  OneOfAKey' /\ VersionsCount'
  <2>1. /\ Live' = Live /\ \A q \in Live \ {r} : rows'[q] = rows[q] /\ bumps'[q] = bumps[q]
        /\ bumps'[r] = bumps[r] + 1 /\ rows[r].key = wr[w].cand.key
    BY <1>0, <1>3 DEF Rewritten, OfKey
  <2>2. rows'[r].key = wr[w].cand.key /\ rows'[r].version = rows[r].version + 1
    BY <1>3 DEF Rewritten, Rewrite, Record
  <2> QED BY <1>0, <2>1, <2>2 DEF OneOfAKey, VersionsCount
<1> QED BY <1>1, <1>2, <1>3, RowSteps

-----------------------------------------------------------------------------
(* The bounds: each write gives one id or one version and adds one memory.  *)

(* A part of a finite set is finite and not larger, and smaller without one *)
(* of the elements.                                                         *)
LEMMA PartOf ==
  ASSUME NEW S, IsFiniteSet(S), NEW T \in SUBSET S
  PROVE  /\ IsFiniteSet(T) /\ Cardinality(T) \in Nat /\ Cardinality(S) \in Nat
         /\ Cardinality(T) <= Cardinality(S)
         /\ \A x \in S \ T : Cardinality(T) + 1 <= Cardinality(S)
<1>1. /\ IsFiniteSet(T) /\ Cardinality(T) \in Nat /\ Cardinality(S) \in Nat
      /\ Cardinality(T) <= Cardinality(S)
  BY FS_Subset, FS_CardinalityType
<1>2. ASSUME NEW x \in S \ T PROVE Cardinality(T) + 1 <= Cardinality(S)
  <2>1. Cardinality(T) # Cardinality(S)
    BY <1>2, FS_Subset
  <2> QED BY <1>1, <2>1
<1> QED BY <1>1, <1>2

(* What a step has to do with those who still write, to leave the counters  *)
(* within the writes.                                                       *)
LEMMA CountersStep ==
  ASSUME Shapes, WritesSuffice, writes' = writes,
         Active' \subseteq Active, Storing' \subseteq Storing,
         stored' = stored \/ (stored' = stored + 1 /\ \E w \in Storing : w \notin Storing'),
         \/ bumps' = bumps
         \/ /\ \E w \in Active : w \notin Active'
            /\ \/ /\ Cardinality(DOMAIN bumps') = Cardinality(DOMAIN bumps) + 1
                  /\ \A r \in DOMAIN bumps' :
                       bumps'[r] = 0 \/ (r \in DOMAIN bumps /\ bumps'[r] = bumps[r])
               \/ /\ DOMAIN bumps' = DOMAIN bumps
                  /\ \A r \in DOMAIN bumps : bumps'[r] \in {bumps[r], bumps[r] + 1}
  PROVE  WritesSuffice'
<1> DEFINE a == Cardinality(Active)
           b == Cardinality(Active')
           c == Cardinality(Storing)
           d == Cardinality(Storing')
           n == Cardinality(DOMAIN bumps)
<1>1. IsFiniteSet(Storing)
  BY PartOf DEF Storing, WritesSuffice
<1>2. /\ IsFiniteSet(Active') /\ a \in Nat /\ b \in Nat /\ b <= a
      /\ (\E w \in Active : w \notin Active') => b + 1 <= a
  BY PartOf DEF WritesSuffice
<1>3. /\ c \in Nat /\ d \in Nat /\ d <= c
      /\ (\E w \in Storing : w \notin Storing') => d + 1 <= c
  BY <1>1, PartOf
<1>4. n \in Nat /\ writes \in Nat /\ stored \in Nat /\ \A r \in DOMAIN bumps : bumps[r] \in Nat
  BY NewId, Bounds DEF Shapes, Numbered
<1>5. n + a <= writes /\ stored + c <= writes /\ \A r \in DOMAIN bumps : bumps[r] + a <= writes
  BY DEF WritesSuffice
<1> HIDE DEF a, b, c, d, n
<1>6. stored' + d <= writes
  BY <1>3, <1>4, <1>5
<1>7. /\ Cardinality(DOMAIN bumps') + b <= writes
      /\ \A r \in DOMAIN bumps' : bumps'[r] + b <= writes
  <2>1. CASE bumps' = bumps
    BY <1>2, <1>4, <1>5, <2>1 DEF n
  <2>2. CASE /\ \E w \in Active : w \notin Active'
             /\ Cardinality(DOMAIN bumps') = n + 1
             /\ \A r \in DOMAIN bumps' :
                  bumps'[r] = 0 \/ (r \in DOMAIN bumps /\ bumps'[r] = bumps[r])
    BY <1>2, <1>4, <1>5, <2>2
  <2>3. CASE /\ \E w \in Active : w \notin Active'
             /\ DOMAIN bumps' = DOMAIN bumps
             /\ \A r \in DOMAIN bumps : bumps'[r] \in {bumps[r], bumps[r] + 1}
    <3>1. Cardinality(DOMAIN bumps') = n
      BY <2>3 DEF n
    <3> QED BY <1>2, <1>4, <1>5, <2>3, <3>1
  <2> QED BY <2>1, <2>2, <2>3 DEF n
<1> QED BY <1>2, <1>6, <1>7 DEF WritesSuffice, b, d

(* A writer that goes on, without a memory left to add unless it had one.   *)
LEMMA ActiveStep ==
  ASSUME Shapes, NEW w \in Writer, wr[w].at # "idle",
         \A v \in Writer \ {w} : wr'[v] = wr[v],
         \/ wr'[w].at \notin {"accept", "supersede", "merge", "overwrite"}
         \/ wr[w].at \in {"accept", "supersede", "merge", "overwrite"}
  PROVE  /\ w \in Active /\ Active' \subseteq Active /\ Storing' \subseteq Storing
         /\ wr'[w] = Idle => w \notin Active'
         /\ wr[w].at \in {"accept", "supersede", "merge", "overwrite"} => w \in Storing
         /\ wr'[w].at \notin {"accept", "supersede", "merge", "overwrite"} => w \notin Storing'
BY DEF Active, Storing, Idle

(* No step gives more ids, versions or memories than there were writes.     *)
LEMMA CountStep ==
  ASSUME Shapes, WritesSuffice, [Next]_vars
  PROVE  WritesSuffice'
<1>0. \A w \in Writer : wr[w].at # "idle" => wr[w] \in Busy
  BY WriterBusy
<1>1. ASSUME NEW w \in Writer, NEW c \in Candidates, NEW sup \in Live \cup {None},
             Evaluate(w, c, sup)
      PROVE  WritesSuffice'
  <2>1. /\ wr[w] = Idle /\ writes' = writes + 1
        /\ \A v \in Writer : v # w => wr'[v] = wr[v]
        /\ UNCHANGED <<bumps, stored>>
    BY <1>1 DEF Evaluate, Shapes, dbVars, remoteVars
  <2>2. /\ w \notin Active /\ Active' \subseteq Active \cup {w}
        /\ Storing' \subseteq Storing \cup {w}
    BY <2>1 DEF Active, Storing
  <2>3. /\ IsFiniteSet(Active \cup {w}) /\ Cardinality(Active \cup {w}) = Cardinality(Active) + 1
    BY <2>2, FS_AddElement DEF WritesSuffice
  <2>4. IsFiniteSet(Storing) /\ w \notin Storing
    BY <2>2, PartOf DEF WritesSuffice, Storing
  <2>5. /\ IsFiniteSet(Storing \cup {w})
        /\ Cardinality(Storing \cup {w}) = Cardinality(Storing) + 1
    BY <2>4, FS_AddElement
  <2>6. /\ IsFiniteSet(Active') /\ Cardinality(Active') \in Nat /\ Cardinality(Active) \in Nat
        /\ Cardinality(Active') <= Cardinality(Active) + 1
    BY <2>2, <2>3, PartOf, FS_CardinalityType DEF WritesSuffice
  <2>7. /\ Cardinality(Storing') \in Nat /\ Cardinality(Storing) \in Nat
        /\ Cardinality(Storing') <= Cardinality(Storing) + 1
    BY <2>2, <2>4, <2>5, PartOf, FS_CardinalityType
  <2>8. /\ Cardinality(DOMAIN bumps) \in Nat /\ writes \in Nat /\ stored \in Nat
        /\ \A r \in DOMAIN bumps : bumps[r] \in Nat
    BY NewId, Bounds DEF Shapes, Numbered
  <2>9. Cardinality(DOMAIN bumps') = Cardinality(DOMAIN bumps)
    BY <2>1
  <2>10. Cardinality(DOMAIN bumps') + Cardinality(Active') <= writes'
    BY <2>1, <2>6, <2>8, <2>9 DEF WritesSuffice
  <2>11. \A r \in DOMAIN bumps' : bumps'[r] + Cardinality(Active') <= writes'
    BY <2>1, <2>6, <2>8 DEF WritesSuffice
  <2>12. stored' + Cardinality(Storing') <= writes'
    BY <2>1, <2>7, <2>8 DEF WritesSuffice
  <2> QED BY <2>6, <2>10, <2>11, <2>12 DEF WritesSuffice
<1>2. ASSUME NEW w \in Writer, StoreNew(w) \/ StoreSuperseding(w) PROVE WritesSuffice'
  <2>1. /\ Commits(w)
        /\ \/ bumps' = bumps
           \/ /\ Cardinality(DOMAIN bumps') = Cardinality(DOMAIN bumps) + 1
              /\ \A r \in DOMAIN bumps' :
                   bumps'[r] = 0 \/ (r \in DOMAIN bumps /\ bumps'[r] = bumps[r])
           \/ /\ DOMAIN bumps' = DOMAIN bumps
              /\ \A r \in DOMAIN bumps : bumps'[r] \in {bumps[r], bumps[r] + 1}
    <3>1. CASE Refuses(w)
      BY <3>1 DEF Refuses, dbVars
    <3>2. CASE Inserted(w)
      <4> DEFINE id == Cardinality(DOMAIN bumps) + 1
      <4>1. id \notin DOMAIN bumps /\ IsFiniteSet(DOMAIN bumps)
        BY NewId DEF Shapes, Numbered
      <4>2. /\ Commits(w) /\ DOMAIN bumps' = DOMAIN bumps \cup {id} /\ bumps'[id] = 0
            /\ \A r \in DOMAIN bumps : bumps'[r] = bumps[r]
        BY <3>2 DEF Inserted
      <4>3. Cardinality(DOMAIN bumps') = Cardinality(DOMAIN bumps) + 1
        BY <4>1, <4>2, FS_AddElement
      <4> QED BY <4>2, <4>3
    <3>3. CASE \E r \in Live : Rewritten(w, r)
      BY <3>3 DEF Rewritten
    <3> QED BY <1>2, <3>1, <3>2, <3>3, CommitSteps
  <2>2. /\ wr[w].at # "idle" /\ wr'[w] = Idle /\ \A v \in Writer \ {w} : wr'[v] = wr[v]
        /\ wr'[w].at \notin {"accept", "supersede", "merge", "overwrite"}
    BY <2>1 DEF Commits, Shapes, Idle
  <2>3. w \in Active /\ w \notin Active' /\ Active' \subseteq Active /\ Storing' \subseteq Storing
    BY <2>2, ActiveStep
  <2> QED BY <2>1, <2>3, CountersStep DEF Commits, remoteVars
<1>3. ASSUME NEW w \in Writer, NEW o \in Outcomes, Mem0Write(w, o) PROVE WritesSuffice'
  <2>1. /\ wr[w].at \in {"accept", "overwrite"} /\ bumps' = bumps /\ writes' = writes
        /\ stored' = stored \/ stored' = stored + 1
    BY <1>3 DEF Mem0Write, dbVars
  <2>2. /\ wr'[w].at \in {"insert", "upsert"} /\ \A v \in Writer \ {w} : wr'[v] = wr[v]
    <3>1. wr[w] \in Busy
      BY <1>0, <2>1
    <3>2. \E ref : Answered(w, ref)
      BY <1>3 DEF Mem0Write
    <3> QED BY <3>1, <3>2 DEF Answered, Shapes, Busy
  <2>3. /\ w \in Storing /\ w \notin Storing'
        /\ Active' \subseteq Active /\ Storing' \subseteq Storing
    BY <2>1, <2>2, ActiveStep
  <2> QED BY <2>1, <2>3, CountersStep
<1>4. ASSUME NEW w \in Writer, Lookup(w) \/ OpenVikingWrite(w) \/ MergeRead(w) \/ MergeWrite(w)
      PROVE  WritesSuffice'
  <2>1. UNCHANGED <<bumps, stored, writes>>
    BY <1>4 DEF Lookup, OpenVikingWrite, MergeRead, MergeWrite, dbVars, remoteVars
  <2>2. wr[w] \in Busy
    BY <1>0, <1>4 DEF Lookup, OpenVikingWrite, MergeRead, MergeWrite
  <2>3. \A v \in Writer \ {w} : wr'[v] = wr[v]
    BY <1>4 DEF Lookup, OpenVikingWrite, MergeRead, MergeWrite, Answered, Shapes
  <2>4. \/ wr'[w].at \notin {"accept", "supersede", "merge", "overwrite"}
        \/ wr[w].at \in {"accept", "supersede", "merge", "overwrite"}
    <3>1. CASE Lookup(w) \/ OpenVikingWrite(w) \/ MergeRead(w)
      BY <3>1 DEF Lookup, OpenVikingWrite, MergeRead
    <3>2. CASE MergeWrite(w)
      BY <3>2 DEF MergeWrite, Shapes, Idle
    <3> QED BY <1>4, <3>1, <3>2
  <2>5. Active' \subseteq Active /\ Storing' \subseteq Storing
    <3>1. wr[w].at # "idle"
      BY <1>4 DEF Lookup, OpenVikingWrite, MergeRead, MergeWrite
    <3> QED BY <2>3, <2>4, <3>1, ActiveStep
  <2> QED BY <2>1, <2>5, CountersStep
<1>5. CASE UNCHANGED <<bumps, stored, writes, wr>>
  <2>1. Active' = Active /\ Storing' = Storing
    BY <1>5 DEF Active, Storing
  <2> QED BY <1>5, <2>1, CountersStep
<1> QED
  BY <1>1, <1>2, <1>3, <1>4, <1>5
     DEF Next, vars, MarkSelect, MergeSelect, CleanSelect, PurgeSelect, Part, Retire, Purge,
         Recall, Tick, dbVars, remoteVars

-----------------------------------------------------------------------------
(* The memories of mem0.                                                    *)

(* A reference that is not of mem0 claims nothing.                          *)
LEMMA NotOfMem0 ==
  ASSUME NEW ref, NEW k, ref \in {Doc, Empty} \/ \E key : ref = Uri(key)
  PROVE  \A m, s : Owns(m, s, ref, k)
BY DEF Owns, Doc, Empty, Mem0Ref, Uri

(* Adapters add memories and update those that have the content already, or *)
(* "unknown" with a content that had no id: who owns a memory keeps it.     *)
LEMMA RemoteStep ==
  ASSUME Shapes, MemoriesOwned, [Next]_vars
  PROVE  /\ DOMAIN remote' \subseteq {Mem0(n) : n \in 0 .. stored'}
         /\ Unknown \in DOMAIN remote' => remote'[Unknown] \in idless'
         /\ \A ref, k : Owns(remote, idless, ref, k) => Owns(remote', idless', ref, k)
<1>1. CASE UNCHANGED remoteVars
  BY <1>1 DEF MemoriesOwned, Owns, remoteVars
<1>2. ASSUME NEW w \in Writer, NEW o \in Outcomes, Mem0Write(w, o)
      PROVE  /\ DOMAIN remote' \subseteq {Mem0(n) : n \in 0 .. stored'}
             /\ Unknown \in DOMAIN remote' => remote'[Unknown] \in idless'
             /\ \A ref, k : Owns(remote, idless, ref, k) => Owns(remote', idless', ref, k)
  <2> DEFINE old == wr[w].old
             updates == old \in Mem0Ref
             k == wr[w].cand.key
  <2>1. /\ wr[w].at # "idle" /\ idless \subseteq idless'
        /\ \/ UNCHANGED <<remote, stored>>
           \/ remote' = Put(remote, IF updates THEN old ELSE Mem0(stored + 1), k)
              /\ stored' = IF updates THEN stored ELSE stored + 1
    BY <1>2 DEF Mem0Write
  <2>2. Owns(remote, idless, old, k)
    BY <2>1 DEF MemoriesOwned, Active, Idle
  <2>3. /\ stored \in Nat /\ DOMAIN remote \subseteq {Mem0(n) : n \in 0 .. stored}
        /\ Unknown \in DOMAIN remote => remote[Unknown] \in idless
    BY Bounds DEF MemoriesOwned
  <2>4. CASE UNCHANGED <<remote, stored>>
    BY <2>1, <2>3, <2>4 DEF Owns
  <2>5. CASE updates /\ remote' = Put(remote, old, k) /\ stored' = stored
    <3>1. /\ DOMAIN remote' = DOMAIN remote \cup {old} /\ remote'[old] = k
          /\ \A e \in DOMAIN remote : e # old => remote'[e] = remote[e]
      BY <2>5 DEF Put
    <3>2. IF old = Unknown THEN k \in idless ELSE old \in DOMAIN remote /\ remote[old] = k
      BY <2>2, <2>5 DEF Owns
    <3>3. Unknown \in {Mem0(n) : n \in 0 .. stored}
      BY <2>3 DEF Unknown
    <3> HIDE DEF old, k, updates
    <3>4. DOMAIN remote' \subseteq {Mem0(n) : n \in 0 .. stored'}
      BY <2>3, <2>5, <3>1, <3>2, <3>3
    <3>5. Unknown \in DOMAIN remote' => remote'[Unknown] \in idless'
      BY <2>1, <2>3, <3>1, <3>2
    <3>6. \A e \in DOMAIN remote : e # Unknown => e \in DOMAIN remote' /\ remote'[e] = remote[e]
      BY <3>1, <3>2
    <3> QED BY <2>1, <3>4, <3>5, <3>6 DEF Owns
  <2>6. CASE ~updates /\ remote' = Put(remote, Mem0(stored + 1), k) /\ stored' = stored + 1
    <3>1. Mem0(stored + 1) \notin DOMAIN remote /\ Mem0(stored + 1) # Unknown
      BY <2>3 DEF Mem0, Unknown
    <3>2. /\ DOMAIN remote' = DOMAIN remote \cup {Mem0(stored + 1)}
          /\ \A e \in DOMAIN remote : remote'[e] = remote[e]
      BY <2>6, <3>1 DEF Put
    <3>3. DOMAIN remote' \subseteq {Mem0(n) : n \in 0 .. stored'}
      BY <2>3, <2>6, <3>2
    <3>4. Unknown \in DOMAIN remote' => remote'[Unknown] \in idless'
      BY <2>1, <2>3, <3>1, <3>2
    <3> QED BY <2>1, <3>2, <3>3, <3>4 DEF Owns
  <2> QED BY <2>1, <2>4, <2>5, <2>6
<1> QED
  BY <1>1, <1>2
     DEF Next, vars, Evaluate, Lookup, OpenVikingWrite, MergeRead, MergeWrite, StoreNew,
         StoreSuperseding, MarkSelect, MergeSelect, CleanSelect, PurgeSelect, Part, Retire,
         Purge, Recall, Tick, remoteVars

(* The records own what they refer to: a writer gives them its own.         *)
LEMMA RowsOwn ==
  ASSUME Shapes, MemoriesOwned, [Next]_vars, NEW r \in Live'
  PROVE  Owns(remote', idless', rows'[r].ref, rows'[r].key)
<1>1. \A q \in Live : Owns(remote', idless', rows[q].ref, rows[q].key)
  BY RemoteStep DEF MemoriesOwned
<1>2. CASE Upkept
  BY <1>1, <1>2 DEF Upkept
<1>3. ASSUME NEW w \in Writer, Commits(w) PROVE Owns(remote', idless', wr[w].ref, wr[w].cand.key)
  BY <1>3, RemoteStep DEF Commits, MemoriesOwned, Active, Idle
<1>4. ASSUME NEW w \in Writer, Inserted(w)
      PROVE  Owns(remote', idless', rows'[r].ref, rows'[r].key)
  BY <1>1, <1>3, <1>4 DEF Inserted, Record
<1>5. ASSUME NEW w \in Writer, NEW q \in Live, Rewritten(w, q)
      PROVE  Owns(remote', idless', rows'[r].ref, rows'[r].key)
  BY <1>1, <1>3, <1>5 DEF Rewritten, Rewrite, Record
<1> QED BY <1>2, <1>4, <1>5, RowSteps

(* A step of a writer, or one that leaves the writers alone.                *)
Writing(w) ==
  \/ \E c \in Candidates, sup \in Live \cup {None} : Evaluate(w, c, sup)
  \/ Lookup(w) \/ OpenVikingWrite(w) \/ \E o \in Outcomes : Mem0Write(w, o)
  \/ StoreNew(w) \/ StoreSuperseding(w) \/ MergeRead(w) \/ MergeWrite(w)

Other ==
  \/ MarkSelect \/ MergeSelect \/ CleanSelect \/ PurgeSelect \/ Retire \/ Purge
  \/ Recall \/ Tick \/ UNCHANGED vars

(* There is no other step.                                                  *)
LEMMA WriterOrOther == ASSUME [Next]_vars PROVE Other \/ \E w \in Writer : Writing(w)
BY DEF Next, Writing, Other

(* A writer owns the memories it holds: it finds its old one in the record  *)
(* of its own content, and is given the one it added, or "unknown".         *)
LEMMA WritersOwn ==
  ASSUME NamesNoMemory, Shapes, MemoriesOwned, [Next]_vars, NEW w \in Active'
  PROVE  /\ Owns(remote', idless', wr'[w].ref, wr'[w].cand.key)
         /\ Owns(remote', idless', wr'[w].old, wr'[w].cand.key)
<1> DEFINE Goal == /\ Owns(remote', idless', wr'[w].ref, wr'[w].cand.key)
                   /\ Owns(remote', idless', wr'[w].old, wr'[w].cand.key)
<1>a. \A c \in Candidates : c.ref \in {Doc, Empty}
  BY MemoryAssumption DEF NamesNoMemory, Candidate
<1>0. w \in Writer /\ wr'[w] # Idle
  BY DEF Active
<1>1. CASE wr[w] # Idle /\ wr'[w].ref = wr[w].ref /\ wr'[w].old = wr[w].old
           /\ wr'[w].cand = wr[w].cand
  BY <1>0, <1>1, RemoteStep DEF MemoriesOwned, Active
<1>2. CASE wr'[w] = wr[w]
  BY <1>0, <1>1, <1>2
<1>3. ASSUME NEW c \in Candidates, NEW sup \in Live \cup {None}, Evaluate(w, c, sup) PROVE Goal
  <2>1. wr'[w].ref = c.ref /\ wr'[w].old = Empty
    BY <1>0, <1>3 DEF Evaluate, Shapes
  <2> QED BY <1>a, <2>1, NotOfMem0
<1>4. CASE Lookup(w)
  <2>1. wr[w] \in Busy /\ wr[w] # Idle
    BY <1>0, <1>4, WriterBusy DEF Lookup, Idle
  <2>2. /\ wr'[w].ref = wr[w].ref /\ wr'[w].cand = wr[w].cand
        /\ wr'[w].old = IF Overwrites(w) = {} THEN Empty
                        ELSE rows[CHOOSE r \in Overwrites(w) : TRUE].ref
    BY <1>0, <1>4, <2>1 DEF Lookup, Shapes, Busy
  <2>3. Owns(remote', idless', wr[w].ref, wr[w].cand.key)
    BY <1>0, <2>1, RemoteStep DEF MemoriesOwned, Active
  <2>4. \A r \in Overwrites(w) : Owns(remote', idless', rows[r].ref, wr[w].cand.key)
    BY RemoteStep DEF Overwrites, OfKey, MemoriesOwned
  <2>5. Owns(remote', idless', wr'[w].old, wr[w].cand.key)
    BY <2>2, <2>4, NotOfMem0
  <2> QED BY <2>2, <2>3, <2>5
<1>5. CASE OpenVikingWrite(w)
  <2>1. wr[w] \in Busy /\ wr[w].cand \in Candidates
    BY <1>0, <1>5, WriterBusy DEF OpenVikingWrite, Busy
  <2>2. PICK got \in {Uri(wr[w].cand.key), wr[w].cand.ref} : Answered(w, got)
    BY <1>5 DEF OpenVikingWrite
  <2>3. wr'[w].ref = got /\ wr'[w].old = Empty
    BY <1>0, <2>1, <2>2 DEF Answered, Shapes, Busy
  <2>4. got \in {Doc, Empty} \/ got = Uri(wr[w].cand.key)
    BY <1>a, <2>1, <2>2
  <2> QED BY <2>3, <2>4, NotOfMem0
<1>6. ASSUME NEW o \in Outcomes, Mem0Write(w, o) PROVE Goal
  <2> DEFINE old == wr[w].old
             updates == old \in Mem0Ref
             ref == IF updates THEN old ELSE Mem0(stored + 1)
             lacksId == o = "no id" /\ ~updates
             got == CASE o \in {"lost", "refused"} -> wr[w].cand.ref
                      [] lacksId -> Unknown
                      [] OTHER -> ref
             k == wr[w].cand.key
  <2>1. wr[w] \in Busy /\ wr[w].cand \in Candidates
    BY <1>0, <1>6, WriterBusy DEF Mem0Write, Busy
  <2>2. /\ remote' = IF o = "refused" THEN remote ELSE Put(remote, ref, k)
        /\ idless' = IF lacksId THEN idless \cup {k} ELSE idless
        /\ Answered(w, got)
    BY <1>6 DEF Mem0Write
  <2>3. wr'[w].ref = got /\ wr'[w].old = Empty /\ wr'[w].cand.key = k
    <3> HIDE DEF got
    <3> QED BY <1>0, <2>1, <2>2 DEF Answered, Shapes, Busy
  <2>4. CASE o \in {"lost", "refused"}
    <3>1. wr'[w].ref \in {Doc, Empty}
      BY <1>a, <2>1, <2>3, <2>4
    <3> QED BY <2>3, <3>1, NotOfMem0
  <2>5. CASE o \notin {"lost", "refused"} /\ lacksId
    <3>1. wr'[w].ref = Unknown /\ k \in idless'
      BY <2>2, <2>3, <2>5
    <3> HIDE DEF k
    <3> QED BY <2>3, <3>1, NotOfMem0 DEF Owns
  <2>6. CASE o \notin {"lost", "refused"} /\ ~lacksId
    <3>1. wr'[w].ref = ref /\ remote' = Put(remote, ref, k)
      BY <2>2, <2>3, <2>6
    <3>2. Owns(remote, idless, old, k)
      <4>1. wr[w].at # "idle"
        BY <1>6 DEF Mem0Write
      <4>2. w \in Active
        BY <1>0, <4>1 DEF Active, Idle
      <4> QED BY <4>2 DEF MemoriesOwned
    <3>3. stored \in Nat /\ idless' = idless
      BY <2>2, <2>6, Bounds
    <3>4. ref = Unknown => k \in idless'
      <4>1. CASE updates
        BY <3>2, <3>3, <4>1 DEF Owns
      <4>2. CASE ~updates
        BY <3>3, <4>2 DEF Mem0, Unknown
      <4> QED BY <4>1, <4>2
    <3> HIDE DEF ref, k, got, updates, lacksId
    <3>5. ref \in DOMAIN remote' /\ remote'[ref] = k
      BY <3>1 DEF Put
    <3> QED BY <2>3, <3>1, <3>4, <3>5, NotOfMem0 DEF Owns
  <2> QED BY <2>4, <2>5, <2>6
<1>7. CASE MergeRead(w)
  <2>1. wr[w] \in Busy /\ wr[w] # Idle
    BY <1>0, <1>7, WriterBusy DEF MergeRead, Idle
  <2>2. wr'[w].ref = wr[w].ref /\ wr'[w].old = wr[w].old /\ wr'[w].cand = wr[w].cand
    BY <1>0, <1>7, <2>1 DEF MergeRead, Shapes, Busy
  <2> QED BY <1>1, <2>1, <2>2
<1>8. CASE StoreNew(w) \/ StoreSuperseding(w) \/ MergeWrite(w)
  BY <1>0, <1>8 DEF StoreNew, StoreSuperseding, MergeWrite, Shapes
<1>9. ASSUME NEW v \in Writer, v # w, Writing(v)
      PROVE  Goal
  <2>1. ASSUME \/ \E c \in Candidates, sup \in Live \cup {None} : Evaluate(v, c, sup)
               \/ StoreNew(v) \/ StoreSuperseding(v) \/ MergeWrite(v)
        PROVE  wr'[w] = wr[w]
    BY <1>0, <1>9, <2>1 DEF Evaluate, StoreNew, StoreSuperseding, MergeWrite, Shapes
  <2>2. ASSUME Lookup(v) \/ MergeRead(v) PROVE wr'[w] = wr[w]
    BY <1>0, <1>9, <2>2 DEF Lookup, MergeRead, Shapes
  <2>3. ASSUME OpenVikingWrite(v) \/ \E o \in Outcomes : Mem0Write(v, o)
        PROVE  wr'[w] = wr[w]
    <3>1. \E ref : Answered(v, ref)
      BY <2>3 DEF OpenVikingWrite, Mem0Write
    <3> QED BY <1>0, <1>9, <3>1 DEF Answered, Shapes
  <2> QED BY <1>2, <1>9, <2>1, <2>2, <2>3 DEF Writing
<1>10. CASE wr' = wr
  BY <1>2, <1>10
<1>11. CASE Other
  <2>1. wr' = wr
    BY <1>11 DEF Other, vars, MarkSelect, MergeSelect, CleanSelect, PurgeSelect, Part, Retire,
                 Purge, Recall, Tick
  <2> QED BY <1>10, <2>1
<1>12. Writing(w) => Goal
  BY <1>3, <1>4, <1>5, <1>6, <1>7, <1>8 DEF Writing
<1>13. Goal
  BY <1>9, <1>11, <1>12, WriterOrOther
<1> QED BY <1>13

-----------------------------------------------------------------------------
(* The invariant.                                                           *)

(* The empty memory.                                                        *)
LEMMA IInvInit == Init => IInv
<1> SUFFICES ASSUME Init PROVE IInv
  OBVIOUS
<1>1. /\ Live = {} /\ DOMAIN bumps = {} /\ DOMAIN remote = {}
      /\ IsFiniteSet({}) /\ Cardinality({}) = 0 /\ 1 .. 0 = {}
  BY FS_EmptySet DEF Init, Live
<1>2. MaxWrites \in Nat /\ MaxNow \in Nat
  BY MemoryAssumption
<1>3. Shapes
  <2>1. maint \in [at : MaintPlace, hit : SUBSET Nat, passes : Nat]
    BY DEF Init, MaintPlace
  <2>2. Numbered
    BY <1>1 DEF Numbered
  <2> QED BY <1>1, <1>2, <2>1, <2>2 DEF Init, Shapes
<1>4. Active = {} /\ Storing = {}
  BY DEF Init, Active, Storing
<1>5. WritesSuffice
  BY <1>1, <1>4 DEF Init, WritesSuffice
<1>6. OneOfAKey /\ VersionsCount
  BY <1>1 DEF OneOfAKey, VersionsCount
<1> QED BY <1>3, <1>5, <1>6 DEF IInv

(* Each step keeps it.                                                      *)
LEMMA IInvStep == IInv /\ [Next]_vars => IInv'
<1> SUFFICES ASSUME IInv, [Next]_vars PROVE IInv'
  OBVIOUS
<1>1. Shapes /\ WritesSuffice /\ OneOfAKey /\ VersionsCount
  BY DEF IInv
<1> QED BY <1>1, ShapesStep, CountStep, KeysStep DEF IInv

(* IInv is an invariant, from which the theorems follow.                    *)
LEMMA IInvHolds == Spec => []IInv
BY IInvInit, IInvStep, PTL DEF Spec

(* TypeOK: records, writers and maintenance are what they should be, a      *)
(* record only supersedes one that is there (the foreign key), and no       *)
(* version, id or remote memory comes from anywhere but a write.            *)
THEOREM MemoryTypes == Spec => []TypeOK
<1>1. IInv => TypeOK
  <2> SUFFICES ASSUME IInv PROVE TypeOK
    OBVIOUS
  <2>1. Shapes /\ WritesSuffice /\ VersionsCount
    BY DEF IInv
  <2>2. /\ MaxWrites \in Nat /\ writes \in 0 .. MaxWrites /\ stored \in Nat
        /\ \A r \in DOMAIN bumps : bumps[r] \in Nat
    BY <2>1, Bounds DEF Shapes, Numbered
  <2>3. Cardinality(Active) \in Nat /\ Cardinality(Storing) \in Nat
    BY <2>1, PartOf, FS_CardinalityType DEF WritesSuffice, Storing
  <2>4. stored \in 0 .. MaxWrites
    BY <2>1, <2>2, <2>3 DEF WritesSuffice
  <2>5. \A r \in DOMAIN bumps : bumps[r] <= writes
    BY <2>1, <2>2, <2>3 DEF WritesSuffice
  <2>6. Live \subseteq DOMAIN bumps
    BY <2>1 DEF Shapes, Numbered
  <2>7. \A r \in Live : rows[r].version \in 1 .. (MaxWrites + 1)
    BY <2>1, <2>2, <2>5, <2>6 DEF VersionsCount
  <2>8. \A r \in Live : rows[r] \in
          [key : Key, version : 1..(MaxWrites + 1), quality : 0..100, ref : Ref,
           sup : {None} \cup Live, retention : Retention, created : 0..now,
           used : 0..now, stale : Never..now]
    BY <2>1, <2>7 DEF Shapes, RowShape
  <2>9. maint.at \in MaintPlace
    BY <2>1 DEF Shapes
  <2> QED BY <2>1, <2>2, <2>4, <2>6, <2>8, <2>9 DEF TypeOK, Shapes, MaintPlace
<1> QED BY <1>1, IInvHolds, PTL

(* OneCountedRecord: for any number of writers that decide in one session   *)
(* and write in another, the memory keeps a content once and its version    *)
(* counts the superseding writes committed to it.                           *)
THEOREM ContentsAreCounted == Spec => []OneCountedRecord
<1>1. IInv => OneCountedRecord
  <2> SUFFICES ASSUME IInv PROVE \A k \in Key : Cardinality(OfKey(k)) <= 1
    BY DEF IInv, OneCountedRecord, VersionsCount
  <2> SUFFICES ASSUME NEW k \in Key PROVE Cardinality(OfKey(k)) <= 1
    OBVIOUS
  <2>1. CASE OfKey(k) = {}
    BY <2>1, FS_EmptySet
  <2>2. ASSUME NEW r \in OfKey(k) PROVE Cardinality(OfKey(k)) <= 1
    <3>1. OfKey(k) = {r}
      BY <2>2 DEF OfKey, IInv, OneOfAKey
    <3>2. Cardinality({r}) = 1
      BY FS_Singleton
    <3> QED BY <3>1, <3>2
  <2> QED BY <2>1, <2>2
<1> QED BY <1>1, IInvHolds, PTL

(* OwnMemory: where no candidate names a memory of mem0 itself, a record    *)
(* that refers to a memory by its id refers to one that is there, has its   *)
(* content and is no other record's; and those that share "unknown", and    *)
(* overwrite it, are the records of contents whose addition was answered    *)
(* without an id; whatever calls of the adapter failed, lost their answer   *)
(* or raced a purge.                                                        *)
THEOREM RecordsOwnMemories == ASSUME NamesNoMemory PROVE Spec => []OwnMemory
<1>1. Init => MemoriesOwned
  BY DEF Init, MemoriesOwned, Live, Active
<1>2. IInv /\ MemoriesOwned /\ [Next]_vars => MemoriesOwned'
  BY RemoteStep, RowsOwn, WritersOwn DEF IInv, MemoriesOwned
<1>3. IInv /\ MemoriesOwned => OwnMemory
  BY DEF IInv, MemoriesOwned, Owns, OneOfAKey, OwnMemory
<1> QED BY <1>1, <1>2, <1>3, IInvHolds, PTL DEF Spec

-----------------------------------------------------------------------------
(* Maintenance and recall.                                                  *)

(* A batch takes in all the records there can be.                           *)
BatchSuffices == MaxWrites <= Batch

(* Then what merge_superseded_records selects is all that is superseded.    *)
LEMMA MergeSelectsAll ==
  ASSUME BatchSuffices, IInv, NEW b \in Batches(Superseding)
  PROVE  b = Superseding
<1>1. /\ IsFiniteSet(DOMAIN bumps) /\ Superseding \subseteq DOMAIN bumps
      /\ Cardinality(DOMAIN bumps) + Cardinality(Active) <= writes
      /\ IsFiniteSet(Active)
  BY DEF IInv, Shapes, Numbered, Superseding, WritesSuffice
<1>2. /\ IsFiniteSet(Superseding) /\ Cardinality(Superseding) \in Nat
      /\ Cardinality(Superseding) <= Cardinality(DOMAIN bumps)
      /\ Cardinality(DOMAIN bumps) \in Nat /\ Cardinality(Active) \in Nat
  BY <1>1, PartOf, FS_CardinalityType
<1>3. MaxWrites \in Nat /\ Batch \in Nat /\ writes \in 0 .. MaxWrites
  BY MemoryAssumption DEF IInv, Shapes
<1>4. Cardinality(Superseding) <= Batch
  BY <1>1, <1>2, <1>3 DEF BatchSuffices
<1>5. b \subseteq Superseding /\ Cardinality(b) = Cardinality(Superseding)
  BY <1>2, <1>3, <1>4 DEF Batches, kSubset
<1> QED BY <1>2, <1>5, FS_Subset

(* A step that supersedes nothing but with what it writes, and takes nobody *)
(* out of retirement but what it writes.                                    *)
LEMMA RetiredKept ==
  ASSUME NEW new, NEW grown, NEW marked, RetiredBut(new, marked), new \subseteq grown,
         \A q \in Live' \ grown : /\ q \in Live
                                  /\ rows'[q].sup \in {rows[q].sup, None}
                                  /\ rows[q].stale # Never => rows'[q].stale # Never,
         None \notin Live'
  PROVE  \A q, r \in Live' \ grown : rows'[q].sup = r => r \in marked \/ rows'[r].stale # Never
BY DEF RetiredBut

(* What upkeep does to what is superseded and what is retired.              *)
LEMMA UpkeepRetires ==
  ASSUME Shapes, Retire \/ Purge \/ Recall \/ \E w \in Writer : MergeWrite(w)
  PROVE  /\ Live' \subseteq Live
         /\ \A r \in Live' : /\ rows'[r].sup \in {rows[r].sup, None}
                             /\ rows[r].stale # Never => rows'[r].stale # Never
         /\ Retire => \A r \in Live' : r \in maint.hit => rows'[r].stale # Never
<1>0. now \in Nat /\ now # Never /\ \A r \in Live : rows[r] \in RowShape
  BY Bounds DEF Shapes, Never
<1>1. CASE Retire
  <2>1. rows' = [r \in Live |-> IF r \in maint.hit THEN [rows[r] EXCEPT !.stale = now]
                                ELSE rows[r]]
    BY <1>1 DEF Retire
  <2>2. Live' = Live
    BY <2>1 DEF Live
  <2>3. \A r \in Live : /\ rows'[r].sup = rows[r].sup
                        /\ rows'[r].stale = IF r \in maint.hit THEN now ELSE rows[r].stale
    BY <1>0, <2>1 DEF RowShape
  <2> QED BY <1>0, <2>2, <2>3
<1>2. CASE Purge
  <2>1. rows' = Without(maint.hit) /\ maint.at = "purge"
    BY <1>2 DEF Purge
  <2>2. Live' = Live \ maint.hit
    BY <2>1 DEF Without, Live
  <2>3. \A r \in Live' : /\ rows'[r].sup \in {rows[r].sup, None}
                         /\ rows'[r].stale = rows[r].stale
    BY <1>0, <2>1, <2>2 DEF Without, RowShape
  <2>4. ~Retire
    BY <2>1 DEF Retire
  <2> QED BY <2>2, <2>3, <2>4
<1>3. CASE Recall
  <2>1. PICK top \in Answers \ {{}} :
          rows' = [r \in Live |-> IF r \in top THEN [rows[r] EXCEPT !.used = now] ELSE rows[r]]
    BY <1>3 DEF Recall
  <2>2. Live' = Live
    BY <2>1 DEF Live
  <2>3. \A r \in Live : rows'[r].sup = rows[r].sup /\ rows'[r].stale = rows[r].stale
    BY <1>0, <2>1 DEF RowShape
  <2>4. Retire => \A r \in Live' : r \in maint.hit => rows'[r].stale # Never
    BY <1>1
  <2> QED BY <2>2, <2>3, <2>4
<1>4. ASSUME NEW w \in Writer, MergeWrite(w)
      PROVE  /\ Live' \subseteq Live
             /\ \A r \in Live' : /\ rows'[r].sup \in {rows[r].sup, None}
                                 /\ rows[r].stale # Never => rows'[r].stale # Never
  <2>1. rows' = IF wr[w].seen \in Live
                THEN [rows EXCEPT ![wr[w].seen].quality = wr[w].cand.quality] ELSE rows
    BY <1>4 DEF MergeWrite
  <2>2. Live' = Live
    BY <2>1 DEF Live
  <2>3. CASE wr[w].seen \in Live
    <3>1. rows' = [rows EXCEPT ![wr[w].seen] =
                     [rows[wr[w].seen] EXCEPT !.quality = wr[w].cand.quality]]
      BY <2>1, <2>3 DEF Live
    <3>2. \A r \in Live : \/ rows'[r] = rows[r]
                          \/ rows'[r] = [rows[r] EXCEPT !.quality = wr[w].cand.quality]
      BY <3>1 DEF Live
    <3>3. \A r \in Live : rows'[r].sup = rows[r].sup /\ rows'[r].stale = rows[r].stale
      BY <1>0, <3>2 DEF RowShape
    <3> QED BY <2>2, <3>3
  <2> QED BY <2>1, <2>2, <2>3
<1> QED BY <1>1, <1>2, <1>3, <1>4

(* Each step of writers and maintenance keeps PassInv.                      *)
LEMMA PassStep ==
  ASSUME BatchSuffices PROVE IInv /\ IInv' /\ PassInv /\ [Next]_vars => PassInv'
<1> SUFFICES ASSUME IInv, IInv', PassInv, [Next]_vars PROVE PassInv'
  OBVIOUS
<1>0. Shapes /\ None \notin Live' /\ None \notin Live /\ Live \subseteq DOMAIN bumps
  <2>1. Shapes /\ Numbered /\ Numbered'
    BY DEF IInv, Shapes
  <2>2. Cardinality(DOMAIN bumps') \in Nat
    BY <2>1, FS_CardinalityType DEF Numbered
  <2> QED BY <2>1, <2>2, NewId DEF Numbered, None
<1>1. ASSUME NEW w \in Writer, NEW r, Commits(w), Wrote(r),
             \A q \in Live' \ {r} : q \in Live /\ rows'[q] = rows[q]
      PROVE  PassInv'
  <2>1. /\ since' = since \cup {r} /\ maint' = maint
        /\ maint.at # "idle" => during' = during \cup {r}
    BY <1>1 DEF Commits, Wrote
  <2>2. RetiredBut(since, {})'
    BY <1>0, <1>1, <2>1, RetiredKept DEF PassInv, RetiredBut
  <2>3. maint.at = "merge" => RetiredBut(during, maint.hit)'
    BY <1>0, <1>1, <2>1, RetiredKept DEF PassInv, RetiredBut
  <2>4. maint.at \in Merged => RetiredBut(during, {})'
    BY <1>0, <1>1, <2>1, RetiredKept DEF PassInv, RetiredBut, Merged
  <2> QED BY <2>1, <2>2, <2>3, <2>4 DEF PassInv
<1>2. CASE \E w \in Writer : StoreNew(w) \/ StoreSuperseding(w)
  <2>1. PICK w \in Writer : StoreNew(w) \/ StoreSuperseding(w)
    BY <1>2
  <2>2. CASE Inserted(w)
    BY <1>1, <2>2 DEF Inserted
  <2>3. ASSUME NEW r \in Live, Rewritten(w, r) PROVE PassInv'
    BY <1>1, <2>3 DEF Rewritten
  <2>4. CASE Refuses(w)
    BY <2>4 DEF Refuses, Commits, dbVars, PassInv, RetiredBut, Live
  <2> QED BY <1>0, <2>1, <2>2, <2>3, <2>4, CommitSteps
<1>3. CASE UNCHANGED <<rows, since, during, maint>>
  BY <1>3 DEF PassInv, RetiredBut, Live
<1>4. CASE MarkSelect
  <2>1. UNCHANGED <<rows, since>> /\ maint'.at = "mark"
    BY <1>0, <1>4 DEF MarkSelect, Part, Shapes
  <2> QED BY <2>1 DEF PassInv, RetiredBut, Live, Merged
<1>5. CASE MergeSelect
  <2>1. PICK b \in Batches(Superseding) :
          maint' = [maint EXCEPT !.at = "merge", !.hit = {rows[r].sup : r \in b}]
    BY <1>5 DEF MergeSelect, Part
  <2>2. /\ UNCHANGED <<rows, since, during>> /\ maint'.at = "merge"
        /\ maint'.hit = {rows[r].sup : r \in Superseding}
    BY <1>0, <1>5, <2>1, MergeSelectsAll DEF MergeSelect, Part, Shapes
  <2>3. RetiredBut(during, maint.hit)'
    <3> SUFFICES ASSUME NEW q \in Live', NEW r \in Live', rows'[q].sup = r PROVE r \in maint'.hit
      BY DEF RetiredBut
    <3>1. q \in Superseding
      BY <1>0, <2>2 DEF Superseding, Live
    <3> QED BY <2>2, <3>1
  <2>4. RetiredBut(since, {})'
    BY <2>2 DEF PassInv, RetiredBut, Live
  <2> QED BY <2>2, <2>3, <2>4 DEF PassInv, Merged
<1>6. CASE CleanSelect \/ PurgeSelect
  <2>1. /\ UNCHANGED <<rows, since, during>> /\ maint.at \in Merged
        /\ maint'.at \in {"clean", "purge"}
    BY <1>0, <1>6 DEF CleanSelect, PurgeSelect, Part, Shapes, Merged
  <2> QED BY <2>1 DEF PassInv, RetiredBut, Live
<1>7. CASE Recall \/ \E w \in Writer : MergeWrite(w)
  <2>1. UNCHANGED <<since, during, maint>>
    BY <1>7 DEF Recall, MergeWrite
  <2>2. /\ Live' \subseteq Live
        /\ \A r \in Live' : /\ rows'[r].sup \in {rows[r].sup, None}
                            /\ rows[r].stale # Never => rows'[r].stale # Never
    BY <1>0, <1>7, UpkeepRetires
  <2>3. ASSUME NEW new, NEW marked, RetiredBut(new, marked)
        PROVE  \A q, r \in Live' \ new :
                 rows'[q].sup = r => r \in marked \/ rows'[r].stale # Never
    BY <1>0, <2>2, <2>3, RetiredKept
  <2>4. RetiredBut(since, {})'
    BY <2>1, <2>3 DEF PassInv, RetiredBut
  <2>5. maint.at = "merge" => RetiredBut(during, maint.hit)'
    <3> SUFFICES ASSUME RetiredBut(during, maint.hit)
                 PROVE  RetiredBut(during, maint.hit)'
      BY DEF PassInv
    <3>1. \A q, r \in Live' \ during :
            rows'[q].sup = r => r \in maint.hit \/ rows'[r].stale # Never
      BY <2>3
    <3> QED BY <2>1, <3>1 DEF RetiredBut
  <2>6. maint.at \in Merged => RetiredBut(during, {})'
    BY <2>1, <2>3 DEF PassInv, RetiredBut
  <2> QED BY <2>1, <2>4, <2>5, <2>6 DEF PassInv
<1>8. CASE Retire
  <2>1. /\ UNCHANGED <<since, during>> /\ maint.at \in {"mark", "merge", "clean"}
        /\ maint.at = "mark" => maint'.at = "mark done"
        /\ maint.at = "merge" => maint'.at = "merge done"
        /\ maint.at = "clean" => maint'.at = "clean done"
    BY <1>0, <1>8 DEF Retire, Shapes
  <2>2. /\ Live' \subseteq Live
        /\ \A r \in Live' : /\ rows'[r].sup \in {rows[r].sup, None}
                            /\ rows[r].stale # Never => rows'[r].stale # Never
        /\ \A r \in Live' : r \in maint.hit => rows'[r].stale # Never
    BY <1>0, <1>8, UpkeepRetires
  <2>3. ASSUME NEW new, NEW marked, RetiredBut(new, marked)
        PROVE  \A q, r \in Live' \ new :
                 rows'[q].sup = r => r \in marked \/ rows'[r].stale # Never
    BY <1>0, <2>2, <2>3, RetiredKept
  <2>4. RetiredBut(since, {})'
    BY <2>1, <2>3 DEF PassInv, RetiredBut
  <2>5. maint.at = "merge" => RetiredBut(during, {})'
    <3> SUFFICES ASSUME RetiredBut(during, maint.hit)
                 PROVE  RetiredBut(during, {})'
      BY DEF PassInv
    <3>1. \A q, r \in Live' \ during :
            rows'[q].sup = r => r \in maint.hit \/ rows'[r].stale # Never
      BY <2>3
    <3> QED BY <2>1, <2>2, <3>1 DEF RetiredBut
  <2>6. maint.at = "clean" => RetiredBut(during, {})'
    BY <2>1, <2>3 DEF PassInv, RetiredBut, Merged
  <2> QED BY <2>1, <2>4, <2>5, <2>6 DEF PassInv, Merged
<1>9. CASE Purge
  <2>1. since' = during /\ maint.at = "purge" /\ maint'.at = "idle"
    BY <1>9 DEF Purge
  <2>2. /\ Live' \subseteq Live
        /\ \A r \in Live' : /\ rows'[r].sup \in {rows[r].sup, None}
                            /\ rows[r].stale # Never => rows'[r].stale # Never
    BY <1>0, <1>9, UpkeepRetires
  <2>3. RetiredBut(during, {})
    BY <2>1 DEF PassInv, Merged
  <2>4. \A q, r \in Live' \ during : rows'[q].sup = r => rows'[r].stale # Never
    BY <1>0, <2>2, <2>3 DEF RetiredBut
  <2> QED BY <2>1, <2>4 DEF PassInv, RetiredBut, Merged
<1> QED
  BY <1>2, <1>3, <1>4, <1>5, <1>6, <1>7, <1>8, <1>9
     DEF Next, vars, Evaluate, Lookup, OpenVikingWrite, Mem0Write, MergeRead, Tick, dbVars

(* RecallSkipsSuperseded: once a pass of maintenance has ended, what a      *)
(* record supersedes is not recalled unless one of the two was written      *)
(* since the pass began, for any number of writers meanwhile; as long as a  *)
(* batch of merge_superseded_records takes in all there is.                 *)
THEOREM SupersededIsSkipped == ASSUME BatchSuffices PROVE Spec => []RecallSkipsSuperseded
<1>1. Init => PassInv
  BY DEF Init, PassInv, RetiredBut, Live, Merged
<1>2. PassInv => RecallSkipsSuperseded
  <2> SUFFICES ASSUME PassInv, NEW r \in UNION Answers, r \notin since,
                      NEW q \in Live \ since
               PROVE  rows[q].sup # r
    BY DEF RecallSkipsSuperseded
  <2>1. ASSUME NEW top \in Answers PROVE top \subseteq Recallable
    BY DEF Answers, kSubset
  <2>2. UNION Answers \subseteq Recallable
    BY <2>1
  <2>3. UNION Answers \subseteq Live /\ \A s \in UNION Answers : rows[s].stale = Never
    BY <2>2 DEF Recallable
  <2>4. r \in Live \ since /\ rows[r].stale = Never
    BY <2>3
  <2> QED BY <2>4 DEF PassInv, RetiredBut
<1>3. IInv /\ IInv' /\ PassInv /\ [Next]_vars => PassInv'
  BY PassStep
<1> QED BY <1>1, <1>2, <1>3, IInvHolds, PTL DEF Spec
=============================================================================
