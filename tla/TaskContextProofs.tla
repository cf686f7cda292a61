-------------------------- MODULE TaskContextProofs --------------------------
(***************************************************************************)
(* Proofs about the context of an attempt: that every attempt before it has *)
(* left a summary, and what of them the four levels and the budget keep.    *)
(***************************************************************************)
EXTENDS TaskContext, ApprovalFlowProofs, SequenceTheorems, WellFoundedInduction

(* The attempt has not been dispatched yet.                                 *)
Starting == wf = "gate" \/ (wf = "dispatch" /\ ~Granted)

(* The attempts before the current one have a summary, those after it have  *)
(* none; the current one has none before its first dispatch, and has one    *)
(* while the workflow waits for its approval.                               *)
EarlierSummed ==
  /\ \A a \in 1 .. MaxAttempts :
       /\ a < cur => summary[a] # None
       /\ a > cur => summary[a] = None
  /\ wf = "ask" => summary[cur] # None
  /\ Starting => summary[cur] = None

-----------------------------------------------------------------------------
(* The summaries of the attempts                                            *)

(* A summary is written over but never removed, and only by the thread of   *)
(* the current attempt, which the workflow waits for or has given up.       *)
LEMMA SummariesStay ==
  ASSUME IInv, [Next]_vars, NEW a \in 1 .. MaxAttempts
  PROVE  /\ summary[a] # None => summary'[a] # None
         /\ summary'[a] # summary[a] => a = cur /\ wf \in {"busy", "ended"}
<1>1. /\ TypeOK /\ job \in [Dispatcher -> Job \cup {None}] /\ MaxAttempts \in Nat
      /\ summary \in [Attempt -> Summary \cup {None}] /\ "api" \in Dispatcher
  BY FlowAssumption DEF IInv, TypeOK, Dispatcher
<1>2. a \in Attempt \ {ApiAttempt}
  BY <1>1 DEF Attempt, ApiAttempt
<1>3. ASSUME NEW d \in Dispatcher, job[d] # None, job[d].attempt = a
      PROVE  d = "activity" /\ a = cur /\ wf \in {"busy", "ended"}
  BY <1>2, <1>3, ActivityAttempt DEF IInv, ApiIsNobodys, Dispatcher
<1>4. ASSUME NEW d \in Dispatcher, job[d] # None, job[d].attempt = a,
             RecordWaiting(d) \/ StoreSummary(d)
      PROVE  summary'[a] # None
  <2>1. job[d] \in Job
    BY <1>1, <1>4
  <2>2. \/ summary'[a] = [status |-> "waiting_approval", row |-> job[d].row, artifacts |-> {}]
        \/ summary'[a] = [status |-> job[d].status, row |-> 0, artifacts |-> job[d].made]
    BY <1>1, <1>2, <1>4 DEF RecordWaiting, StoreSummary
  <2>3. summary'[a] \in Summary
    BY <2>1, <2>2 DEF Job, Summary
  <2> QED BY <2>3, NoneAssumption
<1> QED BY <1>1, <1>2, <1>3, <1>4, OnlyThreadsStore

(* An attempt fails after its approval was asked for or its evidence was    *)
(* written, and none is dispatched for the first time twice.                *)
LEMMA AttemptMoves ==
  ASSUME IInv, [Next]_vars
  PROVE  /\ \/ cur' = cur
            \/ /\ cur' = cur + 1
               /\ wf = "ask" \/ RecordWaiting("activity") \/ StoreEvidence("activity")
         /\ cur' = cur /\ Starting' => Starting
         /\ wf' = "ask" => cur' = cur /\ (wf = "ask" \/ RecordWaiting("activity"))
<1>1. /\ TypeOK /\ cur \in Nat /\ slot \in Delivery \cup {None}
      /\ job \in [Dispatcher -> Job \cup {None}]
  BY FlowAssumption DEF IInv, TypeOK
<1>2. CASE Workflow
  <2>1. CASE TaskGate \/ TaskGateTimeout \/ Dispatch \/ DispatchInvalid \/ ActivityTimeout
    BY <2>1 DEF TaskGate, TaskGateTimeout, GateShut, Dispatch, DispatchInvalid,
       ActivityTimeout, Starting, Granted
  <2>2. CASE ApprovalTimeout
    BY <1>1, <2>2 DEF ApprovalTimeout, AttemptFails, Starting
  <2>3. CASE Resume
    <3>1. slot.answer # None
      BY <1>1, <2>3, NoneAssumption DEF Resume, Delivery
    <3> QED BY <1>1, <2>3, <3>1 DEF Resume, AttemptFails, Starting, Granted
  <2> QED BY <1>2, <2>1, <2>2, <2>3 DEF Workflow
<1>3. CASE Thread("api") \/ ApiDispatch \/ People
  BY <1>1, <1>3, ThreadWorks, PeopleStayAway DEF Starting, Granted, Dispatcher
<1>4. CASE Thread("activity")
  <2>1. /\ job["activity"] # None
        /\ job'["activity"] # None => UNCHANGED <<wf, cur, reply>>
    BY <1>1, <1>4, ThreadWorks DEF Dispatcher
  <2>2. wf \in {"busy", "ended"}
    BY <2>1, ActivityAttempt
  <2>3. CASE UNCHANGED <<wf, cur, reply>>
    BY <2>2, <2>3 DEF Starting, Granted
  <2>4. CASE RecordWaiting("activity")
    BY <1>1, <2>2, <2>4 DEF RecordWaiting, AttemptFails, Starting, Granted
  <2>5. CASE StoreEvidence("activity")
    BY <1>1, <2>2, <2>5 DEF StoreEvidence, AttemptFails, Starting, Granted
  <2>6. CASE ExecuteRaises("activity")
    BY <1>1, <2>2, <2>6 DEF ExecuteRaises, Starting, Granted
  <2> QED
    BY <1>4, <2>3, <2>4, <2>5, <2>6 DEF Thread, GateAsks, GateGrants, Execute, Check,
       StoreArtifacts, StoreSummary, ProcessDies, flowVars
<1>5. CASE UNCHANGED vars
  BY <1>5 DEF vars, Starting, Granted
<1> QED BY <1>2, <1>3, <1>4, <1>5 DEF Next, Dispatcher

(* Each attempt leaves its summary before the next one starts.              *)
LEMMA EarlierSummedStep ==
  ASSUME IInv, IInv', ActivitySummed, EarlierSummed, [Next]_vars
  PROVE  EarlierSummed'
<1>1. /\ cur \in 1 .. MaxAttempts /\ cur' \in 1 .. MaxAttempts /\ MaxAttempts \in Nat
      /\ cur' \in {cur, cur + 1}
  BY FlowAssumption, AttemptMoves DEF IInv, TypeOK
<1>2. ASSUME wf = "ask" \/ RecordWaiting("activity") \/ StoreEvidence("activity")
      PROVE  summary'[cur] # None
  <2>1. CASE wf = "ask"
    BY <1>1, <2>1, SummariesStay DEF EarlierSummed
  <2>2. CASE RecordWaiting("activity")
    <3>1. job["activity"] # None
      BY <2>2 DEF RecordWaiting, At
    <3>2. /\ job["activity"] \in Job /\ job["activity"].attempt = cur /\ cur \in Attempt
          /\ summary \in [Attempt -> Summary \cup {None}]
      BY <3>1, ActivityAttempt DEF IInv, TypeOK, Dispatcher
    <3>3. summary'[cur] =
            [status |-> "waiting_approval", row |-> job["activity"].row, artifacts |-> {}]
      BY <2>2, <3>2 DEF RecordWaiting
    <3>4. summary'[cur] \in Summary
      BY <3>2, <3>3 DEF Job, Summary
    <3> QED BY <3>4, NoneAssumption
  <2>3. CASE StoreEvidence("activity")
    <3>1. At("activity", "evidence") /\ summary' = summary
      BY <2>3 DEF StoreEvidence
    <3>2. job["activity"].attempt = cur
      BY <3>1, ActivityAttempt DEF At
    <3> QED BY <3>1, <3>2 DEF ActivitySummed
  <2> QED BY <1>2, <2>1, <2>2, <2>3
<1>3. ASSUME NEW a \in 1 .. MaxAttempts, a < cur' PROVE summary'[a] # None
  BY <1>1, <1>2, <1>3, AttemptMoves, SummariesStay DEF EarlierSummed
<1>4. ASSUME NEW a \in 1 .. MaxAttempts, a > cur' PROVE summary'[a] = None
  BY <1>1, <1>4, SummariesStay DEF EarlierSummed
<1>5. wf' = "ask" => summary'[cur'] # None
  BY <1>2, AttemptMoves
<1>6. Starting' => summary'[cur'] = None
  <2>1. CASE cur' = cur
    BY <1>1, <2>1, AttemptMoves, SummariesStay DEF EarlierSummed, Starting
  <2>2. CASE cur' = cur + 1
    BY <1>1, <2>2, SummariesStay DEF EarlierSummed
  <2> QED BY <1>1, <2>1, <2>2
<1> QED BY <1>3, <1>4, <1>5, <1>6 DEF EarlierSummed

(* So it is in every state of every run, whatever fails.                    *)
LEMMA SummedInvariance == Spec => [](IInv /\ EarlierSummed)
<1>1. Init => ActivitySummed /\ EarlierSummed
  <2> SUFFICES ASSUME Init PROVE ActivitySummed /\ EarlierSummed
    OBVIOUS
  <2>1. \A a \in Attempt : summary[a] = None
    BY DEF Init
  <2>2. cur = 1 /\ MaxAttempts \in Nat \ {0}
    BY FlowAssumption DEF Init
  <2>3. \A a \in 1 .. MaxAttempts : a \in Attempt /\ ~(a < cur)
    BY <2>2 DEF Attempt, ApiAttempt
  <2>4. 1 \in 1 .. MaxAttempts /\ wf # "ask" /\ job["activity"] = None
    BY <2>2 DEF Init, Dispatcher
  <2> QED BY <2>1, <2>2, <2>3, <2>4 DEF EarlierSummed, ActivitySummed, At
<1>2. ActivitySummed /\ EarlierSummed /\ IInv /\ IInv' /\ [Next]_vars
        => ActivitySummed' /\ EarlierSummed'
  BY ActivitySummedStep, EarlierSummedStep
<1> QED BY <1>1, <1>2, Invariance, PTL DEF Spec

(* The statuses an attempt that starts is told: one of each before it.      *)
LEMMA AttemptsListed ==
  ASSUME IInv, EarlierSummed, Starting
  PROVE  Len(ListAttempts) = cur - 1 /\ ListAttempts \in Statuses
<1> DEFINE stored == {a \in Attempt \ {ApiAttempt} : summary[a] # None}
           since(a) == {b \in stored : b >= a}
           newest(n) == CHOOSE a \in stored : Cardinality(since(a)) = n
           status == {"waiting_approval", "failed_retryable", "completed"}
<1>1. /\ cur \in 1 .. MaxAttempts /\ MaxAttempts \in Nat
      /\ summary \in [Attempt -> Summary \cup {None}]
  BY FlowAssumption DEF IInv, TypeOK
<1>2. stored = 1 .. cur - 1
  <2>1. Attempt \ {ApiAttempt} = 1 .. MaxAttempts
    BY <1>1 DEF Attempt, ApiAttempt
  <2>2. \A a \in 1 .. MaxAttempts : summary[a] # None <=> a < cur
    BY <1>1 DEF EarlierSummed
  <2> QED BY <1>1, <2>1, <2>2
<1>3. Cardinality(stored) = cur - 1
  <2>1. Cardinality(1 .. cur - 1) = IF 1 > cur - 1 THEN 0 ELSE cur - 1 - 1 + 1
    BY <1>1, FS_Interval
  <2>2. Cardinality(1 .. cur - 1) = cur - 1
    BY <1>1, <2>1
  <2> QED BY <1>2, <2>2
<1>4. \A a \in stored : summary[a].status \in status
  BY <1>1 DEF Summary, Result
<1>5. ASSUME NEW n \in 1 .. cur - 1 PROVE newest(n) \in stored
  <2>1. cur - n \in stored /\ since(cur - n) = cur - n .. cur - 1
    BY <1>1, <1>2
  <2>2. Cardinality(cur - n .. cur - 1) = n
    BY <1>1, FS_Interval
  <2>3. \E a \in stored : Cardinality(since(a)) = n
    BY <2>1, <2>2, Zenon
  <2> HIDE DEF stored, since
  <2> QED BY <2>3, Zenon
<1>6. ListAttempts = [n \in 1 .. cur - 1 |-> summary[newest(n)].status]
  BY <1>3 DEF ListAttempts
<1> HIDE DEF stored, newest
<1>7. ListAttempts \in [1 .. cur - 1 -> status]
  BY <1>4, <1>5, <1>6
<1>8. cur - 1 \in 0 .. MaxAttempts
  BY <1>1
<1> QED
  <2>1. ListAttempts \in Statuses
    BY <1>7, <1>8 DEF Statuses
  <2>2. Len(ListAttempts) = cur - 1
    BY <1>6, <1>8
  <2> QED BY <2>1, <2>2

-----------------------------------------------------------------------------
(* The ranking of a level                                                   *)

(* A list of entries: their texts have a length, and they have a score.     *)
Entries(e) ==
  /\ Len(e) \in Nat /\ DOMAIN e = 1 .. Len(e)
  /\ \A i \in DOMAIN e : e[i].text.length \in Nat /\ e[i].score \in Int

Earlier(e, i) == {j \in Said(e) : Before(e, j, i)}

(* Finitely many entries say something.                                     *)
LEMMA SaidFinite ==
  ASSUME NEW e, Entries(e)
  PROVE  /\ IsFiniteSet(Said(e)) /\ Cardinality(Said(e)) \in Nat
         /\ Said(e) \subseteq 1 .. Len(e)
         /\ \A i : /\ IsFiniteSet(Earlier(e, i)) /\ Cardinality(Earlier(e, i)) \in Nat
                   /\ Place(e, Said(e), i) = 1 + Cardinality(Earlier(e, i))
<1>1. Said(e) \subseteq 1 .. Len(e)
  BY DEF Said, Entries
<1>2. IsFiniteSet(1 .. Len(e))
  BY FS_Interval DEF Entries
<1>3. IsFiniteSet(Said(e)) /\ Cardinality(Said(e)) \in Nat
  BY <1>1, <1>2, FS_Subset, FS_CardinalityType
<1>4. \A i : Earlier(e, i) \subseteq Said(e)
  BY DEF Earlier
<1>5. \A i : IsFiniteSet(Earlier(e, i)) /\ Cardinality(Earlier(e, i)) \in Nat
  BY <1>3, <1>4, FS_Subset, FS_CardinalityType
<1> QED BY <1>1, <1>3, <1>5 DEF Place, Earlier

(* An entry that goes before another gets an earlier place.                 *)
LEMMA PlacesOrdered ==
  ASSUME NEW e, Entries(e), NEW i \in Said(e), NEW j \in Said(e), Before(e, i, j)
  PROVE  Place(e, Said(e), i) < Place(e, Said(e), j)
<1>1. /\ Said(e) \subseteq 1 .. Len(e) /\ Len(e) \in Nat
      /\ \A n \in Said(e) : e[n].score \in Int
  BY SaidFinite DEF Entries
<1>2. Earlier(e, i) \subseteq Earlier(e, j)
  BY <1>1 DEF Earlier, Before
<1>3. i \in Earlier(e, j) /\ i \notin Earlier(e, i)
  BY <1>1 DEF Earlier, Before
<1>4. Cardinality(Earlier(e, i)) < Cardinality(Earlier(e, j))
  <2>1. IsFiniteSet(Earlier(e, j)) /\ Earlier(e, i) # Earlier(e, j)
    BY <1>3, SaidFinite
  <2> QED BY <1>2, <2>1, FS_Subset, SaidFinite
<1> QED BY <1>4, SaidFinite

(* Places are numbers up to how many entries say something, one each.       *)
LEMMA PlacesCounted ==
  ASSUME NEW e, Entries(e)
  PROVE  /\ \A i \in Said(e) : Place(e, Said(e), i) \in 1 .. Cardinality(Said(e))
         /\ \A i, j \in Said(e) : Place(e, Said(e), i) = Place(e, Said(e), j) => i = j
<1>1. /\ Said(e) \subseteq 1 .. Len(e) /\ Len(e) \in Nat
      /\ \A n \in Said(e) : e[n].score \in Int
  BY SaidFinite DEF Entries
<1>2. ASSUME NEW i \in Said(e) PROVE Place(e, Said(e), i) \in 1 .. Cardinality(Said(e))
  <2>1. Earlier(e, i) \subseteq Said(e) /\ Earlier(e, i) # Said(e)
    BY <1>1 DEF Earlier, Before
  <2>2. Cardinality(Earlier(e, i)) < Cardinality(Said(e))
    BY <2>1, FS_Subset, SaidFinite
  <2> QED BY <2>2, SaidFinite
<1>3. ASSUME NEW i \in Said(e), NEW j \in Said(e), i # j
      PROVE  Place(e, Said(e), i) # Place(e, Said(e), j)
  <2>1. Before(e, i, j) \/ Before(e, j, i)
    BY <1>1, <1>3 DEF Before
  <2> QED BY <1>2, <2>1, PlacesOrdered
<1> QED BY <1>2, <1>3

(* The places are all taken.                                                *)
LEMMA PlacesTaken ==
  ASSUME NEW e, Entries(e), NEW n \in 1 .. Cardinality(Said(e))
  PROVE  \E i \in Said(e) : Place(e, Said(e), i) = n
<1> DEFINE N == Cardinality(Said(e))
           place == [i \in Said(e) |-> Place(e, Said(e), i)]
<1>1. place \in Injection(Said(e), 1 .. N)
  BY PlacesCounted DEF Injection, IsInjective
<1>2. N \in Nat
  BY SaidFinite
<1>3. IsFiniteSet(1 .. N) /\ Cardinality(1 .. N) = N
  BY <1>2, FS_Interval
<1> HIDE DEF place
<1>4. place \in Surjection(Said(e), 1 .. N)
  BY <1>1, <1>3, FS_Injection
<1>5. \E i \in Said(e) : place[i] = n
  BY <1>4 DEF Surjection
<1> QED BY <1>5 DEF place

(* A level holds as many texts as it may, all of them said, and what is     *)
(* placed among the first is at its place.                                  *)
LEMMA RankedTexts ==
  ASSUME NEW e, Entries(e), NEW limit \in Nat
  PROVE  LET R == RankEntries(e, limit) IN
         /\ Len(R) \in Nat /\ DOMAIN R = 1 .. Len(R)
         /\ Len(R) = Least(limit, Cardinality(Said(e)))
         /\ \A n \in DOMAIN R : \E i \in Said(e) : R[n] = e[i].text
         /\ \A i \in Said(e) : Place(e, Said(e), i) <= limit =>
              Place(e, Said(e), i) \in DOMAIN R /\ R[Place(e, Said(e), i)] = e[i].text
<1> DEFINE R == RankEntries(e, limit)
           said == Said(e)
           at(n) == CHOOSE i \in said : Place(e, said, i) = n
           size == Least(limit, Cardinality(said))
<1>1. R = [n \in 1 .. size |-> e[at(n)].text]
  BY DEF RankEntries
<1>2. size \in Nat /\ size <= limit /\ size <= Cardinality(said) /\ Cardinality(said) \in Nat
  BY SaidFinite DEF Least
<1>3. \A n \in 1 .. size : at(n) \in said /\ Place(e, said, at(n)) = n
  <2> SUFFICES ASSUME NEW n \in 1 .. size PROVE at(n) \in said /\ Place(e, said, at(n)) = n
    OBVIOUS
  <2>1. n \in 1 .. Cardinality(said)
    BY <1>2
  <2>2. \E i \in said : Place(e, said, i) = n
    BY <2>1, PlacesTaken
  <2> HIDE DEF said
  <2> QED BY <2>2, Zenon
<1>4. ASSUME NEW i \in said, Place(e, said, i) <= limit
      PROVE  Place(e, said, i) \in 1 .. size /\ at(Place(e, said, i)) = i
  <2>1. Place(e, said, i) \in 1 .. Cardinality(said)
    BY PlacesCounted
  <2>2. Place(e, said, i) \in 1 .. size
    BY <1>4, <2>1, SaidFinite DEF Least
  <2> QED BY <1>3, <2>2, PlacesCounted
<1> HIDE DEF R, at, size
<1>5. Len(R) = size /\ DOMAIN R = 1 .. size
  BY <1>1, <1>2
<1>6. \A n \in DOMAIN R : \E i \in said : R[n] = e[i].text
  BY <1>1, <1>3, <1>5
<1>7. \A i \in said : Place(e, said, i) <= limit =>
        Place(e, said, i) \in DOMAIN R /\ R[Place(e, said, i)] = e[i].text
  BY <1>1, <1>4, <1>5
<1> QED BY <1>2, <1>5, <1>6, <1>7 DEF R, size

-----------------------------------------------------------------------------
(* The budget                                                               *)

(* A list of blocks, none longer than a block may be.                       *)
Laid(b) ==
  /\ Len(b) \in Nat /\ DOMAIN b = 1 .. Len(b)
  /\ \A i \in 1 .. Len(b) :
       /\ b[i].length \in 0 .. MaxBody
       /\ b[i] = [level |-> b[i].level, name |-> b[i].name, length |-> b[i].length,
                  truncated |-> b[i].truncated]

(* The totals up to the n-th block.                                         *)
Summing(f, b, n) == f = [m \in 0 .. n |-> IF m = 0 THEN 0 ELSE f[m - 1] + b[m].length]

(* A set of numbers with a member has a least one.                          *)
LEMMA LeastNumber ==
  ASSUME NEW S, S \subseteq Nat, S # {}
  PROVE  \E m \in S : \A k \in S : m <= k
<1>1. PICK m \in S : \A k \in S : <<k, m>> \notin OpToRel(<, Nat)
  BY WFMin, NatLessThanWellFounded, Zenon
<1>2. \A k \in S : ~(k < m)
  BY <1>1, Zenon DEF OpToRel
<1> QED BY <1>2

(* There are such totals, by induction on the number of blocks.             *)
LEMMA TotalSums ==
  ASSUME NEW b, Len(b) \in Nat
  PROVE  Summing(Total(b), b, Len(b))
<1> DEFINE S == {m \in 0 .. Len(b) : ~ \E f : Summing(f, b, m)}
<1>1. S = {}
  <2> SUFFICES ASSUME S # {} PROVE FALSE
    OBVIOUS
  <2>1. S \subseteq Nat
    OBVIOUS
  <2>2. PICK m \in S : \A k \in S : m <= k
    BY <2>1, LeastNumber, Zenon
  <2>3. m # 0
    <3> DEFINE g == [n \in 0 .. 0 |-> 0]
    <3>1. Summing(g, b, 0)
      BY DEF Summing
    <3> HIDE DEF g
    <3>2. \E f : Summing(f, b, 0)
      BY <3>1
    <3> QED BY <2>2, <3>2
  <2>4. m - 1 \in 0 .. Len(b) /\ m - 1 \notin S
    BY <2>2, <2>3
  <2>5. PICK g : Summing(g, b, m - 1)
    BY <2>4
  <2> DEFINE h == [n \in 0 .. m |-> IF n = 0 THEN 0 ELSE g[n - 1] + b[n].length]
  <2>6. \A n \in 0 .. m - 1 : h[n] = g[n]
    BY <2>2, <2>5 DEF Summing
  <2>7. \A n \in 1 .. m : g[n - 1] + b[n].length = h[n - 1] + b[n].length
    <3> SUFFICES ASSUME NEW n \in 1 .. m PROVE g[n - 1] = h[n - 1]
      OBVIOUS
    <3>1. n - 1 \in 0 .. m - 1
      BY <2>2
    <3> QED BY <2>6, <3>1
  <2>8. h = [n \in 0 .. m |-> IF n = 0 THEN 0 ELSE h[n - 1] + b[n].length]
    <3>1. \A n \in 0 .. m : n # 0 => n \in 1 .. m
      BY <2>2
    <3> DEFINE e(n) == h[n - 1] + b[n].length
               d(n) == g[n - 1] + b[n].length
    <3>2. \A n \in 1 .. m : d(n) = e(n)
      BY <2>7
    <3>3. h = [n \in 0 .. m |-> IF n = 0 THEN 0 ELSE d(n)]
      OBVIOUS
    <3> HIDE DEF h, e, d
    <3>4. h = [n \in 0 .. m |-> IF n = 0 THEN 0 ELSE e(n)]
      BY <3>1, <3>2, <3>3
    <3> QED BY <3>4 DEF e
  <2> HIDE DEF h
  <2>9. Summing(h, b, m)
    BY <2>8 DEF Summing
  <2> QED BY <2>2, <2>9
<1>2. \E f : Summing(f, b, Len(b))
  BY <1>1
<1> DEFINE F == CHOOSE f : Summing(f, b, Len(b))
<1>3. Summing(F, b, Len(b))
  BY <1>2, Zenon
<1>4. Total(b) = F
  BY DEF Total, Summing
<1> HIDE DEF F
<1> QED BY <1>3, <1>4

(* The total starts at nothing and grows by a block a time.                 *)
LEMMA TotalGrows ==
  ASSUME NEW b, Len(b) \in Nat
  PROVE  /\ Total(b)[0] = 0
         /\ \A n \in 1 .. Len(b) : Total(b)[n] = Total(b)[n - 1] + b[n].length
<1>1. Len(b) \in Nat
  OBVIOUS
<1> DEFINE T == Total(b)
<1>2. T = [m \in 0 .. Len(b) |-> IF m = 0 THEN 0 ELSE T[m - 1] + b[m].length]
  BY <1>1, TotalSums DEF Summing
<1> HIDE DEF T
<1>3. T[0] = 0
  BY <1>1, <1>2
<1>4. ASSUME NEW n \in 1 .. Len(b) PROVE T[n] = T[n - 1] + b[n].length
  <2>1. n \in 0 .. Len(b) /\ n # 0
    BY <1>1
  <2> QED BY <1>2, <2>1
<1> QED BY <1>3, <1>4 DEF T

(* It never exceeds what as many whole blocks come to.                      *)
LEMMA TotalBounded ==
  ASSUME NEW b, Laid(b), NEW n \in 0 .. Len(b)
  PROVE  Total(b)[n] \in 0 .. MaxBody * n
<1> DEFINE T == Total(b)
           S == {m \in 0 .. Len(b) : T[m] \notin 0 .. MaxBody * m}
<1>1. /\ Len(b) \in Nat /\ T[0] = 0
      /\ \A m \in 1 .. Len(b) : T[m] = T[m - 1] + b[m].length
      /\ \A m \in 1 .. Len(b) : b[m].length \in 0 .. MaxBody
  BY TotalGrows DEF Laid
<1> HIDE DEF T
<1>2. S = {}
  <2> SUFFICES ASSUME S # {} PROVE FALSE
    OBVIOUS
  <2>1. S \subseteq Nat
    BY <1>1
  <2>2. PICK m \in S : \A k \in S : m <= k
    BY <2>1, LeastNumber, Zenon
  <2>3. m # 0
    BY <1>1, <2>2 DEF MaxBody
  <2>4. m - 1 \in 0 .. Len(b) /\ m \in 1 .. Len(b) /\ m - 1 \notin S
    BY <1>1, <2>2, <2>3
  <2>5. T[m - 1] \in 0 .. MaxBody * (m - 1)
    BY <2>4
  <2>6. T[m] = T[m - 1] + b[m].length /\ b[m].length \in 0 .. MaxBody
    BY <1>1, <2>4
  <2>7. \A x, y, w \in Int : x \in 0 .. 280 * (w - 1) /\ y \in 0 .. 280 => x + y \in 0 .. 280 * w
    OBVIOUS
  <2>8. T[m] \in 0 .. MaxBody * m
    <3> DEFINE x == T[m - 1]
               y == b[m].length
    <3>1. m \in Int
      BY <1>1, <2>4
    <3>2. x \in 0 .. 280 * (m - 1) /\ y \in 0 .. 280 /\ T[m] = x + y
      BY <2>5, <2>6 DEF MaxBody
    <3> HIDE DEF x, y
    <3>3. x + y \in 0 .. 280 * m
      BY <2>7, <3>1, <3>2
    <3> QED BY <3>2, <3>3 DEF MaxBody
  <2> QED BY <2>2, <2>8
<1> QED BY <1>2 DEF T

(* It does not shrink.                                                      *)
LEMMA TotalMonotone ==
  ASSUME NEW b, Laid(b), NEW i \in 0 .. Len(b), NEW j \in i .. Len(b)
  PROVE  Total(b)[i] <= Total(b)[j]
<1> DEFINE T == Total(b)
           S == {m \in i .. Len(b) : ~(T[i] <= T[m])}
<1>1. /\ Len(b) \in Nat
      /\ \A m \in 1 .. Len(b) : T[m] = T[m - 1] + b[m].length
      /\ \A m \in 1 .. Len(b) : b[m].length \in 0 .. MaxBody
      /\ \A m \in 0 .. Len(b) : T[m] \in 0 .. MaxBody * m
  BY TotalGrows, TotalBounded DEF Laid
<1>2. \A m \in 0 .. Len(b) : T[m] \in Int
  BY <1>1
<1> HIDE DEF T
<1>3. S = {}
  <2> SUFFICES ASSUME S # {} PROVE FALSE
    OBVIOUS
  <2>1. S \subseteq Nat
    BY <1>1
  <2>2. PICK m \in S : \A k \in S : m <= k
    BY <2>1, LeastNumber, Zenon
  <2>3. m # i
    BY <1>2, <2>2
  <2>4. m - 1 \in i .. Len(b) /\ m \in 1 .. Len(b) /\ m - 1 \notin S
    BY <1>1, <2>2, <2>3
  <2>5. T[i] <= T[m - 1]
    BY <2>4
  <2>6. T[m] = T[m - 1] + b[m].length /\ b[m].length \in 0 .. MaxBody
    BY <1>1, <2>4
  <2>7. T[i] \in Int /\ T[m - 1] \in Int
    BY <1>1, <1>2, <2>4
  <2>8. T[i] <= T[m]
    <3> DEFINE x == T[m - 1]
               y == b[m].length
    <3>1. x \in Int /\ y \in 0 .. 280 /\ T[m] = x + y /\ T[i] <= x /\ T[i] \in Int
      BY <2>5, <2>6, <2>7 DEF MaxBody
    <3> HIDE DEF x, y
    <3> QED BY <3>1
  <2> QED BY <2>2, <2>8
<1>4. T[i] <= T[j]
  BY <1>3
<1> QED BY <1>4 DEF T

(* The budget keeps a first part of the blocks, all of them whole but the   *)
(* last one, and something if it is more than nothing; one that would do    *)
(* for as many of the longest blocks keeps them all.                        *)
LEMMA BudgetKeeps ==
  ASSUME NEW b, Laid(b), NEW tokens \in Nat \ {0}
  PROVE  LET R == ApplyTokenBudget(b, tokens) IN
         /\ Len(R) \in 0 .. Len(b) /\ DOMAIN R = 1 .. Len(R)
         /\ Len(b) > 0 => Len(R) > 0
         /\ \A i \in 1 .. Len(R) : R[i].level = b[i].level
         /\ \A i \in 1 .. Len(R) : \A j \in 1 .. i - 1 : R[j] = b[j]
         /\ MaxBody * Len(b) <= 4 * tokens => \A i \in 1 .. Len(b) : i \in DOMAIN R /\ R[i] = b[i]
         /\ \A i \in 1 .. Len(R) : R[i].length \in 0 .. Least(b[i].length, 4 * tokens - Total(b)[i - 1])
<1> DEFINE T == Total(b)
           left(i) == 4 * tokens - T[i - 1]
           kept == {i \in DOMAIN b : left(i) > 0}
           cut(i) == [b[i] EXCEPT !.length = left(i), !.truncated = TRUE]
           gone == {i \in 1 .. Len(b) : ~(left(i) > 0)}
<1>1. /\ Len(b) \in Nat /\ DOMAIN b = 1 .. Len(b) /\ T[0] = 0
      /\ \A i \in 1 .. Len(b) : T[i] = T[i - 1] + b[i].length /\ b[i].length \in 0 .. MaxBody
  BY TotalGrows DEF Laid
<1>2. \A i \in 0 .. Len(b) : T[i] \in 0 .. MaxBody * i
  BY TotalBounded
<1>3. \A i \in 0 .. Len(b) : \A j \in i .. Len(b) : T[i] <= T[j]
  BY TotalMonotone
<1>4. ApplyTokenBudget(b, tokens) =
        [i \in 1 .. Cardinality(kept) |-> IF b[i].length <= left(i) THEN b[i] ELSE cut(i)]
  BY DEF ApplyTokenBudget
<1> HIDE DEF T
<1>5. \A i \in 1 .. Len(b) : i - 1 \in 0 .. Len(b) /\ T[i - 1] \in Int /\ left(i) \in Int
  <2> SUFFICES ASSUME NEW i \in 1 .. Len(b)
               PROVE  i - 1 \in 0 .. Len(b) /\ T[i - 1] \in Int /\ left(i) \in Int
    OBVIOUS
  <2>1. i - 1 \in 0 .. Len(b)
    BY <1>1
  <2>2. T[i - 1] \in 0 .. MaxBody * (i - 1)
    BY <1>2, <2>1
  <2> QED BY <2>1, <2>2
<1>6. \A i \in 1 .. Len(b) : \A j \in i .. Len(b) : left(j) <= left(i)
  <2> SUFFICES ASSUME NEW i \in 1 .. Len(b), NEW j \in i .. Len(b) PROVE left(j) <= left(i)
    OBVIOUS
  <2>1. i - 1 \in 0 .. Len(b) /\ j - 1 \in i - 1 .. Len(b) /\ j \in 1 .. Len(b)
    BY <1>1
  <2>2. T[i - 1] <= T[j - 1]
    BY <1>3, <2>1
  <2>3. T[i - 1] \in Int /\ T[j - 1] \in Int
    BY <1>5, <2>1
  <2> QED BY <2>2, <2>3
<1>7. PICK c \in 0 .. Len(b) : kept = 1 .. c
  <2>1. CASE gone = {}
    <3>1. kept = 1 .. Len(b)
      BY <1>1, <2>1
    <3> QED BY <1>1, <3>1
  <2>2. CASE gone # {}
    <3>1. gone \subseteq Nat
      OBVIOUS
    <3>2. PICK m \in gone : \A k \in gone : m <= k
      BY <2>2, <3>1, LeastNumber, Zenon
    <3>3. \A i \in 1 .. Len(b) : i < m => left(i) > 0
      BY <3>2
    <3>4. \A i \in 1 .. Len(b) : i >= m => ~(left(i) > 0)
      BY <1>5, <1>6, <3>2
    <3>5. kept = 1 .. m - 1 /\ m - 1 \in 0 .. Len(b)
      BY <1>1, <3>2, <3>3, <3>4
    <3> QED BY <3>5
  <2> QED BY <2>1, <2>2
<1>8. Cardinality(kept) = c
  <2>1. Cardinality(1 .. c) = IF 1 > c THEN 0 ELSE c - 1 + 1
    BY <1>1, FS_Interval
  <2>2. Cardinality(1 .. c) = c
    BY <1>1, <2>1
  <2> QED BY <1>7, <2>2
<1>9. \A i \in 1 .. c : i \in 1 .. Len(b) /\ left(i) > 0
  BY <1>1, <1>7
<1> DEFINE R == [i \in 1 .. c |-> IF b[i].length <= left(i) THEN b[i] ELSE cut(i)]
<1>10. ApplyTokenBudget(b, tokens) = R
  BY <1>4, <1>8
<1>11. Len(R) = c /\ DOMAIN R = 1 .. c
  OBVIOUS
<1>12. Len(b) > 0 => c > 0
  <2> SUFFICES ASSUME Len(b) > 0 PROVE c > 0
    OBVIOUS
  <2>1. 1 \in 1 .. Len(b) /\ left(1) = 4 * tokens - T[0]
    BY <1>1
  <2>2. 1 \in kept
    BY <1>1, <2>1
  <2> QED BY <1>7, <2>2
<1>13. ASSUME NEW i \in 1 .. c PROVE R[i].level = b[i].level
  <2>1. b[i] = [level |-> b[i].level, name |-> b[i].name, length |-> b[i].length,
                truncated |-> b[i].truncated]
    BY <1>9 DEF Laid
  <2> QED BY <2>1
<1>14. ASSUME NEW i \in 1 .. c, NEW j \in 1 .. i - 1 PROVE R[j] = b[j]
  <2>1. j \in 1 .. c /\ j \in 1 .. Len(b) /\ i \in 1 .. Len(b) /\ i - 1 \in j .. Len(b)
    BY <1>1, <1>7
  <2>2. T[j] <= T[i - 1] /\ left(i) > 0
    BY <1>3, <1>9, <2>1
  <2>3. T[j] = T[j - 1] + b[j].length /\ b[j].length \in Int /\ T[j - 1] \in Int /\ T[i - 1] \in Int
    <3>1. T[j] = T[j - 1] + b[j].length /\ b[j].length \in 0 .. MaxBody
      BY <1>1, <2>1, Zenon
    <3>2. b[j].length \in Int
      <4>1. \A n : n \in 0 .. MaxBody => n \in Int
        BY DEF MaxBody
      <4> QED BY <3>1, <4>1, Zenon
    <3>3. T[j - 1] \in Int /\ T[i - 1] \in Int
      BY <1>5, <2>1
    <3> QED BY <3>1, <3>2, <3>3
  <2>4. b[j].length <= left(j)
    <3> DEFINE x == T[j - 1]
               y == b[j].length
               z == T[i - 1]
    <3>1. x + y <= z /\ 4 * tokens - z > 0 /\ x \in Int /\ y \in Int /\ z \in Int
      BY <2>2, <2>3
    <3> HIDE DEF x, y, z
    <3>2. y <= 4 * tokens - x
      BY <3>1
    <3> QED BY <3>2 DEF x, y
  <2> QED BY <2>1, <2>4
<1>15. ASSUME MaxBody * Len(b) <= 4 * tokens, NEW i \in 1 .. Len(b)
       PROVE  i \in 1 .. c /\ R[i] = b[i]
  <2>1. i - 1 \in 0 .. Len(b) /\ b[i].length \in 0 .. 280
    BY <1>1, <1>5 DEF MaxBody
  <2>2. T[i - 1] \in 0 .. 280 * (i - 1) /\ 280 * Len(b) <= 4 * tokens
    BY <1>2, <1>15, <2>1 DEF MaxBody
  <2>3. 280 * (i - 1) + 280 <= 4 * tokens
    BY <1>1, <2>2
  <2>4. left(i) > 0 /\ b[i].length <= left(i)
    <3> DEFINE x == T[i - 1]
               y == b[i].length
    <3>1. x \in 0 .. 280 * (i - 1) /\ y \in 0 .. 280
      BY <2>1, <2>2
    <3> HIDE DEF x, y
    <3>2. 4 * tokens - x >= 280 /\ y <= 280 /\ y \in Int /\ x \in Int
      BY <1>1, <2>3, <3>1
    <3>3. 4 * tokens - x > 0 /\ y <= 4 * tokens - x
      BY <3>2
    <3> QED BY <3>3 DEF x, y
  <2>5. i \in 1 .. c
    BY <1>1, <1>7, <2>4
  <2> QED BY <2>4, <2>5
<1>16. ASSUME NEW i \in 1 .. c PROVE R[i].length \in 0 .. Least(b[i].length, left(i))
  <2>1. left(i) \in Int /\ left(i) > 0
    BY <1>5, <1>9
  <2>2. b[i].length \in Nat
    <3>1. b[i].length \in 0 .. MaxBody
      BY <1>1, <1>9
    <3> QED BY <3>1
  <2>3. CASE b[i].length <= left(i)
    <3>1. R[i] = b[i]
      BY <2>3
    <3> HIDE DEF R
    <3> QED BY <2>1, <2>2, <2>3, <3>1 DEF Least
  <2>4. CASE ~(b[i].length <= left(i))
    <3>1. R[i] = cut(i)
      BY <2>4
    <3>2. b[i] = [level |-> b[i].level, name |-> b[i].name, length |-> b[i].length,
                  truncated |-> b[i].truncated]
      BY <1>9 DEF Laid
    <3>3. cut(i).length = left(i)
      BY <3>2
    <3> HIDE DEF R, cut
    <3>4. R[i].length = left(i)
      BY <3>1, <3>3
    <3> QED BY <2>1, <2>2, <2>4, <3>4 DEF Least
  <2> QED BY <2>3, <2>4
<1>17. \A i \in 1 .. c : R[i].length \in 0 .. Least(b[i].length, 4 * tokens - T[i - 1])
  BY <1>16
<1> HIDE DEF R
<1> QED BY <1>1, <1>7, <1>10, <1>11, <1>12, <1>13, <1>14, <1>15, <1>17 DEF T

(* What a list of blocks comes to: four characters a token at most.         *)
Fits(b, tokens) == Total(b)[Len(b)] <= 4 * tokens

(* The lengths of what is kept add up to the budget at most, since only the *)
(* last block is cut, and to what the others have left of it.               *)
LEMMA BudgetFits ==
  ASSUME NEW b, Laid(b), NEW tokens \in Nat \ {0}
  PROVE  Fits(ApplyTokenBudget(b, tokens), tokens)
<1> DEFINE R == ApplyTokenBudget(b, tokens)
           T == Total(b)
           U == Total(R)
           c == Len(R)
           S == {m \in 0 .. c - 1 : U[m] # T[m]}
<1>1. /\ c \in 0 .. Len(b) /\ Len(b) \in Nat
      /\ \A i \in 1 .. c : \A j \in 1 .. i - 1 : R[j] = b[j]
      /\ \A i \in 1 .. c : R[i].length \in 0 .. Least(b[i].length, 4 * tokens - T[i - 1])
  BY BudgetKeeps DEF Laid
<1>2. /\ T[0] = 0 /\ \A i \in 1 .. Len(b) : T[i] = T[i - 1] + b[i].length
      /\ \A i \in 0 .. Len(b) : T[i] \in 0 .. MaxBody * i
      /\ \A i \in 1 .. Len(b) : b[i].length \in 0 .. MaxBody
  BY <1>1, TotalGrows, TotalBounded DEF Laid
<1>3. U[0] = 0 /\ \A i \in 1 .. c : U[i] = U[i - 1] + R[i].length
  <2>1. Len(R) \in Nat
    BY <1>1
  <2> HIDE DEF R
  <2> QED BY <2>1, TotalGrows
<1> HIDE DEF R, T, U, c
<1>4. S = {}
  <2> SUFFICES ASSUME S # {} PROVE FALSE
    OBVIOUS
  <2>1. S \subseteq Nat
    BY <1>1
  <2>2. PICK m \in S : \A k \in S : m <= k
    BY <2>1, LeastNumber, Zenon
  <2>3. m # 0
    BY <1>2, <1>3, <2>2
  <2>4. m - 1 \in 0 .. c - 1 /\ m \in 1 .. c /\ m \in 1 .. Len(b) /\ m - 1 \notin S
    BY <1>1, <2>2, <2>3
  <2>5. U[m - 1] = T[m - 1]
    BY <2>4
  <2>6. c \in 1 .. c /\ m \in 1 .. c - 1
    BY <1>1, <2>2, <2>3
  <2>7. R[m] = b[m]
    BY <1>1, <2>6
  <2>8. U[m] = T[m]
    BY <1>2, <1>3, <2>4, <2>5, <2>7
  <2> QED BY <2>2, <2>8
<1>5. ASSUME c = 0 PROVE U[c] <= 4 * tokens
  BY <1>3, <1>5
<1>6. ASSUME c # 0 PROVE U[c] <= 4 * tokens
  <2>1. c \in 1 .. c /\ c \in 1 .. Len(b) /\ c - 1 \in 0 .. c - 1 /\ c - 1 \in 0 .. Len(b)
    BY <1>1, <1>6
  <2>2. U[c - 1] = T[c - 1] /\ U[c] = U[c - 1] + R[c].length
    BY <1>3, <1>4, <2>1
  <2> DEFINE x == T[c - 1]
             y == b[c].length
             z == R[c].length
  <2>3. z \in 0 .. Least(y, 4 * tokens - x) /\ U[c] = x + z
    BY <1>1, <2>1, <2>2
  <2>4. x \in Int
    <3>1. x \in 0 .. MaxBody * (c - 1)
      BY <1>2, <2>1
    <3> QED BY <3>1
  <2>5. y \in Int
    <3>1. y \in 0 .. MaxBody
      BY <1>2, <2>1
    <3> QED BY <3>1
  <2> HIDE DEF x, y, z
  <2>6. z \in Int /\ z <= 4 * tokens - x
    BY <2>3, <2>4, <2>5 DEF Least
  <2> QED BY <2>3, <2>4, <2>6
<1>7. U[c] <= 4 * tokens
  BY <1>5, <1>6
<1> QED BY <1>7 DEF U, c, R, Fits

-----------------------------------------------------------------------------
(* The levels                                                               *)

(* The blocks of a level, of which there are no more than the limit.        *)
Level(b, level, limit) ==
  Laid(b) /\ Len(b) <= limit /\ \A i \in 1 .. Len(b) : b[i].level = level

(* What is ranked among the first is shown by the blocks of its level.      *)
LEMMA LevelShows ==
  ASSUME NEW e, Entries(e), NEW limit \in Nat \ {0}, NEW level
  PROVE  LET b == Blocks(level, RankEntries(e, limit)) IN
         /\ Level(b, level, limit)
         /\ Said(e) # {} => Len(b) > 0
         /\ \A i \in Said(e) : Place(e, Said(e), i) <= limit => Shows(b, e[i].text)
<1> DEFINE R == RankEntries(e, limit)
           b == Blocks(level, R)
           place(i) == Place(e, Said(e), i)
<1>1. /\ Len(R) \in Nat /\ DOMAIN R = 1 .. Len(R)
      /\ Len(R) = Least(limit, Cardinality(Said(e)))
      /\ \A n \in DOMAIN R : \E i \in Said(e) : R[n] = e[i].text
      /\ \A i \in Said(e) : place(i) <= limit => place(i) \in DOMAIN R /\ R[place(i)] = e[i].text
  BY RankedTexts
<1> HIDE DEF R
<1>2. b = [n \in 1 .. Len(R) |->
             [level |-> level, name |-> R[n].name, length |-> Least(R[n].length, MaxBody),
              truncated |-> R[n].length > MaxBody]]
  BY <1>1 DEF Blocks
<1> HIDE DEF b
<1>3. Len(b) = Len(R) /\ DOMAIN b = 1 .. Len(R)
  BY <1>1, <1>2
<1>4. \A n \in 1 .. Len(R) : /\ b[n].level = level /\ b[n].name = R[n].name
                             /\ b[n].length = Least(R[n].length, MaxBody)
  BY <1>2
<1>5. \A i \in Said(e) : e[i].text.length \in Nat
  BY SaidFinite DEF Entries
<1>6. \A n \in 1 .. Len(R) : R[n].length \in Nat
  BY <1>1, <1>5
<1>7. \A n \in 1 .. Len(R) : b[n].length \in 0 .. MaxBody
  <2>1. \A x \in Nat : Least(x, MaxBody) \in 0 .. MaxBody
    BY DEF Least, MaxBody
  <2> QED BY <1>4, <1>6, <2>1
<1>8. Len(R) <= limit /\ (Said(e) # {} => Len(R) > 0)
  <2>1. Cardinality(Said(e)) \in Nat /\ (Said(e) # {} => Cardinality(Said(e)) # 0)
    BY SaidFinite, FS_EmptySet
  <2> QED BY <1>1, <2>1 DEF Least
<1>9. ASSUME NEW i \in Said(e), place(i) <= limit PROVE Shows(b, e[i].text)
  <2>1. place(i) \in 1 .. Len(R) /\ R[place(i)] = e[i].text
    BY <1>1, <1>9
  <2>2. place(i) \in DOMAIN b
    BY <1>3, <2>1
  <2>3. /\ b[place(i)].name = e[i].text.name
        /\ b[place(i)].length = Least(e[i].text.length, MaxBody)
    BY <1>4, <2>1
  <2> QED BY <2>2, <2>3 DEF Shows
<1>10. \A n \in 1 .. Len(R) :
         b[n] = [level |-> b[n].level, name |-> b[n].name, length |-> b[n].length,
                 truncated |-> b[n].truncated]
  BY <1>2
<1> QED BY <1>1, <1>3, <1>4, <1>7, <1>8, <1>9, <1>10 DEF Level, Laid, b, R

(* One list of blocks after another.                                        *)
LEMMA Joined ==
  ASSUME NEW s, NEW t, Laid(s), Laid(t)
  PROVE  /\ Laid(s \o t) /\ Len(s \o t) = Len(s) + Len(t)
         /\ \A i \in 1 .. Len(s) : (s \o t)[i] = s[i]
         /\ \A i \in 1 .. Len(t) : (s \o t)[Len(s) + i] = t[i]
         /\ \A i \in 1 .. Len(s \o t) :
              (i \in 1 .. Len(s) /\ (s \o t)[i] = s[i])
              \/ (i - Len(s) \in 1 .. Len(t) /\ (s \o t)[i] = t[i - Len(s)])
<1>1. Len(s) \in Nat /\ Len(t) \in Nat
  BY DEF Laid
<1> DEFINE st == s \o t
<1>2. Len(st) = Len(s) + Len(t) /\ DOMAIN st = 1 .. Len(s) + Len(t)
  BY <1>1
<1>3. \A i \in 1 .. Len(s) + Len(t) : st[i] = IF i <= Len(s) THEN s[i] ELSE t[i - Len(s)]
  BY <1>1
<1> HIDE DEF st
<1>4. \A i \in 1 .. Len(s) : st[i] = s[i]
  BY <1>1, <1>3
<1>5. ASSUME NEW i \in 1 .. Len(t) PROVE st[Len(s) + i] = t[i]
  <2>1. /\ Len(s) + i \in 1 .. Len(s) + Len(t) /\ ~(Len(s) + i <= Len(s))
        /\ Len(s) + i - Len(s) = i
    BY <1>1
  <2> QED BY <1>3, <2>1
<1>6. ASSUME NEW i \in 1 .. Len(st)
      PROVE  \/ i \in 1 .. Len(s) /\ st[i] = s[i]
             \/ i - Len(s) \in 1 .. Len(t) /\ st[i] = t[i - Len(s)]
  <2>1. i \in 1 .. Len(s) + Len(t)
    BY <1>2
  <2>2. i \in 1 .. Len(s) \/ (~(i <= Len(s)) /\ i - Len(s) \in 1 .. Len(t))
    BY <1>1, <2>1
  <2> QED BY <1>3, <1>4, <2>1, <2>2
<1>7. Laid(st)
  BY <1>1, <1>2, <1>6 DEF Laid
<1> QED BY <1>2, <1>4, <1>5, <1>6, <1>7 DEF st

(* A text that the first n blocks show.                                     *)
ShownFirst(b, n, text) ==
  \E i \in 1 .. n : b[i].name = text.name /\ b[i].length = Least(text.length, MaxBody)

(* What is shown in the second or third of four levels stays as long as     *)
(* anything of the fourth does, and whenever the budget is one for as many  *)
(* blocks; and something of them stays.                                     *)
LEMMA ContextKeeps ==
  ASSUME NEW blocks \in Nat \ {0}, NEW tokens \in Nat \ {0},
         NEW a, NEW b, NEW c, NEW d, Level(a, 0, blocks), Level(b, 1, blocks),
         Level(c, 2, blocks), Level(d, 3, blocks), Len(b) > 0
  PROVE  LET R == ApplyTokenBudget(a \o b \o c \o d, tokens) IN
         /\ R # << >> /\ Fits(R, tokens)
         /\ \A text : Shows(b, text) \/ Shows(c, text) =>
              /\ (\E i \in DOMAIN R : R[i].level = 3) => Shows(R, text)
              /\ tokens >= 280 * blocks => Shows(R, text)
<1> DEFINE ab == a \o b
           abc == ab \o c
           all == abc \o d
           R == ApplyTokenBudget(all, tokens)
<1>1. /\ Laid(a) /\ Laid(b) /\ Laid(c) /\ Laid(d)
      /\ Len(a) \in 0 .. blocks /\ Len(b) \in 1 .. blocks
      /\ Len(c) \in 0 .. blocks /\ Len(d) \in 0 .. blocks
  BY DEF Level, Laid
<1>2. /\ Laid(ab) /\ Len(ab) = Len(a) + Len(b)
      /\ \A i \in 1 .. Len(b) : ab[Len(a) + i] = b[i]
      /\ \A i \in 1 .. Len(ab) : \/ i \in 1 .. Len(a) /\ ab[i] = a[i]
                                 \/ i - Len(a) \in 1 .. Len(b) /\ ab[i] = b[i - Len(a)]
  BY <1>1, Joined
<1> HIDE DEF ab
<1>3. /\ Laid(abc) /\ Len(abc) = Len(ab) + Len(c)
      /\ \A i \in 1 .. Len(ab) : abc[i] = ab[i]
      /\ \A i \in 1 .. Len(c) : abc[Len(ab) + i] = c[i]
      /\ \A i \in 1 .. Len(abc) : \/ i \in 1 .. Len(ab) /\ abc[i] = ab[i]
                                  \/ i - Len(ab) \in 1 .. Len(c) /\ abc[i] = c[i - Len(ab)]
  BY <1>1, <1>2, Joined
<1> HIDE DEF abc
<1>4. /\ Laid(all) /\ Len(all) = Len(abc) + Len(d)
      /\ \A i \in 1 .. Len(abc) : all[i] = abc[i]
  BY <1>1, <1>3, Joined
<1> HIDE DEF all
<1>5. \A i \in 1 .. Len(abc) : all[i].level # 3
  <2>1. /\ \A i \in 1 .. Len(a) : a[i].level = 0
        /\ \A i \in 1 .. Len(b) : b[i].level = 1
        /\ \A i \in 1 .. Len(c) : c[i].level = 2
    BY DEF Level
  <2>2. \A i \in 1 .. Len(ab) : ab[i].level \in {0, 1}
    <3> SUFFICES ASSUME NEW i \in 1 .. Len(ab) PROVE ab[i].level \in {0, 1}
      OBVIOUS
    <3>1. CASE i \in 1 .. Len(a) /\ ab[i] = a[i]
      BY <2>1, <3>1
    <3>2. CASE i - Len(a) \in 1 .. Len(b) /\ ab[i] = b[i - Len(a)]
      BY <2>1, <3>2
    <3> QED BY <1>2, <3>1, <3>2
  <2>3. \A i \in 1 .. Len(abc) : abc[i].level \in {0, 1, 2}
    BY <1>3, <2>1, <2>2
  <2> QED BY <1>4, <2>3
<1>6. /\ Len(R) \in 0 .. Len(all) /\ DOMAIN R = 1 .. Len(R)
      /\ Len(all) > 0 => Len(R) > 0
      /\ \A i \in 1 .. Len(R) : R[i].level = all[i].level
      /\ \A i \in 1 .. Len(R) : \A j \in 1 .. i - 1 : R[j] = all[j]
      /\ MaxBody * Len(all) <= 4 * tokens =>
           \A i \in 1 .. Len(all) : i \in DOMAIN R /\ R[i] = all[i]
  BY <1>4, BudgetKeeps
<1>7. Fits(R, tokens)
  BY <1>4, BudgetFits
<1> HIDE DEF R
<1>8. Len(abc) \in Nat /\ Len(all) \in Nat /\ Len(abc) <= Len(all) /\ Len(all) \in 1 .. 4 * blocks
  BY <1>1, <1>2, <1>3, <1>4
<1>9. R # << >>
  BY <1>6, <1>8
<1>10. \A text : Shows(b, text) \/ Shows(c, text) => ShownFirst(all, Len(abc), text)
  <2> SUFFICES ASSUME NEW text, Shows(b, text) \/ Shows(c, text)
               PROVE  ShownFirst(all, Len(abc), text)
    OBVIOUS
  <2>1. CASE Shows(b, text)
    <3>1. PICK i \in 1 .. Len(b) :
            b[i].name = text.name /\ b[i].length = Least(text.length, MaxBody)
      BY <1>1, <2>1 DEF Shows, Laid
    <3>2. Len(a) + i \in 1 .. Len(ab) /\ Len(a) + i \in 1 .. Len(abc)
      BY <1>1, <1>2, <1>3
    <3>3. all[Len(a) + i] = b[i]
      BY <1>2, <1>3, <1>4, <3>2
    <3> QED BY <3>1, <3>2, <3>3 DEF ShownFirst
  <2>2. CASE Shows(c, text)
    <3>1. PICK i \in 1 .. Len(c) :
            c[i].name = text.name /\ c[i].length = Least(text.length, MaxBody)
      BY <1>1, <2>2 DEF Shows, Laid
    <3>2. Len(ab) + i \in 1 .. Len(abc)
      BY <1>1, <1>2, <1>3
    <3>3. all[Len(ab) + i] = c[i]
      BY <1>3, <1>4, <3>2
    <3> QED BY <3>1, <3>2, <3>3 DEF ShownFirst
  <2> QED BY <2>1, <2>2
<1>11. ASSUME (\E i \in DOMAIN R : R[i].level = 3) \/ tokens >= 280 * blocks
       PROVE  \A j \in 1 .. Len(abc) : j \in DOMAIN R /\ R[j] = all[j]
  <2>1. CASE tokens >= 280 * blocks
    <3>1. MaxBody * Len(all) <= 4 * tokens
      BY <1>8, <2>1 DEF MaxBody
    <3>2. \A j \in 1 .. Len(abc) : j \in 1 .. Len(all)
      BY <1>8
    <3> QED BY <1>6, <3>1, <3>2
  <2>2. CASE \E i \in DOMAIN R : R[i].level = 3
    <3>1. PICK i \in 1 .. Len(R) : R[i].level = 3
      BY <1>6, <2>2
    <3>2. i \in 1 .. Len(all) /\ all[i].level = 3
      BY <1>6, <1>8, <3>1
    <3>3. i \notin 1 .. Len(abc)
      BY <1>4, <1>5, <3>2
    <3>4. \A j \in 1 .. Len(abc) : j \in 1 .. i - 1 /\ j \in 1 .. Len(R)
      BY <1>6, <1>8, <3>1, <3>3
    <3> QED BY <1>6, <3>1, <3>4
  <2> QED BY <1>11, <2>1, <2>2
<1>12. ASSUME NEW text, ShownFirst(all, Len(abc), text),
              \A j \in 1 .. Len(abc) : j \in DOMAIN R /\ R[j] = all[j]
       PROVE  Shows(R, text)
  BY <1>12 DEF ShownFirst, Shows
<1> QED BY <1>9, <1>10, <1>11, <1>12, <1>7 DEF R, all, abc, ab

-----------------------------------------------------------------------------
(* What is listed in each level                                             *)

(* Texts listed with one score.                                             *)
LEMMA EachListed ==
  ASSUME NEW s, Len(s) \in Nat, DOMAIN s = 1 .. Len(s), NEW score \in Int,
         \A i \in 1 .. Len(s) : s[i].length \in Nat
  PROVE  /\ Entries(Each(s, score)) /\ Len(Each(s, score)) = Len(s)
         /\ \A i \in 1 .. Len(s) : Each(s, score)[i] = [text |-> s[i], score |-> score]
<1> DEFINE e == Each(s, score)
<1>1. e = [i \in 1 .. Len(s) |-> [text |-> s[i], score |-> score]]
  BY DEF Each
<1> HIDE DEF e
<1>2. Len(e) = Len(s) /\ DOMAIN e = 1 .. Len(s)
  BY <1>1
<1>3. \A i \in 1 .. Len(s) : e[i] = [text |-> s[i], score |-> score]
  BY <1>1
<1>4. Entries(e)
  BY <1>2, <1>3 DEF Entries
<1> QED BY <1>2, <1>3, <1>4 DEF e

(* One list after another.                                                  *)
LEMMA ListedAfter ==
  ASSUME NEW s, NEW t, Entries(s), Entries(t)
  PROVE  /\ Entries(s \o t) /\ Len(s \o t) = Len(s) + Len(t)
         /\ \A i \in 1 .. Len(s) : (s \o t)[i] = s[i]
         /\ \A i \in 1 .. Len(t) : (s \o t)[Len(s) + i] = t[i]
<1>1. Len(s) \in Nat /\ Len(t) \in Nat
  BY DEF Entries
<1> DEFINE st == s \o t
<1>2. Len(st) = Len(s) + Len(t) /\ DOMAIN st = 1 .. Len(s) + Len(t)
  BY <1>1
<1>3. \A i \in 1 .. Len(s) + Len(t) : st[i] = IF i <= Len(s) THEN s[i] ELSE t[i - Len(s)]
  BY <1>1
<1> HIDE DEF st
<1>4. \A i \in 1 .. Len(s) : st[i] = s[i]
  BY <1>1, <1>3
<1>5. ASSUME NEW i \in 1 .. Len(t) PROVE st[Len(s) + i] = t[i]
  <2>1. /\ Len(s) + i \in 1 .. Len(s) + Len(t) /\ ~(Len(s) + i <= Len(s))
        /\ Len(s) + i - Len(s) = i
    BY <1>1
  <2> QED BY <1>3, <2>1
<1>6. ASSUME NEW i \in 1 .. Len(st)
      PROVE  st[i].text.length \in Nat /\ st[i].score \in Int
  <2>1. i \in 1 .. Len(s) \/ (~(i <= Len(s)) /\ i - Len(s) \in 1 .. Len(t))
    BY <1>1, <1>2
  <2>2. CASE i \in 1 .. Len(s)
    BY <1>4, <2>2 DEF Entries
  <2>3. CASE ~(i <= Len(s)) /\ i - Len(s) \in 1 .. Len(t)
    <3>1. st[i] = t[i - Len(s)]
      BY <1>2, <1>3, <2>3
    <3> QED BY <2>3, <3>1 DEF Entries
  <2> QED BY <2>1, <2>2, <2>3
<1>7. Entries(st)
  BY <1>1, <1>2, <1>6 DEF Entries
<1> QED BY <1>2, <1>4, <1>5, <1>7 DEF st

(* The first of a list.                                                     *)
LEMMA FirstListed ==
  ASSUME NEW s, Len(s) \in Nat, DOMAIN s = 1 .. Len(s), NEW n \in Nat
  PROVE  /\ Len(First(n, s)) = Least(n, Len(s)) /\ Least(n, Len(s)) \in 0 .. Len(s)
         /\ DOMAIN First(n, s) = 1 .. Least(n, Len(s))
         /\ \A i \in 1 .. Least(n, Len(s)) : First(n, s)[i] = s[i]
<1>1. Least(n, Len(s)) \in 0 .. Len(s)
  BY DEF Least
<1> QED BY <1>1 DEF First

(* Title and description of the task, each once at most.                    *)
LEMMA CoreListed ==
  ASSUME NEW k \in Known, NEW statuses
  PROVE  Entries(TaskCoreEntries(Records(k, statuses)))
<1> DEFINE core == <<k.title, k.description>>
<1>1. k.title.length \in Nat /\ k.description.length \in Nat
  BY KnownAssumption
<1>2. /\ Len(core) = 2 /\ DOMAIN core = 1 .. 2
      /\ core[1] = k.title /\ core[2] = k.description
  OBVIOUS
<1> HIDE DEF core
<1>3. /\ Len(First(1, core)) = 1 /\ DOMAIN First(1, core) = 1 .. 1
      /\ First(1, core)[1] = k.title
  <2>1. Least(1, Len(core)) = 1
    BY <1>2 DEF Least
  <2>2. /\ Len(First(1, core)) = Least(1, Len(core))
        /\ DOMAIN First(1, core) = 1 .. Least(1, Len(core))
        /\ \A i \in 1 .. Least(1, Len(core)) : First(1, core)[i] = core[i]
    <3>1. Len(core) \in Nat /\ DOMAIN core = 1 .. Len(core) /\ 1 \in Nat
      BY <1>2
    <3> QED BY <3>1, FirstListed
  <2> QED BY <1>2, <2>1, <2>2
<1>4. Len(Tail(core)) = 1 /\ DOMAIN Tail(core) = 1 .. 1 /\ Tail(core)[1] = k.description
  <2>1. core \in Seq({k.title, k.description}) /\ core # << >>
    BY DEF core
  <2>2. /\ Tail(core) \in Seq({k.title, k.description})
        /\ Len(Tail(core)) = Len(core) - 1
        /\ \A i \in 1 .. Len(Tail(core)) : Tail(core)[i] = core[i + 1]
    BY <2>1, HeadTailProperties
  <2>3. Len(Tail(core)) = 1 /\ Tail(core)[1] = core[2]
    BY <1>2, <2>2
  <2>4. DOMAIN Tail(core) = 1 .. Len(Tail(core))
    BY <2>2, LenProperties
  <2> QED BY <1>2, <2>3, <2>4
<1>5. Entries(Each(First(1, core), 100)) /\ Entries(Each(Tail(core), 95))
  <2> DEFINE f == First(1, core)
             r == Tail(core)
  <2> HIDE DEF f, r
  <2>1. \A i \in 1 .. 1 : f[i].length \in Nat /\ r[i].length \in Nat
    BY <1>1, <1>3, <1>4 DEF f, r
  <2>2. Len(f) = 1 /\ DOMAIN f = 1 .. 1 /\ Len(r) = 1 /\ DOMAIN r = 1 .. 1
    BY <1>3, <1>4 DEF f, r
  <2>3. Entries(Each(f, 100)) /\ Entries(Each(r, 95))
    BY <2>1, <2>2, EachListed
  <2> QED BY <2>3 DEF f, r
<1>6. TaskCoreEntries(Records(k, statuses)) = Each(First(1, core), 100) \o Each(Tail(core), 95)
  BY DEF TaskCoreEntries, TaskCore, Records, core
<1> QED BY <1>5, <1>6, ListedAfter

(* What a recall returned, as far as it is asked for.                       *)
LEMMA MemoryListed ==
  ASSUME NEW k \in Known, NEW q \in Requests, NEW gated, NEW statuses
  PROVE  Entries(MemoryEntries(Records(k, statuses), AssemblyRequest(q, gated)))
<1> DEFINE n == Least(q.memory, Len(k.memory))
<1>1. q.memory \in Nat
  BY ContextAssumption DEF AssemblyLimits
<1>2. /\ Len(k.memory) \in Nat /\ DOMAIN k.memory = 1 .. Len(k.memory)
      /\ \A i \in 1 .. Len(k.memory) :
           k.memory[i].text.length \in Nat /\ k.memory[i].score \in Int
  BY KnownAssumption
<1>3. MemoryEntries(Records(k, statuses), AssemblyRequest(q, gated)) = First(q.memory, k.memory)
  BY DEF MemoryEntries, MemoryRecall, Records, AssemblyRequest
<1>4. /\ Len(First(q.memory, k.memory)) = n /\ n \in 0 .. Len(k.memory)
      /\ DOMAIN First(q.memory, k.memory) = 1 .. n
      /\ \A i \in 1 .. n : First(q.memory, k.memory)[i] = k.memory[i]
  BY <1>1, <1>2, FirstListed
<1> HIDE DEF n
<1>5. \A i \in 1 .. n : i \in 1 .. Len(k.memory)
  BY <1>2, <1>4
<1> QED BY <1>2, <1>3, <1>4, <1>5 DEF Entries

(* A summary always says something, and two that are named alike say the    *)
(* same.                                                                    *)
LEMMA AttemptsSay ==
  ASSUME NEW k \in Known, NEW s, NEW t
  PROVE  /\ AttemptText(k, s).length \in Nat \ {0}
         /\ AttemptText(k, s).name = AttemptText(k, t).name =>
              AttemptText(k, s) = AttemptText(k, t)
<1>1. k.reason \in Nat
  BY KnownAssumption
<1>2. <<"reason">> # <<"attempt", s>> /\ <<"reason">> # <<"attempt", t>>
  OBVIOUS
<1>3. AttemptText(k, s).length \in Nat \ {0}
  BY <1>1 DEF AttemptText, Say
<1>4. AttemptText(k, s).name = AttemptText(k, t).name =>
        AttemptText(k, s) = AttemptText(k, t)
  BY <1>2 DEF AttemptText, Say
<1> QED BY <1>3, <1>4

(* The newest attempts are shown, as many as are asked for and as a level   *)
(* has blocks: their scores are the same, so that they stay in order, and   *)
(* those left out repeat an earlier one.                                    *)
LEMMA AttemptsShown ==
  ASSUME NEW k \in Known, NEW q \in Requests, NEW gated, NEW statuses \in Statuses
  PROVE  LET e == AttemptEntries(Records(k, statuses), AssemblyRequest(q, gated)) IN
         /\ Entries(e)
         /\ \A i \in 1 .. Least(q.attempts, Least(q.blocks, Len(statuses))) :
              Shows(Blocks(2, RankEntries(e, q.blocks)), AttemptText(k, statuses[i]))
<1> DEFINE texts == [i \in DOMAIN statuses |-> AttemptText(k, statuses[i])]
           newest == First(q.attempts, texts)
           e == Each(newest, 60)
           n == Least(q.attempts, Len(statuses))
           shown == Blocks(2, RankEntries(e, q.blocks))
<1>1. AttemptEntries(Records(k, statuses), AssemblyRequest(q, gated)) = e
  BY DEF AttemptEntries, RecentAttempts, Records, AssemblyRequest
<1>2. q.attempts \in Nat \ {0} /\ q.blocks \in Nat \ {0}
  BY ContextAssumption DEF AssemblyLimits
<1>3. Len(statuses) \in Nat /\ DOMAIN statuses = 1 .. Len(statuses)
  <2>1. PICK m \in 0 .. MaxAttempts :
          statuses \in [1 .. m -> {"waiting_approval", "failed_retryable", "completed"}]
    BY DEF Statuses
  <2>2. m \in Nat /\ DOMAIN statuses = 1 .. m
    BY <2>1, FlowAssumption
  <2> QED BY <2>2
<1>4. /\ Len(texts) = Len(statuses) /\ DOMAIN texts = 1 .. Len(texts)
      /\ \A i \in 1 .. Len(statuses) : texts[i] = AttemptText(k, statuses[i])
  BY <1>3
<1> HIDE DEF texts
<1>5. /\ Len(newest) = n /\ n \in 0 .. Len(statuses) /\ DOMAIN newest = 1 .. n
      /\ \A i \in 1 .. n : newest[i] = texts[i]
  <2>1. Len(texts) \in Nat /\ DOMAIN texts = 1 .. Len(texts) /\ q.attempts \in Nat
    BY <1>2, <1>3, <1>4
  <2>2. /\ Len(newest) = Least(q.attempts, Len(texts))
        /\ Least(q.attempts, Len(texts)) \in 0 .. Len(texts)
        /\ DOMAIN newest = 1 .. Least(q.attempts, Len(texts))
        /\ \A i \in 1 .. Least(q.attempts, Len(texts)) : newest[i] = texts[i]
    BY <2>1, FirstListed
  <2> QED BY <1>4, <2>2
<1> HIDE DEF newest, n
<1>6. \A i \in 1 .. n : newest[i] = AttemptText(k, statuses[i]) /\ newest[i].length \in Nat \ {0}
  BY <1>3, <1>4, <1>5, AttemptsSay
<1>7. /\ Entries(e) /\ Len(e) = n
      /\ \A i \in 1 .. n : e[i] = [text |-> newest[i], score |-> 60]
  <2>1. /\ Len(newest) \in Nat /\ DOMAIN newest = 1 .. Len(newest) /\ 60 \in Int
        /\ \A i \in 1 .. Len(newest) : newest[i].length \in Nat
    BY <1>3, <1>5, <1>6
  <2> QED BY <1>5, <2>1, EachListed
<1> HIDE DEF e
<1>8. DOMAIN e = 1 .. n /\ n \in Nat
  BY <1>3, <1>5, <1>7 DEF Entries
<1>9. \A i \in 1 .. n : e[i].score = 60 /\ e[i].text = AttemptText(k, statuses[i])
  BY <1>6, <1>7
<1>10. ASSUME NEW i \in 1 .. n, i <= q.blocks PROVE Shows(shown, AttemptText(k, statuses[i]))
  <2> DEFINE alike == {m \in 1 .. n : e[m].text.name = e[i].text.name}
  <2>1. alike \subseteq Nat /\ i \in alike
    BY <1>8
  <2>2. PICK j \in alike : \A m \in alike : j <= m
    BY <2>1, LeastNumber, Zenon
  <2>3. j \in 1 .. n /\ j <= i /\ e[j].text.name = e[i].text.name
    BY <2>1, <2>2
  <2>4. e[j].text = AttemptText(k, statuses[i])
    BY <1>9, <2>3, AttemptsSay
  <2>5. \A m \in 1 .. j - 1 : m \in 1 .. n /\ m \notin alike
    BY <1>8, <2>2, <2>3
  <2>6. j \in Said(e)
    <3>1. e[j].text.length > 0
      BY <2>4, AttemptsSay
    <3>2. \A m \in 1 .. j - 1 : e[m].text.name # e[j].text.name
      BY <2>3, <2>5
    <3> QED BY <1>8, <2>3, <3>1, <3>2 DEF Said
  <2>7. Earlier(e, j) \subseteq 1 .. j - 1
    <3> SUFFICES ASSUME NEW m \in Earlier(e, j) PROVE m \in 1 .. j - 1
      OBVIOUS
    <3>1. m \in 1 .. n /\ Before(e, m, j)
      BY <1>7, SaidFinite DEF Earlier
    <3> QED BY <1>8, <1>9, <2>3, <3>1 DEF Before
  <2>8. Place(e, Said(e), j) <= q.blocks
    <3>1. j - 1 \in Nat /\ IsFiniteSet(1 .. j - 1)
      BY <1>8, <2>3, FS_Interval
    <3>2. Cardinality(1 .. j - 1) = IF 1 > j - 1 THEN 0 ELSE j - 1 - 1 + 1
      BY <1>8, <2>3, FS_Interval
    <3>3. Cardinality(1 .. j - 1) = j - 1
      BY <3>1, <3>2
    <3>4. Cardinality(Earlier(e, j)) <= j - 1
      BY <2>7, <3>1, <3>3, FS_Subset
    <3>5. Place(e, Said(e), j) = 1 + Cardinality(Earlier(e, j)) /\ Cardinality(Earlier(e, j)) \in Nat
      BY <1>7, SaidFinite
    <3> QED BY <1>2, <1>8, <1>10, <2>3, <3>4, <3>5
  <2>9. Shows(shown, e[j].text)
    BY <1>2, <1>7, <2>6, <2>8, LevelShows
  <2> QED BY <2>4, <2>9
<1>11. \A i \in 1 .. Least(q.attempts, Least(q.blocks, Len(statuses))) :
         i \in 1 .. n /\ i <= q.blocks
  BY <1>2, <1>3 DEF Least, n
<1> QED BY <1>1, <1>7, <1>10, <1>11

(* The constraints of a request: those that bind the attempt, two at most,  *)
(* and no two of them alike.                                                *)
LEMMA ConstraintsListed ==
  ASSUME NEW q \in Requests, NEW gated \in BOOLEAN
  PROVE  LET c == Constraints(AssemblyRequest(q, gated)) IN
         /\ Len(c) \in 0 .. 2 /\ DOMAIN c = 1 .. Len(c)
         /\ \A i \in 1 .. Len(c) : c[i] \in {WriteApproval, NoSecretBroker}
         /\ \A i, j \in 1 .. Len(c) : i # j => c[i] # c[j]
         /\ \A b \in Binding(q, gated) : \E i \in 1 .. Len(c) : c[i] = b
<1> DEFINE c == Constraints(AssemblyRequest(q, gated))
           first == IF gated THEN <<WriteApproval>> ELSE << >>
           second == IF q.broker THEN << >> ELSE <<NoSecretBroker>>
<1>1. q.broker \in BOOLEAN
  BY ContextAssumption DEF AssemblyLimits
<1>2. c = first \o second \o << >>
  BY DEF Constraints, AssemblyRequest
<1>3. Len(first) \in Nat /\ Len(second) \in Nat
  OBVIOUS
<1>4. c = first \o second
  BY <1>2, <1>3
<1>5. WriteApproval # NoSecretBroker
  BY DEF WriteApproval, NoSecretBroker, Say
<1> HIDE DEF c
<1>6. CASE gated /\ ~q.broker
  <2>1. c = <<WriteApproval, NoSecretBroker>>
    <3>1. ASSUME NEW x, NEW y PROVE <<x>> \o <<y>> = <<x, y>>
      <4> DEFINE xy == <<x>> \o <<y>>
                 T == {x, y}
      <4>1. <<x>> \in Seq(T) /\ <<y>> \in Seq(T) /\ <<x, y>> \in Seq(T)
        OBVIOUS
      <4>2. xy \in Seq(T)
        BY <4>1, ConcatProperties
      <4>3. Len(xy) = 2 /\ xy[1] = x /\ xy[2] = y
        OBVIOUS
      <4>4. Len(xy) = Len(<<x, y>>) /\ \A i \in 1 .. Len(xy) : xy[i] = <<x, y>>[i]
        <5> HIDE DEF xy
        <5> QED BY <4>3
      <4> HIDE DEF xy, T
      <4> QED BY <4>1, <4>2, <4>4, SeqEqual DEF xy
    <3>2. c = <<WriteApproval>> \o <<NoSecretBroker>>
      BY <1>4, <1>6
    <3> QED BY <3>1, <3>2, Zenon
  <2>2. Binding(q, gated) = {WriteApproval, NoSecretBroker}
    BY <1>6 DEF Binding
  <2> QED BY <1>5, <2>1, <2>2 DEF c
<1>7. CASE gated /\ q.broker
  <2>1. c = <<WriteApproval>>
    BY <1>4, <1>7
  <2>2. Binding(q, gated) = {WriteApproval}
    BY <1>7 DEF Binding
  <2> QED BY <2>1, <2>2 DEF c
<1>8. CASE ~gated /\ ~q.broker
  <2>1. c = <<NoSecretBroker>>
    BY <1>4, <1>8
  <2>2. Binding(q, gated) = {NoSecretBroker}
    BY <1>8 DEF Binding
  <2> QED BY <2>1, <2>2 DEF c
<1>9. CASE ~gated /\ q.broker
  <2>1. c = << >>
    BY <1>4, <1>9
  <2>2. Binding(q, gated) = {}
    BY <1>9 DEF Binding
  <2> QED BY <2>1, <2>2 DEF c
<1> QED BY <1>1, <1>6, <1>7, <1>8, <1>9

(* The summary of the workflow goes first in its level and the constraints  *)
(* right after it, before any fact: in a level with three places they are   *)
(* all shown.                                                               *)
LEMMA ConstraintsShown ==
  ASSUME NEW k \in Known, NEW q \in Requests, NEW gated \in BOOLEAN, NEW statuses
  PROVE  LET r == AssemblyRequest(q, gated)
             e == FactEntries(Records(k, statuses), r) \o SummaryEntries(Records(k, statuses))
                    \o SecurityEntries(r)
         IN /\ Entries(e) /\ Said(e) # {}
            /\ q.blocks >= 3 =>
                 \A b \in Binding(q, gated) : Shows(Blocks(1, RankEntries(e, q.blocks)), b)
<1> DEFINE r == AssemblyRequest(q, gated)
           known == Records(k, statuses)
           facts == ProjectFacts(known, r.facts)
           c == Constraints(r)
           f == FactEntries(known, r)
           s == SummaryEntries(known)
           g == SecurityEntries(r)
           fs == f \o s
           e == fs \o g
           n == Len(facts)
<1>1. /\ q.facts \in Nat /\ q.blocks \in Nat \ {0}
      /\ k.title.length \in Nat /\ Len(k.runs) \in Nat
      /\ \A i \in 1 .. Len(k.runs) : k.runs[i] \in Nat
  BY ContextAssumption, KnownAssumption DEF AssemblyLimits
<1>2. /\ n \in Nat /\ DOMAIN facts = 1 .. n
      /\ \A i \in 1 .. n : facts[i].name = <<"objective", i>> /\ facts[i].length \in Nat
  <2> DEFINE m == Least(q.facts, Len(k.runs))
  <2>1. facts = [i \in 1 .. m |-> Say(<<"objective", i>>, Least(k.runs[i], 500))]
    BY DEF ProjectFacts, Records, AssemblyRequest
  <2>2. m \in 0 .. Len(k.runs)
    BY <1>1 DEF Least
  <2> HIDE DEF m
  <2>3. Len(facts) = m /\ DOMAIN facts = 1 .. m
    BY <2>1, <2>2
  <2>4. \A i \in 1 .. m : facts[i] = Say(<<"objective", i>>, Least(k.runs[i], 500))
    BY <2>1
  <2>5. \A i \in 1 .. m : Least(k.runs[i], 500) \in Nat
    BY <1>1, <2>2 DEF Least
  <2>6. \A i \in 1 .. m : /\ facts[i].name = <<"objective", i>>
                          /\ facts[i].length = Least(k.runs[i], 500)
    <3> SUFFICES ASSUME NEW i \in 1 .. m
                 PROVE  /\ facts[i].name = <<"objective", i>>
                        /\ facts[i].length = Least(k.runs[i], 500)
      OBVIOUS
    <3>1. facts[i] = Say(<<"objective", i>>, Least(k.runs[i], 500))
      BY <2>4
    <3> HIDE DEF facts
    <3> QED BY <3>1 DEF Say
  <2>7. n = m
    BY <2>3
  <2> HIDE DEF facts, n
  <2> QED BY <2>2, <2>3, <2>5, <2>6, <2>7
<1>3. /\ Len(c) \in 0 .. 2 /\ DOMAIN c = 1 .. Len(c)
      /\ \A i \in 1 .. Len(c) : c[i] \in {WriteApproval, NoSecretBroker}
      /\ \A i, j \in 1 .. Len(c) : i # j => c[i] # c[j]
      /\ \A b \in Binding(q, gated) : \E i \in 1 .. Len(c) : c[i] = b
  BY ConstraintsListed
<1>4. /\ WriteApproval.name = <<"write_approval">> /\ WriteApproval.length = 41
      /\ NoSecretBroker.name = <<"secret_broker_disabled">> /\ NoSecretBroker.length = 61
  BY DEF WriteApproval, NoSecretBroker, Say
<1> HIDE DEF facts, c, n
<1>5. /\ Entries(f) /\ Len(f) = n
      /\ \A i \in 1 .. n : f[i] = [text |-> facts[i], score |-> 70]
  <2>1. f = Each(facts, 70)
    BY DEF FactEntries, facts
  <2>2. Len(facts) = n
    BY DEF n
  <2> HIDE DEF f
  <2> QED BY <1>2, <2>1, <2>2, EachListed
<1>6. /\ Entries(s) /\ Len(s) = 1
      /\ s[1].text.name = <<"summary">> /\ s[1].text.length \in Nat \ {0} /\ s[1].score = 80
  <2>1. s = <<[text |-> Say(<<"summary">>, 60 + k.title.length), score |-> 80]>>
    BY DEF SummaryEntries, WorkflowSummary, Records
  <2> HIDE DEF s
  <2>2. Len(s) = 1 /\ DOMAIN s = 1 .. 1
    BY <2>1
  <2>3. s[1].text.name = <<"summary">> /\ s[1].text.length = 60 + k.title.length /\ s[1].score = 80
    BY <2>1 DEF Say
  <2> QED BY <1>1, <2>2, <2>3 DEF Entries
<1>7. /\ Entries(g) /\ Len(g) = Len(c)
      /\ \A i \in 1 .. Len(c) : g[i] = [text |-> c[i], score |-> 75]
  <2>1. g = Each(c, 75)
    BY DEF SecurityEntries, c
  <2>2. Len(c) \in Nat /\ \A i \in 1 .. Len(c) : c[i].length \in Nat
    BY <1>3, <1>4
  <2> HIDE DEF g
  <2> QED BY <1>3, <2>1, <2>2, EachListed
<1> HIDE DEF f, s, g
<1>8. /\ Entries(fs) /\ Len(fs) = n + 1
      /\ \A i \in 1 .. n : fs[i] = f[i]
      /\ fs[n + 1] = s[1]
  <2>1. /\ Entries(fs) /\ Len(fs) = Len(f) + Len(s)
        /\ \A i \in 1 .. Len(f) : fs[i] = f[i]
        /\ \A i \in 1 .. Len(s) : fs[Len(f) + i] = s[i]
    <3>1. Entries(f) /\ Entries(s)
      BY <1>5, <1>6
    <3> QED BY <3>1, ListedAfter
  <2>2. 1 \in 1 .. Len(s)
    BY <1>6
  <2> HIDE DEF fs
  <2> QED BY <1>5, <1>6, <2>1, <2>2
<1> HIDE DEF fs
<1>9. /\ Entries(e) /\ Len(e) = n + 1 + Len(c)
      /\ \A i \in 1 .. n + 1 : e[i] = fs[i]
      /\ \A i \in 1 .. Len(c) : e[n + 1 + i] = g[i]
  BY <1>7, <1>8, ListedAfter
<1> HIDE DEF e
<1>10. \A i \in 1 .. n : e[i].score = 70 /\ e[i].text.name = <<"objective", i>>
  BY <1>2, <1>5, <1>8, <1>9
<1>11. e[n + 1].score = 80 /\ e[n + 1].text = s[1].text
  BY <1>2, <1>6, <1>8, <1>9
<1>12. \A i \in 1 .. Len(c) : e[n + 1 + i].score = 75 /\ e[n + 1 + i].text = c[i]
  <2> SUFFICES ASSUME NEW i \in 1 .. Len(c)
               PROVE  e[n + 1 + i].score = 75 /\ e[n + 1 + i].text = c[i]
    OBVIOUS
  <2>1. e[n + 1 + i] = g[i] /\ g[i] = [text |-> c[i], score |-> 75]
    BY <1>7, <1>9
  <2> QED BY <2>1
<1>13. DOMAIN e = 1 .. n + 1 + Len(c)
  BY <1>9 DEF Entries
<1>14. n + 1 \in Said(e)
  <2>1. \A i \in 1 .. n : e[i].text.name # e[n + 1].text.name
    BY <1>6, <1>10, <1>11
  <2>2. n + 1 \in DOMAIN e /\ n + 1 - 1 = n /\ e[n + 1].text.length > 0
    BY <1>2, <1>3, <1>6, <1>11, <1>13
  <2> DEFINE m == n + 1
  <2> HIDE DEF m
  <2>3. m \in DOMAIN e /\ e[m].text.length > 0
    BY <2>2 DEF m
  <2>4. \A i \in 1 .. m - 1 : e[i].text.name # e[m].text.name
    <3>1. m - 1 = n
      BY <1>2 DEF m
    <3> QED BY <2>1, <3>1 DEF m
  <2>5. m \in Said(e)
    BY <2>3, <2>4 DEF Said
  <2> QED BY <2>5 DEF m
<1>15. ASSUME NEW j \in 1 .. Len(c) PROVE n + 1 + j \in Said(e)
  <2>1. n + 1 + j \in DOMAIN e /\ e[n + 1 + j].text.length > 0
    BY <1>2, <1>3, <1>4, <1>12, <1>13
  <2>2. ASSUME NEW i \in 1 .. n + 1 + j - 1 PROVE e[i].text.name # e[n + 1 + j].text.name
    <3>1. e[n + 1 + j].text.name \in {<<"write_approval">>, <<"secret_broker_disabled">>}
      <4>1. e[n + 1 + j].text = c[j] /\ c[j] \in {WriteApproval, NoSecretBroker}
        BY <1>3, <1>12
      <4> QED BY <1>4, <4>1
    <3>2. CASE i \in 1 .. n
      BY <1>10, <3>1, <3>2
    <3>3. CASE i = n + 1
      BY <1>6, <1>11, <3>1, <3>3
    <3>4. CASE i > n + 1
      <4>1. /\ i - (n + 1) \in 1 .. Len(c) /\ i - (n + 1) # j
            /\ i = n + 1 + (i - (n + 1))
        BY <1>2, <1>3, <3>4
      <4>2. e[i].text = c[i - (n + 1)] /\ e[n + 1 + j].text = c[j]
        BY <1>12, <4>1
      <4>3. c[i - (n + 1)] # c[j]
        BY <1>3, <4>1
      <4> QED BY <1>3, <1>4, <4>1, <4>2, <4>3
    <3> QED BY <1>2, <3>2, <3>3, <3>4
  <2> DEFINE m == n + 1 + j
  <2> HIDE DEF m
  <2>3. m \in DOMAIN e /\ e[m].text.length > 0
    BY <2>1 DEF m
  <2>4. ASSUME NEW i \in 1 .. m - 1 PROVE e[i].text.name # e[m].text.name
    <3>1. i \in 1 .. n + 1 + j - 1
      BY <1>2, <1>3 DEF m
    <3> QED BY <2>2, <3>1 DEF m
  <2>5. m \in Said(e)
    BY <2>3, <2>4 DEF Said
  <2> QED BY <2>5 DEF m
<1>16. ASSUME NEW j \in 1 .. Len(c) PROVE Earlier(e, n + 1 + j) \subseteq n + 1 .. n + 2
  <2> SUFFICES ASSUME NEW i \in Earlier(e, n + 1 + j) PROVE i \in n + 1 .. n + 2
    OBVIOUS
  <2>1. i \in 1 .. n + 1 + Len(c) /\ Before(e, i, n + 1 + j)
    BY <1>9, SaidFinite DEF Earlier
  <2>2. i \notin 1 .. n
    <3> SUFFICES ASSUME i \in 1 .. n PROVE FALSE
      OBVIOUS
    <3>1. e[i].score = 70 /\ e[n + 1 + j].score = 75
      BY <1>10, <1>12
    <3> QED BY <2>1, <3>1 DEF Before
  <2>3. i <= n + 1 + Len(c) /\ Len(c) <= 2
    BY <1>3, <2>1
  <2>4. i # n + 3
    <3> SUFFICES ASSUME i = n + 3 PROVE FALSE
      OBVIOUS
    <3>1. 2 \in 1 .. Len(c) /\ i = n + 1 + 2 /\ j \in 1 .. 2
      BY <1>2, <1>3, <2>1
    <3>2. e[i].score = 75 /\ e[n + 1 + j].score = 75
      BY <1>12, <3>1
    <3>3. i < n + 1 + j
      BY <2>1, <3>2 DEF Before
    <3> QED BY <1>2, <3>1, <3>3
  <2> QED BY <1>2, <1>3, <2>1, <2>2, <2>3, <2>4
<1>17. ASSUME q.blocks >= 3, NEW b \in Binding(q, gated)
       PROVE  Shows(Blocks(1, RankEntries(e, q.blocks)), b)
  <2>1. PICK j \in 1 .. Len(c) : c[j] = b
    BY <1>3
  <2> DEFINE i == n + 1 + j
  <2>2. i \in Said(e) /\ e[i].text = b
    BY <1>12, <1>15, <2>1
  <2>3. Earlier(e, i) \subseteq n + 1 .. n + 2
    BY <1>16
  <2>4. IsFiniteSet(n + 1 .. n + 2) /\ Cardinality(n + 1 .. n + 2) = 2
    BY <1>2, FS_Interval
  <2> HIDE DEF i
  <2>5. Cardinality(Earlier(e, i)) <= 2 /\ Cardinality(Earlier(e, i)) \in Nat
    BY <1>9, <2>3, <2>4, FS_Subset, SaidFinite
  <2>6. Place(e, Said(e), i) <= q.blocks
    BY <1>1, <1>9, <1>17, <2>5, SaidFinite
  <2> QED BY <1>1, <1>9, <2>2, <2>6, LevelShows
<1> QED BY <1>9, <1>14, <1>17 DEF e, fs, f, s, g

-----------------------------------------------------------------------------
(* The context informs                                                      *)

(* Whatever the database holds, whichever limits a run sets and however the *)
(* attempts before it ended, the context tells the attempt what binds it    *)
(* and how they ended, as far as anything recalled is kept; and it fits.    *)
LEMMA ContextInforms ==
  ASSUME NEW k \in Known, NEW q \in Requests, NEW gated \in BOOLEAN, NEW statuses \in Statuses
  PROVE  /\ Informs(k, q, gated, statuses)
         /\ Fits(Assembled(k, q, gated, statuses), q.tokens)
<1> DEFINE r == AssemblyRequest(q, gated)
           known == Records(k, statuses)
           level(l, e) == Blocks(l, RankEntries(e, q.blocks))
           core == TaskCoreEntries(known)
           facts == FactEntries(known, r) \o SummaryEntries(known) \o SecurityEntries(r)
           attempts == AttemptEntries(known, r)
           memory == MemoryEntries(known, r)
           a == level(0, core)
           b == level(1, facts)
           c == level(2, attempts)
           d == level(3, memory)
           R == ApplyTokenBudget(a \o b \o c \o d, q.tokens)
           listed(i) == AttemptText(k, statuses[i])
           recent == 1 .. Least(q.attempts, Least(q.blocks, Len(statuses)))
<1>1. q.blocks \in Nat \ {0} /\ q.tokens \in Nat \ {0} /\ q.attempts \in Nat \ {0}
  BY ContextAssumption DEF AssemblyLimits
<1>2. Assembled(k, q, gated, statuses) = R
  BY DEF Assembled, BuildFromRecords, AssemblyRequest
<1>3. Entries(core) /\ Entries(memory)
  BY CoreListed, MemoryListed
<1>4. /\ Entries(facts) /\ Said(facts) # {}
      /\ q.blocks >= 3 => \A n \in Binding(q, gated) : Shows(b, n)
  BY ConstraintsShown
<1>5. /\ Entries(attempts)
      /\ \A i \in recent : Shows(c, listed(i))
  BY AttemptsShown
<1> HIDE DEF core, facts, attempts, memory
<1>6. /\ Level(a, 0, q.blocks) /\ Level(b, 1, q.blocks)
      /\ Level(c, 2, q.blocks) /\ Level(d, 3, q.blocks) /\ Len(b) > 0
  BY <1>1, <1>3, <1>4, <1>5, LevelShows
<1> HIDE DEF a, b, c, d
<1>7. /\ R # << >> /\ Fits(R, q.tokens)
      /\ \A text : Shows(b, text) \/ Shows(c, text) =>
           /\ (\E i \in DOMAIN R : R[i].level = 3) => Shows(R, text)
           /\ q.tokens >= 280 * q.blocks => Shows(R, text)
  BY <1>1, <1>6, ContextKeeps
<1> HIDE DEF R
<1>8. ASSUME (\E i \in DOMAIN R : R[i].level = 3) \/ q.tokens >= 280 * q.blocks
      PROVE  /\ q.blocks >= 3 => \A n \in Binding(q, gated) : Shows(R, n)
             /\ \A i \in recent : Shows(R, listed(i))
  BY <1>4, <1>5, <1>7, <1>8
<1>9. statuses # << >> => 1 \in recent
  <2>1. PICK m \in 0 .. MaxAttempts :
          statuses \in [1 .. m -> {"waiting_approval", "failed_retryable", "completed"}]
    BY DEF Statuses
  <2>2. m \in Nat /\ Len(statuses) = m
    BY <2>1, FlowAssumption
  <2>3. m = 0 => statuses = << >>
    BY <2>1
  <2> QED BY <1>1, <2>2, <2>3 DEF Least
<1> HIDE DEF listed, recent
<1>10. /\ R # << >>
       /\ (\E i \in DOMAIN R : R[i].level = 3) =>
            /\ q.blocks >= 3 => \A n \in Binding(q, gated) : Shows(R, n)
            /\ statuses # << >> => Shows(R, listed(1))
       /\ q.tokens >= 280 * q.blocks =>
            /\ q.blocks >= 3 => \A n \in Binding(q, gated) : Shows(R, n)
            /\ \A i \in recent : Shows(R, listed(i))
  BY <1>7, <1>8, <1>9
<1>11. Informs(k, q, gated, statuses)
  BY <1>2, <1>10, Zenon DEF Informs, listed, recent
<1> QED BY <1>2, <1>7, <1>11

(* An attempt that is dispatched for the first time is told how every       *)
(* attempt before it ended and which constraints bind it                    *)
(* (TaskContext!AttemptInformed), for every policy, database and limit, and *)
(* whatever fails: assemble_context_activity finds one summary of each      *)
(* attempt before, and what is cut is never a constraint or the attempt     *)
(* just before while anything recalled stays.                               *)
THEOREM AttemptsAreInformed == Spec => []AttemptInformed
<1>1. ASSUME IInv, EarlierSummed PROVE AttemptInformed
  <2> SUFFICES ASSUME wf = "dispatch", ~Granted
               PROVE  /\ Len(ListAttempts) = cur - 1
                      /\ <<policy.gated, ListAttempts, TRUE>> \in Informed
    BY DEF AttemptInformed
  <2>1. Len(ListAttempts) = cur - 1 /\ ListAttempts \in Statuses
    BY <1>1, AttemptsListed DEF Starting
  <2>2. policy.gated \in BOOLEAN
    BY <1>1, FlowAssumption DEF IInv, TypeOK, Policy
  <2> DEFINE P(g, s) == \A k \in Known, q \in Requests : Informs(k, q, g, s)
  <2>3. P(policy.gated, ListAttempts) = TRUE
    BY <2>1, <2>2, ContextInforms, Zenon
  <2> HIDE DEF P
  <2>4. \A g \in BOOLEAN, s \in Statuses : <<g, s, P(g, s)>> \in Informed
    BY DEF Informed, P
  <2>5. <<policy.gated, ListAttempts, P(policy.gated, ListAttempts)>> \in Informed
    BY <2>1, <2>2, <2>4, Zenon
  <2> QED BY <2>1, <2>3, <2>5, Zenon
<1> QED BY <1>1, SummedInvariance, PTL

(* A context never exceeds its budget, which is what _apply_token_budget is *)
(* for: its blocks add up to four characters a token at most, whatever the  *)
(* database holds and whichever limits the run sets.                        *)
THEOREM ContextsFitTheBudget ==
  \A k \in Known, q \in Requests, gated \in BOOLEAN, statuses \in Statuses :
    Fits(Assembled(k, q, gated, statuses), q.tokens)
BY ContextInforms
=============================================================================
