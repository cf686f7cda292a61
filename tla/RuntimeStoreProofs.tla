------------------------- MODULE RuntimeStoreProofs -------------------------
(***************************************************************************)
(* What the tables guarantee to any set of callers, for every set of tasks  *)
(* and every number of attempts: type correctness, one holder per task, and *)
(* the one-shot lease.                                                      *)
(***************************************************************************)
EXTENDS RuntimeStore, TLAPS

(* Every operation keeps the rows within their enumerations.                *)
LEMMA StoreStepTypes ==
  ASSUME StoreTypeOK, [StoreNext]_storeVars
  PROVE  StoreTypeOK'
<1> USE DEF StoreTypeOK, Active, RunStatus, TaskStatus, ClaimStatus
<1>1. ASSUME NEW status \in RunStatus, WriteRun(status) PROVE StoreTypeOK'
  BY <1>1 DEF WriteRun, Finalize, ClosedAs, TerminalRun
<1>2. CASE Reconcile
  BY <1>2 DEF Reconcile, Finalize, ClosedAs
<1>3. ASSUME NEW a \in Attempt, NEW status \in TaskStatus, TransitionTask(a, status)
      PROVE  StoreTypeOK'
  BY <1>3 DEF TransitionTask
<1>4. ASSUME NEW a \in Attempt, NEW status \in TaskStatus, TaskEvent(a, status)
      PROVE  StoreTypeOK'
  BY <1>4 DEF TaskEvent
<1>5. ASSUME NEW a \in Attempt, TouchAttempt(a) PROVE StoreTypeOK'
  BY <1>5 DEF TouchAttempt
<1>6. ASSUME NEW a \in Attempt, ClaimTask(a) PROVE StoreTypeOK'
  BY <1>6 DEF ClaimTask
<1>7. ASSUME NEW a \in Attempt, Heartbeat(a) PROVE StoreTypeOK'
  BY <1>7 DEF Heartbeat
<1>8. ASSUME NEW a \in Attempt, Release(a) PROVE StoreTypeOK'
  BY <1>8 DEF Release
<1>9. ASSUME NEW a \in Attempt, Lapse(a) PROVE StoreTypeOK'
  BY <1>9 DEF Lapse
<1>10. ASSUME NEW forced \in SUBSET Attempt, ReclaimStale(forced) PROVE StoreTypeOK'
  BY <1>10 DEF ReclaimStale, Reclaimable
<1>11. CASE UNCHANGED storeVars
  BY <1>11 DEF storeVars
<1> QED
  BY <1>1, <1>2, <1>3, <1>4, <1>5, <1>6, <1>7, <1>8, <1>9, <1>10, <1>11
     DEF StoreNext

(* The rows of the tables always hold statuses of their enumerations, and   *)
(* only active claims can be stale, whatever operations of                  *)
(* RuntimePersistenceService are called.                                    *)
THEOREM StoreTypes == StoreSpec => []StoreTypeOK
<1>1. StoreInit => StoreTypeOK
  BY DEF StoreInit, StoreTypeOK, Active, RunStatus, TaskStatus, ClaimStatus
<1> QED BY <1>1, StoreStepTypes, PTL DEF StoreSpec

-----------------------------------------------------------------------------

(* OneHolderPerTask needs no strengthening: the only operation that makes a *)
(* claim active is claim_task, which looks first.                           *)
THEOREM StoreOneHolder == StoreSpec => []OneHolderPerTask
<1> USE DEF OneHolderPerTask, Active, StoreTypeOK
<1>1. StoreInit => OneHolderPerTask
  BY DEF StoreInit
<1>2. StoreTypeOK /\ OneHolderPerTask /\ [StoreNext]_storeVars => OneHolderPerTask'
  <2> SUFFICES ASSUME StoreTypeOK, OneHolderPerTask, [StoreNext]_storeVars
               PROVE  OneHolderPerTask'
    OBVIOUS
  <2>1. ASSUME NEW a \in Attempt, ClaimTask(a) PROVE OneHolderPerTask'
    BY <2>1 DEF ClaimTask
  <2>2. ASSUME Active' \subseteq Active PROVE OneHolderPerTask'
    BY <2>2
  <2>3. ASSUME NEW status \in RunStatus, WriteRun(status) PROVE Active' \subseteq Active
    BY <2>3 DEF WriteRun, Finalize
  <2>4. CASE Reconcile
    BY <2>4, <2>2 DEF Reconcile, Finalize
  <2>5. ASSUME NEW a \in Attempt,
               \/ \E status \in TaskStatus : TransitionTask(a, status) \/ TaskEvent(a, status)
               \/ TouchAttempt(a) \/ Heartbeat(a) \/ Release(a) \/ Lapse(a)
        PROVE  Active' \subseteq Active
    BY <2>5 DEF TransitionTask, TaskEvent, TouchAttempt, Heartbeat, Release, Lapse
  <2>6. ASSUME NEW forced \in SUBSET Attempt, ReclaimStale(forced)
        PROVE  Active' \subseteq Active
    BY <2>6 DEF ReclaimStale, Reclaimable
  <2>7. CASE UNCHANGED storeVars
    BY <2>7 DEF storeVars
  <2> QED
    BY <2>1, <2>2, <2>3, <2>4, <2>5, <2>6, <2>7 DEF StoreNext
<1> QED BY <1>1, <1>2, StoreTypes, PTL DEF StoreSpec

-----------------------------------------------------------------------------

(* An operation that neither makes nor revives a claim ends some leases.    *)
LEMMA EndingEndsLeases ==
  ASSUME StoreTypeOK, StoreTypeOK',
         \A a \in Attempt :
           \/ claim'[a] = claim[a]
           \/ claim[a] # "none" /\ claim'[a] \in {"released", "reclaimed"}
  PROVE  \E S \in SUBSET Attempt :
           /\ \A a \in S : LeaseOf[a] = "held"
           /\ LeaseOf' = [a \in Attempt |-> IF a \in S THEN "ended" ELSE LeaseOf[a]]
<1> DEFINE S == Active \ Active'
<1>1. S \in SUBSET Attempt /\ \A a \in S : LeaseOf[a] = "held"
  BY DEF Active, LeaseOf
<1>2. ASSUME NEW a \in Attempt
      PROVE  LeaseOf'[a] = IF a \in S THEN "ended" ELSE LeaseOf[a]
  BY DEF Active, LeaseOf, StoreTypeOK, ClaimStatus
<1>3. LeaseOf' = [a \in Attempt |-> IF a \in S THEN "ended" ELSE LeaseOf[a]]
  BY <1>2 DEF LeaseOf
<1> QED BY <1>1, <1>3

(* claim_task acquires an unused lease of a task nobody holds, or returns   *)
(* an old claim and changes nothing.                                        *)
LEMMA ClaimingAcquires ==
  ASSUME StoreTypeOK, NEW a \in Attempt, ClaimTask(a)
  PROVE  \/ LeaseOf' = LeaseOf
         \/ /\ LeaseOf[a] = "unused"
            /\ \A b \in Attempt : b[1] = a[1] => LeaseOf[b] # "held"
            /\ LeaseOf' = [LeaseOf EXCEPT ![a] = "held"]
<1> USE DEF LeaseOf, Active, StoreTypeOK
<1>1. CASE claim[a] # "none"
  BY <1>1 DEF ClaimTask
<1>2. CASE claim[a] = "none"
  <2>1. claim' = [claim EXCEPT ![a] = "active"]
    BY <1>2 DEF ClaimTask
  <2>2. \A b \in Attempt : b[1] = a[1] => LeaseOf[b] # "held"
    BY DEF ClaimTask
  <2>3. LeaseOf' = [LeaseOf EXCEPT ![a] = "held"]
    BY <2>1
  <2> QED BY <1>2, <2>2, <2>3
<1> QED BY <1>1, <1>2

(* The claim table implements Lease: whatever callers do, in any order, a   *)
(* task is held under one attempt at a time and a claim that ended, by      *)
(* release, reclaim or the closing of the run, is never active again.       *)
THEOREM StoreImplementsLease == StoreSpec => ClaimsAreLeases
<1>1. StoreInit => Leased!LeaseInit
  BY DEF StoreInit, Leased!LeaseInit, Leased!Slot, Attempt, LeaseOf
<1>2. StoreTypeOK /\ StoreTypeOK' /\ [StoreNext]_storeVars
        => [Leased!LeaseNext]_LeaseOf
  <2> SUFFICES ASSUME StoreTypeOK, StoreTypeOK', [StoreNext]_storeVars
               PROVE  Leased!LeaseNext \/ LeaseOf' = LeaseOf
    OBVIOUS
  <2> DEFINE Ending == \A a \in Attempt :
               \/ claim'[a] = claim[a]
               \/ claim[a] # "none" /\ claim'[a] \in {"released", "reclaimed"}
  <2>1. ASSUME Ending PROVE Leased!LeaseNext
    <3>1. PICK S \in SUBSET Attempt :
            /\ \A a \in S : LeaseOf[a] = "held"
            /\ LeaseOf' = [a \in Attempt |-> IF a \in S THEN "ended" ELSE LeaseOf[a]]
      BY <2>1, EndingEndsLeases
    <3> QED BY <3>1 DEF Leased!LeaseNext, Leased!End, Leased!Slot, Attempt
  <2>2. ASSUME NEW a \in Attempt, ClaimTask(a)
        PROVE  Leased!LeaseNext \/ LeaseOf' = LeaseOf
    BY <2>2, ClaimingAcquires
       DEF Leased!LeaseNext, Leased!Acquire, Leased!Free, Leased!Slot, Attempt
  <2> USE DEF StoreTypeOK, Active
  <2>3. ASSUME NEW status \in RunStatus, WriteRun(status) PROVE Ending
    BY <2>3 DEF WriteRun, Finalize
  <2>4. ASSUME Reconcile PROVE Ending
    BY <2>4 DEF Reconcile, Finalize
  <2>5. ASSUME NEW a \in Attempt,
               \/ \E status \in TaskStatus : TransitionTask(a, status) \/ TaskEvent(a, status)
               \/ TouchAttempt(a) \/ Heartbeat(a) \/ Lapse(a)
        PROVE  Ending
    BY <2>5 DEF TransitionTask, TaskEvent, TouchAttempt, Heartbeat, Lapse
  <2>6. ASSUME NEW a \in Attempt, Release(a) PROVE Ending
    BY <2>6 DEF Release
  <2>7. ASSUME NEW forced \in SUBSET Attempt, ReclaimStale(forced) PROVE Ending
    BY <2>7 DEF ReclaimStale, Reclaimable
  <2>8. CASE UNCHANGED storeVars
    BY <2>8 DEF storeVars, LeaseOf
  <2> QED
    BY <2>1, <2>2, <2>3, <2>4, <2>5, <2>6, <2>7, <2>8 DEF StoreNext
<1> QED BY <1>1, <1>2, StoreTypes, PTL DEF StoreSpec, ClaimsAreLeases, Leased!LeaseSpec
=============================================================================
