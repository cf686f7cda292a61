------------------------------- MODULE Lease --------------------------------
(***************************************************************************)
(* What the claim table promises: a one-shot lease.  A resource (a task) is *)
(* held under at most one ticket (an attempt) at a time; a ticket is used   *)
(* once, and a lease that ended, by release or by reclaim, is never held    *)
(* again.  Ending is the only step that may touch several leases at once:   *)
(* a run that closes ends all it holds.                                     *)
(***************************************************************************)
CONSTANTS Resource, Ticket

VARIABLE lease

Slot == Resource \X Ticket

Free(r) == \A s \in Slot : s[1] = r => lease[s] # "held"

LeaseInit == lease = [s \in Slot |-> "unused"]

Acquire(s) ==
  /\ lease[s] = "unused"
  /\ Free(s[1])
  /\ lease' = [lease EXCEPT ![s] = "held"]

End(S) ==
  /\ \A s \in S : lease[s] = "held"
  /\ lease' = [s \in Slot |-> IF s \in S THEN "ended" ELSE lease[s]]

LeaseNext ==
  \/ \E s \in Slot : Acquire(s)
  \/ \E S \in SUBSET Slot : End(S)

LeaseSpec == LeaseInit /\ [][LeaseNext]_lease
=============================================================================
