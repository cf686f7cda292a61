---------------------------- MODULE Notifications ----------------------------
(***************************************************************************)
(* The completion notification of a run (notifications/service.py and the   *)
(* activity that calls it).  One execution of the activity goes through the *)
(* adapters; an adapter that raises is tried again, then a receipt that     *)
(* reads failed stands in for it; every receipt is recorded, and a recorder *)
(* that fails is ignored.  An adapter may raise after its message was       *)
(* accepted, and the 5 s of the activity are less than the 30 s an adapter  *)
(* may take: an execution that was cut is repeated from its beginning.      *)
(* Meanwhile people write over the rows whatever status they like.          *)
(***************************************************************************)
EXTENDS Naturals, Sequences, SequencesExt

CONSTANTS
  Adapters,     \* the adapters, in their order
  MaxSends,     \* max_attempts
  MaxCuts,      \* bound: executions that are cut
  MaxUpdated    \* bound: rows written over

Channels == ToSet(Adapters)

ASSUME NotificationsAssumption ==
  /\ MaxSends \in Nat \ {0} /\ MaxCuts \in Nat /\ MaxUpdated \in Nat
  /\ Adapters \in Seq(Channels) /\ Len(Adapters) > 0

VARIABLES
  place,       \* where the notification is
  tries,       \* sends of the current adapter that raised
  receipts,    \* receipts of this execution
  accepted,    \* messages each adapter's provider accepted
  deliveries,  \* how many rows of notification_deliveries read so
  cuts

noteVars == <<place, tries, receipts, accepted, deliveries, cuts>>

(* A status is any text: "failed" stands for every one that is not "sent".  *)
(* A row that was written over carries delivery_updated_at.                 *)
RowStatus == {"sent", "failed"}
DeliveryRow == Channels \X RowStatus \X BOOLEAN
Recording(receipt) == <<receipt[1], receipt[2], FALSE>>
(* notification_store and the runtime adapter keep messages in memory.      *)
InProcess == {"runtime"}

NoteInit ==
  /\ place = "none" /\ tries = 0 /\ receipts = << >>
  /\ cuts = 0
  /\ accepted = [c \in Channels |-> 0]
  /\ deliveries = [r \in DeliveryRow |-> 0]

Channel == Adapters[Len(receipts) + 1]
Receipt(status) == <<Channel, status>>

(* The provider takes the message, and the adapter has its answer.          *)
Accepted == accepted' = [accepted EXCEPT ![Channel] = @ + 1]

(* The bridge process timed out or said nothing readable: its message may   *)
(* have been taken all the same.                                            *)
AcceptedOrNot == Accepted \/ UNCHANGED accepted

StartSending ==
  /\ place = "none" /\ place' = "send"
  /\ UNCHANGED <<tries, receipts, accepted, deliveries, cuts>>

SendSucceeds ==
  /\ place = "send" /\ place' = "recordSent"
  /\ Accepted
  /\ UNCHANGED <<tries, receipts, deliveries, cuts>>

(* Mutant of SendRaises: the last attempt is not counted as a failure.      *)
SendRaisesUncounted ==
  /\ place = "send"
  /\ Channel \notin InProcess
  /\ AcceptedOrNot
  /\ IF tries + 1 < MaxSends THEN tries' = tries + 1 /\ UNCHANGED place
     ELSE UNCHANGED tries /\ place' = "recordSent"
  /\ UNCHANGED <<receipts, deliveries, cuts>>

SendRaises ==
  /\ place = "send"
  /\ Channel \notin InProcess
  /\ AcceptedOrNot
  /\ IF tries + 1 < MaxSends THEN tries' = tries + 1 /\ UNCHANGED place
     ELSE UNCHANGED tries /\ place' = "recordFailed"
  /\ UNCHANGED <<receipts, deliveries, cuts>>

(* record_delivery inserts a row, or raises and nobody hears of it.         *)
Recorded(receipt) ==
  deliveries' \in {deliveries, [deliveries EXCEPT ![Recording(receipt)] = @ + 1]}

Record ==
  /\ place \in {"recordSent", "recordFailed"}
  /\ LET r == Receipt(IF place = "recordSent" THEN "sent" ELSE "failed") IN
       /\ receipts' = Append(receipts, r)
       /\ Recorded(r)
  /\ tries' = 0
  /\ place' = IF Len(receipts') = Len(Adapters) THEN "answer" ELSE "send"
  /\ UNCHANGED <<accepted, cuts>>

(* The workflow has the receipts and emits NOTIFICATION_SENT with them.     *)
Announce ==
  /\ place = "answer" /\ place' = "announced"
  /\ UNCHANGED <<tries, receipts, accepted, deliveries, cuts>>

CutSending ==
  /\ place \in {"send", "recordSent", "recordFailed", "answer"}
  /\ cuts < MaxCuts
  /\ cuts' = cuts + 1
  /\ place' = "send" /\ tries' = 0 /\ receipts' = << >>
  /\ UNCHANGED <<accepted, deliveries>>

(* update_delivery_status: any status over any row, which is not read.      *)
UpdateDelivery ==
  /\ \E r \in DeliveryRow, status \in RowStatus :
       /\ deliveries[r] > 0
       /\ r[3] \/ SumFunctionOnSet(deliveries, {q \in DeliveryRow : q[3]}) < MaxUpdated
       /\ LET others == [deliveries EXCEPT ![r] = @ - 1]
          IN deliveries' = [others EXCEPT ![<<r[1], status, TRUE>>] = @ + 1]
  /\ UNCHANGED <<place, tries, receipts, accepted, cuts>>

NoteStep ==
  \/ SendSucceeds \/ SendRaises \/ Record \/ Announce \/ CutSending
  \/ UpdateDelivery

-----------------------------------------------------------------------------

(* What is announced of the notification is true: one receipt per adapter,  *)
(* although one before it failed, and no adapter is said to have sent what  *)
(* its provider never accepted; nor do the rows that nobody has written     *)
(* over show more messages as sent than were accepted, through every        *)
(* repetition.  (A row somebody has written over says what he wrote.)       *)
AnnouncedTruthfully ==
  /\ place = "announced" =>
       /\ [i \in DOMAIN receipts |-> receipts[i][1]] = Adapters
       /\ \A i \in DOMAIN receipts :
            receipts[i][2] = "sent" => accepted[receipts[i][1]] > 0
  /\ \A c \in Channels : deliveries[Recording(<<c, "sent">>)] <= accepted[c]
=============================================================================
