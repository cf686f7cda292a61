-------------------------- MODULE ReadModelsProofs --------------------------
(***************************************************************************)
(* ReadModels: the graph executions of an attempt, the notification of a    *)
(* run, and what the task graph shows of its tasks.  For every set of       *)
(* tasks, every list of adapters and every number of repetitions.           *)
(***************************************************************************)
EXTENDS ReadModels, WorkflowRunProofs, SequenceTheorems, WellFoundedInduction

-----------------------------------------------------------------------------
(* The graph execution of an attempt                                        *)

Snapshots == [log : Seq({"prepare", "finalize"}), next : {"prepare", "finalize", "end"}]
CheckpointRows == [snapshot : Nat, resumed : BOOLEAN]

GraphTypes ==
  /\ gpc \in GraphPc
  /\ thread \in Seq(Snapshots)
  /\ head \in Nat
  /\ checkpoints \in Seq(CheckpointRows)
  /\ held \in 0 .. Len(checkpoints)

Entered == [log |-> << >>, next |-> "prepare"]
Prepared == [log |-> <<"prepare">>, next |-> "finalize"]
Finalized == [log |-> <<"prepare", "finalize">>, next |-> "end"]

(* The execution goes on from a snapshot of its own thread.                 *)
At(snapshot) == head \in DOMAIN thread /\ thread[head] = snapshot

(* An execution that is about to answer has finalized, or it has stored the *)
(* row it answers with.                                                     *)
Answerable ==
  \/ At(Finalized)
  \/ /\ At(Prepared) /\ held = 0
     /\ Len(checkpoints) > 0 /\ checkpoints[Len(checkpoints)].snapshot = head

(* What the thread reads where the execution is.  Once the workflow holds a *)
(* checkpoint nothing starts from the input again, so what is left of the   *)
(* thread under the snapshot of that checkpoint is still what it was.       *)
GraphAtItsPlace ==
  /\ gpc = "prepare" => At(Entered)
  /\ gpc \in {"finalize", "save"} => At(Prepared)
  /\ gpc = "answer" => Answerable
  /\ gpc \in {"interrupted", "mark", "resume"} => held # 0
  /\ held # 0 => gpc \notin {"none", "prepare", "save"}
  /\ held # 0 /\ gpc = "finalize" => Located
  /\ held # 0 /\ Located => thread[checkpoints[held].snapshot] = Prepared

GraphInv == GraphTypes /\ GraphAtItsPlace /\ GraphRunsOnce

(* A snapshot is added at the end of the thread and is the head of it.      *)
LEMMA SnapshotIsHead ==
  ASSUME thread \in Seq(Snapshots), NEW log_, NEW next,
         [log |-> log_, next |-> next] \in Snapshots, Snapshot(log_, next)
  PROVE  /\ thread' \in Seq(Snapshots) /\ head' \in Nat
         /\ head' \in DOMAIN thread' /\ thread'[head'] = [log |-> log_, next |-> next]
         /\ \A i \in DOMAIN thread : i \in DOMAIN thread' /\ thread'[i] = thread[i]
         /\ \A i \in DOMAIN thread' : i \in DOMAIN thread \/ i = head'
<1>1. Len(thread) \in Nat /\ DOMAIN thread = 1 .. Len(thread)
  OBVIOUS
<1>2. thread' \in Seq(Snapshots) /\ Len(thread') = Len(thread) + 1
  BY DEF Snapshot
<1>3. DOMAIN thread' = 1 .. Len(thread) + 1
  BY <1>2
<1>4. /\ thread'[Len(thread) + 1] = [log |-> log_, next |-> next]
      /\ \A i \in 1 .. Len(thread) : thread'[i] = thread[i]
  BY <1>1 DEF Snapshot
<1> QED BY <1>1, <1>2, <1>3, <1>4 DEF Snapshot

(* Every step of a graph execution keeps its place.                         *)
LEMMA GraphKeepsPlace ==
  ASSUME GraphInv, GraphStep
  PROVE  GraphInv'
<1> USE DEF GraphInv
<1>a. /\ thread \in Seq(Snapshots) /\ Len(thread) \in Nat /\ DOMAIN thread = 1 .. Len(thread)
      /\ checkpoints \in Seq(CheckpointRows) /\ Len(checkpoints) \in Nat
      /\ DOMAIN checkpoints = 1 .. Len(checkpoints)
      /\ held \in 0 .. Len(checkpoints) /\ head \in Nat
  BY DEF GraphTypes
<1>1. CASE Invoke
  <2>1. [log |-> << >>, next |-> "prepare"] \in Snapshots
    BY DEF Snapshots
  <2>2. thread' \in Seq(Snapshots) /\ head' \in Nat /\ At(Entered)'
    BY <1>1, <1>a, <2>1, SnapshotIsHead DEF Invoke, At, Entered
  <2> QED
    BY <1>1, <1>a, <2>2 DEF Invoke, Walk, GraphTypes, GraphPc, GraphAtItsPlace, GraphRunsOnce
<1>2. CASE PrepareNode
  <2>1. thread[head].log = << >> /\ held = 0
    BY <1>2 DEF PrepareNode, Walk, GraphAtItsPlace, At, Entered
  <2>2. Append(thread[head].log, "prepare") = <<"prepare">>
    BY <2>1
  <2>3. [log |-> <<"prepare">>, next |-> "finalize"] \in Snapshots
    BY DEF Snapshots
  <2>4. Snapshot(<<"prepare">>, "finalize")
    BY <1>2, <2>2 DEF PrepareNode
  <2>5. thread' \in Seq(Snapshots) /\ head' \in Nat /\ At(Prepared)'
    BY <1>a, <2>3, <2>4, SnapshotIsHead DEF At, Prepared
  <2>6. /\ gpc' \in {"save", "finalize"}
        /\ UNCHANGED <<checkpoints, held, steps>>
    BY <1>2 DEF PrepareNode, Walk
  <2> QED
    BY <1>a, <2>1, <2>5, <2>6 DEF GraphTypes, GraphPc, GraphAtItsPlace, GraphRunsOnce
<1>3. CASE FinalizeNode
  <2>1. thread[head].log = <<"prepare">>
    BY <1>3 DEF FinalizeNode, Walk, GraphAtItsPlace, At, Prepared
  <2>a. Append(<<"prepare">>, "finalize") = <<"prepare", "finalize">>
    <3> DEFINE S == {"prepare", "finalize"}
               s == Append(<<"prepare">>, "finalize")
               t == <<"prepare", "finalize">>
    <3>1. <<"prepare">> \in Seq(S) /\ Len(<<"prepare">>) = 1 /\ <<"prepare">>[1] = "prepare"
      OBVIOUS
    <3>2. s \in Seq(S) /\ Len(s) = 2 /\ s[1] = "prepare" /\ s[2] = "finalize"
      BY <3>1
    <3>3. t \in Seq(S) /\ Len(t) = 2 /\ t[1] = "prepare" /\ t[2] = "finalize"
      OBVIOUS
    <3>4. \A i \in 1 .. Len(s) : s[i] = t[i]
      <4>1. 1 .. Len(s) = {1, 2}
        BY <3>2
      <4> QED BY <4>1, <3>2, <3>3
    <3> HIDE DEF S, s, t
    <3>5. s = t
      BY <3>2, <3>3, <3>4, SeqEqual
    <3> QED BY <3>5 DEF s, t
  <2>2. Append(thread[head].log, "finalize") = <<"prepare", "finalize">>
    BY <2>1, <2>a
  <2>3. [log |-> <<"prepare", "finalize">>, next |-> "end"] \in Snapshots
    BY DEF Snapshots
  <2>4. Snapshot(<<"prepare", "finalize">>, "end")
    BY <1>3, <2>2 DEF FinalizeNode
  <2>5. /\ thread' \in Seq(Snapshots) /\ head' \in Nat /\ At(Finalized)'
        /\ \A i \in DOMAIN thread : i \in DOMAIN thread' /\ thread'[i] = thread[i]
        /\ \A i \in DOMAIN thread' : i \in DOMAIN thread \/ i = head'
    BY <1>a, <2>3, <2>4, SnapshotIsHead DEF At, Finalized
  <2> QED
    BY <1>3, <1>a, <2>5 DEF FinalizeNode, Walk, GraphTypes, GraphPc, GraphAtItsPlace,
       GraphRunsOnce, Answerable, Located
<1>4. CASE SaveCheckpoint
  <2>1. NewRow \in CheckpointRows /\ ~NewRow.resumed /\ NewRow.snapshot = head
    BY <1>a DEF NewRow, CheckpointRows
  <2>2. /\ checkpoints' \in Seq(CheckpointRows) /\ Len(checkpoints') = Len(checkpoints) + 1
        /\ checkpoints'[Len(checkpoints) + 1] = NewRow
        /\ \A i \in DOMAIN checkpoints : checkpoints'[i] = checkpoints[i]
    BY <1>4, <1>a, <2>1 DEF SaveCheckpoint
  <2>3. DOMAIN checkpoints' = 1 .. Len(checkpoints) + 1
    BY <2>2, <1>a
  <2>4. held = 0 /\ At(Prepared)
    BY <1>4 DEF SaveCheckpoint, Walk, GraphAtItsPlace
  <2>5. Answerable'
    BY <1>4, <1>a, <2>1, <2>2, <2>4 DEF SaveCheckpoint, Answerable, At
  <2>6. GraphRunsOnce'
    BY <1>4, <1>a, <2>1, <2>2, <2>3 DEF SaveCheckpoint, Walk, GraphRunsOnce
  <2> QED
    BY <1>4, <1>a, <2>2, <2>4, <2>5, <2>6 DEF SaveCheckpoint, Walk, GraphTypes, GraphPc,
       GraphAtItsPlace
<1>5. CASE AnswerInterrupted
  <2>1. /\ At(Prepared) /\ held = 0
        /\ Len(checkpoints) > 0 /\ checkpoints[Len(checkpoints)].snapshot = head
    BY <1>5 DEF AnswerInterrupted, Walk, GraphAtItsPlace, Answerable, At, Finalized
  <2> QED
    BY <1>5, <1>a, <2>1 DEF AnswerInterrupted, Walk, GraphTypes, GraphPc, GraphAtItsPlace,
       GraphRunsOnce, At, Located
<1>6. CASE AnswerCompleted
  <2>1. thread[head] = Finalized
    BY <1>6 DEF AnswerCompleted, Walk, GraphAtItsPlace, Answerable, At, Prepared
  <2> QED
    BY <1>6, <1>a, <2>1 DEF AnswerCompleted, Walk, GraphTypes, GraphPc, GraphAtItsPlace,
       GraphRunsOnce, Located, Finalized
<1>7. CASE LoadCheckpoint
  BY <1>7, <1>a DEF LoadCheckpoint, Walk, GraphTypes, GraphPc, GraphAtItsPlace,
     GraphRunsOnce, Located
<1>8. CASE MarkResumed
  <2>1. held \in DOMAIN checkpoints
    BY <1>8, <1>a DEF MarkResumed, Walk, GraphAtItsPlace
  <2>a. checkpoints[held] \in CheckpointRows
    BY <1>a, <2>1
  <2>2. [checkpoints[held] EXCEPT !.resumed = TRUE] \in CheckpointRows
    BY <2>a DEF CheckpointRows
  <2>3. checkpoints' = [checkpoints EXCEPT ![held] = [checkpoints[held] EXCEPT !.resumed = TRUE]]
    BY <1>8 DEF MarkResumed
  <2>4. checkpoints' \in Seq(CheckpointRows) /\ Len(checkpoints') = Len(checkpoints)
    BY <1>a, <2>1, <2>2, <2>3
  <2>5. DOMAIN checkpoints' = DOMAIN checkpoints
    BY <2>3
  <2>6. checkpoints'[held].snapshot = checkpoints[held].snapshot
    BY <2>a, <2>1, <2>3 DEF CheckpointRows
  <2>7. \A i \in DOMAIN checkpoints : i # held => checkpoints'[i] = checkpoints[i]
    BY <2>3
  <2>8. GraphRunsOnce'
    BY <1>8, <2>5, <2>7 DEF MarkResumed, Walk, GraphRunsOnce
  <2> QED
    BY <1>8, <1>a, <2>4, <2>6, <2>8 DEF MarkResumed, Walk, GraphTypes, GraphPc,
       GraphAtItsPlace, Located
<1>9. CASE Resume
  <2>1. held \in DOMAIN checkpoints
    BY <1>9, <1>a DEF Resume, Walk, GraphAtItsPlace
  <2>a. checkpoints[held] \in CheckpointRows
    BY <1>a, <2>1
  <2>2. checkpoints[held].snapshot \in Nat
    BY <2>a DEF CheckpointRows
  <2>3. At(Prepared)'
    BY <1>9, <1>a, <2>1 DEF Resume, Walk, GraphAtItsPlace, At, Located
  <2> QED
    BY <1>9, <1>a, <2>2, <2>3 DEF Resume, Walk, GraphTypes, GraphPc, GraphAtItsPlace,
       GraphRunsOnce, Located
<1>10. CASE Cut
  <2>a. << >> \in Seq(Snapshots)
    OBVIOUS
  <2>b. thread' = thread \/ thread' = << >>
    BY <1>10 DEF Cut, Saved
  <2>1. thread' \in Seq(Snapshots) /\ (thread' = thread \/ thread' = << >>)
    BY <1>a, <2>a, <2>b
  <2>2. DOMAIN << >> = {}
    OBVIOUS
  <2>3. held' # 0 /\ Located' => thread'[checkpoints'[held'].snapshot] = Prepared
    BY <1>10, <2>1, <2>2 DEF Cut, Located, GraphAtItsPlace
  <2> QED
    BY <1>10, <1>a, <2>1, <2>3 DEF Cut, GraphTypes, GraphPc, GraphAtItsPlace, GraphRunsOnce
<1> QED
  BY <1>1, <1>2, <1>3, <1>4, <1>5, <1>6, <1>7, <1>8, <1>9, <1>10 DEF GraphStep

(* A step of the run keeps the graph execution of its attempt or forgets    *)
(* it.                                                                      *)
LEMMA RunKeepsOrForgetsGraph ==
  ASSUME GraphInv, RunStep \/ UNCHANGED graphVars
  PROVE  GraphInv'
<1>1. CASE UNCHANGED graphVars
  BY <1>1 DEF graphVars, GraphInv, GraphTypes, GraphAtItsPlace, GraphRunsOnce, At,
     Answerable, Located
<1>2. CASE RunStep /\ ~UNCHANGED graphVars
  <2>1. /\ gpc' = "none" /\ thread' = << >> /\ head' = 0 /\ checkpoints' = << >>
        /\ held' = 0 /\ steps' = << >>
    BY <1>2 DEF RunStep
  <2>2. /\ << >> \in Seq(Snapshots) /\ << >> \in Seq(CheckpointRows)
        /\ DOMAIN << >> = {} /\ Len(<< >>) = 0
    OBVIOUS
  <2> QED
    BY <2>1, <2>2 DEF GraphInv, GraphTypes, GraphPc, GraphAtItsPlace, GraphRunsOnce
<1> QED BY <1>1, <1>2

(* The invariant of the graph executions, from the start of a run on.       *)
LEMMA GraphInvariance == ReadSpec => []GraphInv
<1>1. ReadInit => GraphInv
  <2>1. /\ << >> \in Seq(Snapshots) /\ << >> \in Seq(CheckpointRows)
        /\ DOMAIN << >> = {} /\ Len(<< >>) = 0
    OBVIOUS
  <2> QED
    BY <2>1 DEF ReadInit, GraphInit, GraphInv, GraphTypes, GraphPc, GraphAtItsPlace,
       GraphRunsOnce
<1>2. GraphInv /\ [ReadNext]_readVars => GraphInv'
  <2>1. ReadNext => RunStep \/ GraphStep \/ UNCHANGED graphVars
    BY DEF ReadNext, WorkflowStep, GraphActivity, NotificationActivity
  <2>2. UNCHANGED readVars => UNCHANGED graphVars
    BY DEF readVars
  <2> QED BY <2>1, <2>2, GraphKeepsPlace, RunKeepsOrForgetsGraph
<1> QED BY <1>1, <1>2, PTL DEF ReadSpec

(* GraphRunsOnce (agent_runtime/service.py): a task goes on with the result *)
(* of one pass through the graph, and no checkpoint row is resumed but the  *)
(* one the workflow was answered with, however often executions are cut     *)
(* and whether or not the threads survive their worker.                     *)
THEOREM GraphPassesOnce == ReadSpec => []GraphRunsOnce
  BY GraphInvariance, PTL DEF GraphInv

-----------------------------------------------------------------------------
(* The notification of a run                                                *)

NoteTypes ==
  /\ accepted \in [Channels -> Nat]
  /\ deliveries \in [DeliveryRow -> Nat]
  /\ receipts \in Seq(Channels \X RowStatus)

(* The receipts of an execution are of the first adapters, in their order,  *)
(* and those that read sent are of messages a provider took.                *)
ReceiptsInOrder ==
  /\ Len(receipts) <= Len(Adapters)
  /\ place = "none" => receipts = << >>
  /\ place \in {"send", "recordSent", "recordFailed"} => Len(receipts) < Len(Adapters)
  /\ place \in {"answer", "announced"} => Len(receipts) = Len(Adapters)
  /\ \A i \in DOMAIN receipts :
       /\ receipts[i][1] = Adapters[i]
       /\ receipts[i][2] = "sent" => accepted[receipts[i][1]] > 0

(* The rows that read sent and were not written over are of messages taken, *)
(* and where the next such row is about to be inserted there is a message   *)
(* it can stand for.                                                        *)
SentWasAccepted ==
  /\ \A c \in Channels : deliveries[Recording(<<c, "sent">>)] <= accepted[c]
  /\ place = "recordSent" => deliveries[Recording(<<Channel, "sent">>)] < accepted[Channel]

NoteInv == NoteTypes /\ ReceiptsInOrder /\ SentWasAccepted

(* The adapter an execution is at is one of the adapters of the run.        *)
LEMMA ChannelIsAdapter ==
  ASSUME NoteInv, place \in {"send", "recordSent", "recordFailed"}
  PROVE  Channel \in Channels
<1>1. Len(receipts) \in Nat /\ Len(Adapters) \in Nat /\ Len(receipts) < Len(Adapters)
  BY NotificationsAssumption DEF NoteInv, NoteTypes, ReceiptsInOrder
<1>2. Len(receipts) + 1 \in 1 .. Len(Adapters)
  BY <1>1
<1> QED BY <1>2, NotificationsAssumption DEF Channel

(* A provider that takes a message only adds to what it took.               *)
LEMMA AcceptedGrows ==
  ASSUME NoteInv, Channel \in Channels, Accepted
  PROVE  /\ accepted' \in [Channels -> Nat]
         /\ accepted'[Channel] = accepted[Channel] + 1
         /\ \A c \in Channels : accepted'[c] >= accepted[c]
<1>1. accepted \in [Channels -> Nat]
  BY DEF NoteInv, NoteTypes
<1> QED BY <1>1 DEF Accepted

(* A step that leaves the receipts and the rows alone, and what was         *)
(* accepted grows.                                                          *)
LEMMA AcceptingKeeps ==
  ASSUME NoteInv, accepted' \in [Channels -> Nat],
         \A c \in Channels : accepted'[c] >= accepted[c],
         UNCHANGED <<receipts, deliveries>>
  PROVE  /\ NoteTypes'
         /\ \A i \in DOMAIN receipts' :
              /\ receipts'[i][1] = Adapters[i]
              /\ receipts'[i][2] = "sent" => accepted'[receipts'[i][1]] > 0
         /\ \A c \in Channels : deliveries'[Recording(<<c, "sent">>)] <= accepted'[c]
<1>1. NoteTypes'
  BY DEF NoteInv, NoteTypes
<1>2. ASSUME NEW i \in DOMAIN receipts
      PROVE  /\ receipts[i][1] = Adapters[i]
             /\ receipts[i][2] = "sent" => accepted'[receipts[i][1]] > 0
  <2>1. receipts[i] \in Channels \X RowStatus
    BY <1>2 DEF NoteInv, NoteTypes
  <2>2. receipts[i][1] \in Channels
    BY <2>1
  <2>3. accepted[receipts[i][1]] \in Nat /\ accepted'[receipts[i][1]] \in Nat
    BY <2>2 DEF NoteInv, NoteTypes
  <2> QED BY <1>2, <2>2, <2>3 DEF NoteInv, ReceiptsInOrder
<1>3. ASSUME NEW c \in Channels PROVE deliveries[Recording(<<c, "sent">>)] <= accepted'[c]
  <2>1. Recording(<<c, "sent">>) \in DeliveryRow
    BY DEF RowStatus, DeliveryRow, Recording
  <2>2. deliveries[Recording(<<c, "sent">>)] \in Nat /\ accepted[c] \in Nat /\ accepted'[c] \in Nat
    BY <2>1 DEF NoteInv, NoteTypes
  <2> QED BY <2>2 DEF NoteInv, SentWasAccepted
<1> QED BY <1>1, <1>2, <1>3

(* The receipt of an adapter goes behind those of the adapters before it.   *)
LEMMA RecordKeeps ==
  ASSUME NoteInv, Record
  PROVE  NoteInv'
<1> DEFINE status == IF place = "recordSent" THEN "sent" ELSE "failed"
           s == Receipt(status)
           r == Recording(s)
<1>1. Channel \in Channels /\ s \in Channels \X RowStatus /\ r \in DeliveryRow
  BY ChannelIsAdapter DEF Record, Receipt, RowStatus, Recording, DeliveryRow
<1>2. /\ receipts \in Seq(Channels \X RowStatus) /\ Len(receipts) \in Nat
      /\ DOMAIN receipts = 1 .. Len(receipts)
      /\ Len(Adapters) \in Nat /\ Len(receipts) < Len(Adapters)
  BY NotificationsAssumption DEF Record, NoteInv, NoteTypes, ReceiptsInOrder
<1>3. /\ receipts' \in Seq(Channels \X RowStatus)
      /\ Len(receipts') = Len(receipts) + 1
      /\ receipts'[Len(receipts) + 1] = s
      /\ \A i \in DOMAIN receipts : receipts'[i] = receipts[i]
  BY <1>1, <1>2 DEF Record
<1>4. DOMAIN receipts' = 1 .. Len(receipts) + 1
  BY <1>2, <1>3
<1>5. accepted' = accepted /\ accepted \in [Channels -> Nat]
  BY DEF Record, NoteInv, NoteTypes
<1>6. /\ deliveries \in [DeliveryRow -> Nat]
      /\ deliveries' = deliveries \/ deliveries' = [deliveries EXCEPT ![r] = @ + 1]
  BY DEF Record, Recorded, NoteInv, NoteTypes
<1>7. deliveries' \in [DeliveryRow -> Nat]
  BY <1>1, <1>6
<1>8. status = "sent" => deliveries[r] < accepted[Channel]
  BY DEF Record, NoteInv, SentWasAccepted, Receipt
<1>9. ASSUME NEW i \in DOMAIN receipts'
      PROVE  /\ receipts'[i][1] = Adapters[i]
             /\ receipts'[i][2] = "sent" => accepted'[receipts'[i][1]] > 0
  <2>1. CASE i \in DOMAIN receipts
    BY <2>1, <1>3, <1>5 DEF NoteInv, ReceiptsInOrder
  <2>2. CASE i = Len(receipts) + 1
    <3>1. receipts'[i] = <<Channel, status>> /\ Channel = Adapters[i]
      BY <2>2, <1>3 DEF Receipt, Channel
    <3>2. deliveries[r] \in Nat /\ accepted[Channel] \in Nat
      BY <1>1, <1>5, <1>6
    <3> QED BY <3>1, <3>2, <1>5, <1>8
  <2> QED BY <1>2, <1>4, <1>9, <2>1, <2>2
<1>10. ASSUME NEW c \in Channels PROVE deliveries'[Recording(<<c, "sent">>)] <= accepted'[c]
  <2>1. Recording(<<c, "sent">>) \in DeliveryRow
    BY DEF RowStatus, DeliveryRow, Recording
  <2>2. deliveries[Recording(<<c, "sent">>)] \in Nat /\ accepted[c] \in Nat
    BY <2>1, <1>5, <1>6
  <2>3. deliveries[Recording(<<c, "sent">>)] <= accepted[c]
    BY DEF NoteInv, SentWasAccepted
  <2>4. Recording(<<c, "sent">>) = r => status = "sent" /\ c = Channel
    BY DEF Receipt, Recording
  <2> QED BY <2>1, <2>2, <2>3, <2>4, <1>5, <1>6, <1>8
<1>11. place' = IF Len(receipts') = Len(Adapters) THEN "answer" ELSE "send"
  BY DEF Record
<1>12. NoteTypes'
  BY <1>3, <1>5, <1>7 DEF NoteTypes
<1>13. ReceiptsInOrder'
  BY <1>2, <1>3, <1>9, <1>11 DEF ReceiptsInOrder
<1>14. SentWasAccepted'
  BY <1>10, <1>11 DEF SentWasAccepted
<1> QED BY <1>12, <1>13, <1>14 DEF NoteInv

(* Every step of the notification keeps the invariant.                      *)
LEMMA NoteKeeps ==
  ASSUME NoteInv, NoteStep \/ StartSending
  PROVE  NoteInv'
<1>a. /\ Len(receipts) \in Nat /\ Len(Adapters) \in Nat /\ Len(Adapters) > 0
      /\ accepted \in [Channels -> Nat] /\ deliveries \in [DeliveryRow -> Nat]
  BY NotificationsAssumption DEF NoteInv, NoteTypes
<1>b. \A c \in Channels : accepted[c] >= accepted[c]
  BY <1>a
<1>1. CASE StartSending
  <2>1. receipts = << >> /\ Len(<< >>) = 0
    BY <1>1 DEF StartSending, NoteInv, ReceiptsInOrder
  <2> QED
    BY <1>1, <1>a, <2>1 DEF StartSending, NoteInv, NoteTypes, ReceiptsInOrder, SentWasAccepted
<1>2. CASE SendSucceeds
  <2>1. Channel \in Channels /\ Channel' = Channel
    BY <1>2, ChannelIsAdapter DEF SendSucceeds, Channel
  <2>2. /\ accepted' \in [Channels -> Nat]
        /\ accepted'[Channel] = accepted[Channel] + 1
        /\ \A c \in Channels : accepted'[c] >= accepted[c]
    BY <1>2, <2>1, AcceptedGrows DEF SendSucceeds
  <2>3. Recording(<<Channel, "sent">>) \in DeliveryRow
    BY <2>1 DEF RowStatus, DeliveryRow, Recording
  <2>4. deliveries[Recording(<<Channel, "sent">>)] \in Nat /\ accepted[Channel] \in Nat
    BY <1>a, <2>1, <2>3
  <2>5. deliveries'[Recording(<<Channel, "sent">>)] < accepted'[Channel]
    BY <1>2, <2>1, <2>2, <2>4 DEF SendSucceeds, NoteInv, SentWasAccepted
  <2>6. UNCHANGED <<receipts, deliveries>> /\ place = "send" /\ place' = "recordSent"
    BY <1>2 DEF SendSucceeds
  <2> QED
    BY <2>1, <2>2, <2>5, <2>6, AcceptingKeeps DEF NoteInv, ReceiptsInOrder, SentWasAccepted
<1>3. CASE SendRaises
  <2>1. Channel \in Channels
    BY <1>3, ChannelIsAdapter DEF SendRaises
  <2>2. accepted' \in [Channels -> Nat] /\ \A c \in Channels : accepted'[c] >= accepted[c]
    BY <1>3, <1>a, <1>b, <2>1, AcceptedGrows DEF SendRaises, AcceptedOrNot
  <2>3. /\ UNCHANGED <<receipts, deliveries>> /\ place = "send"
        /\ place' \in {"send", "recordFailed"}
    BY <1>3 DEF SendRaises
  <2> QED
    BY <2>2, <2>3, AcceptingKeeps DEF NoteInv, ReceiptsInOrder, SentWasAccepted
<1>4. CASE Record
  BY <1>4, RecordKeeps
<1>5. CASE Announce
  BY <1>5, <1>a DEF Announce, NoteInv, NoteTypes, ReceiptsInOrder, SentWasAccepted
<1>6. CASE CutSending
  <2>1. /\ << >> \in Seq(Channels \X RowStatus)
        /\ Len(<< >>) = 0 /\ DOMAIN << >> = {}
    OBVIOUS
  <2> QED
    BY <1>6, <1>a, <2>1 DEF CutSending, NoteInv, NoteTypes, ReceiptsInOrder, SentWasAccepted
<1>7. CASE UpdateDelivery
  <2>1. PICK r \in DeliveryRow, status \in RowStatus :
          /\ deliveries[r] > 0
          /\ LET others == [deliveries EXCEPT ![r] = @ - 1]
             IN deliveries' = [others EXCEPT ![<<r[1], status, TRUE>>] = @ + 1]
    BY <1>7 DEF UpdateDelivery
  <2> DEFINE others == [deliveries EXCEPT ![r] = @ - 1]
             d == <<r[1], status, TRUE>>
  <2>2. r \in DeliveryRow /\ d \in DeliveryRow
    BY <2>1 DEF DeliveryRow
  <2>3. others \in [DeliveryRow -> Nat]
    BY <1>a, <2>1, <2>2
  <2>4. deliveries' = [others EXCEPT ![d] = @ + 1]
    BY <2>1
  <2>5. deliveries' \in [DeliveryRow -> Nat]
    <3> HIDE DEF others, d
    <3> QED BY <2>2, <2>3, <2>4
  <2>6. ASSUME NEW c \in Channels
        PROVE  /\ deliveries[Recording(<<c, "sent">>)] \in Nat
               /\ deliveries'[Recording(<<c, "sent">>)] \in Nat
               /\ deliveries'[Recording(<<c, "sent">>)] <= deliveries[Recording(<<c, "sent">>)]
    <3>1. Recording(<<c, "sent">>) \in DeliveryRow /\ Recording(<<c, "sent">>) # d
      BY DEF RowStatus, DeliveryRow, Recording
    <3> HIDE DEF d
    <3>2. deliveries'[Recording(<<c, "sent">>)] = others[Recording(<<c, "sent">>)]
      BY <2>3, <2>4, <3>1
    <3>3. /\ deliveries[Recording(<<c, "sent">>)] \in Nat
          /\ others[Recording(<<c, "sent">>)] <= deliveries[Recording(<<c, "sent">>)]
      BY <1>a, <3>1
    <3> QED BY <2>5, <3>1, <3>2, <3>3
  <2>7. UNCHANGED <<place, receipts, accepted>> /\ Channel' = Channel
    BY <1>7 DEF UpdateDelivery, Channel
  <2>8. ASSUME NEW c \in Channels PROVE deliveries'[Recording(<<c, "sent">>)] <= accepted'[c]
    <3>1. accepted[c] \in Nat /\ deliveries[Recording(<<c, "sent">>)] <= accepted[c]
      BY <1>a DEF NoteInv, SentWasAccepted
    <3> QED BY <2>6, <2>7, <3>1
  <2>9. place' = "recordSent" => deliveries'[Recording(<<Channel', "sent">>)] < accepted'[Channel']
    <3> SUFFICES ASSUME place = "recordSent"
                 PROVE  deliveries'[Recording(<<Channel, "sent">>)] < accepted[Channel]
      BY <2>7
    <3>1. Channel \in Channels
      BY ChannelIsAdapter
    <3>2. accepted[Channel] \in Nat /\ deliveries[Recording(<<Channel, "sent">>)] < accepted[Channel]
      BY <1>a, <3>1 DEF NoteInv, SentWasAccepted
    <3> QED BY <2>6, <3>1, <3>2
  <2> QED
    BY <2>5, <2>7, <2>8, <2>9 DEF NoteInv, NoteTypes, ReceiptsInOrder, SentWasAccepted
<1> QED BY <1>1, <1>2, <1>3, <1>4, <1>5, <1>6, <1>7 DEF NoteStep

(* The invariant of the notification, from the start of a run on.           *)
LEMMA NoteInvariance == ReadSpec => []NoteInv
<1>1. ReadInit => NoteInv
  <2> SUFFICES ASSUME NoteInit PROVE NoteInv
    BY DEF ReadInit
  <2>1. /\ << >> \in Seq(Channels \X RowStatus) /\ Len(<< >>) = 0 /\ DOMAIN << >> = {}
        /\ Len(Adapters) \in Nat
    BY NotificationsAssumption
  <2>2. \A c \in Channels : Recording(<<c, "sent">>) \in DeliveryRow
    BY DEF RowStatus, DeliveryRow, Recording
  <2> QED
    BY <2>1, <2>2 DEF NoteInit, NoteInv, NoteTypes, ReceiptsInOrder, SentWasAccepted
<1>2. NoteInv /\ [ReadNext]_readVars => NoteInv'
  <2>1. ReadNext => NoteStep \/ StartSending \/ UNCHANGED noteVars
    BY DEF ReadNext, WorkflowStep, GraphActivity, NotificationActivity
  <2>2. UNCHANGED readVars => UNCHANGED noteVars
    BY DEF readVars
  <2>3. NoteInv /\ UNCHANGED noteVars => NoteInv'
    BY DEF noteVars, NoteInv, NoteTypes, ReceiptsInOrder, SentWasAccepted, Channel
  <2> QED BY <2>1, <2>2, <2>3, NoteKeeps
<1> QED BY <1>1, <1>2, PTL DEF ReadSpec

(* AnnouncedTruthfully (notifications/service.py and the activity that      *)
(* calls it): what is announced holds one receipt for each adapter in its   *)
(* order, none says sent of a message no provider took, and the rows nobody *)
(* has written over never show more messages as sent than were taken, for   *)
(* any number of adapters, attempts, repeated executions and statuses       *)
(* written over rows.                                                       *)
THEOREM NotificationIsTruthful == ReadSpec => []AnnouncedTruthfully
<1>1. NoteInv => AnnouncedTruthfully
  <2> SUFFICES ASSUME NoteInv, place = "announced"
               PROVE  [i \in DOMAIN receipts |-> receipts[i][1]] = Adapters
    BY DEF NoteInv, ReceiptsInOrder, SentWasAccepted, AnnouncedTruthfully
  <2>1. Len(receipts) = Len(Adapters) /\ \A i \in DOMAIN receipts : receipts[i][1] = Adapters[i]
    BY DEF NoteInv, ReceiptsInOrder
  <2>2. DOMAIN receipts = DOMAIN Adapters
    BY <2>1, NotificationsAssumption DEF NoteInv, NoteTypes
  <2>3. Adapters = [i \in DOMAIN Adapters |-> Adapters[i]]
    BY NotificationsAssumption
  <2> QED BY <2>1, <2>2, <2>3
<1> QED BY <1>1, NoteInvariance, PTL

-----------------------------------------------------------------------------
(* What the task graph shows                                                *)

(* The events of a task of one kind, the newest of some, and what it says.  *)
About(l, kind, t) == {i \in DOMAIN l : l[i].kind = kind /\ l[i].task = t}
Newest(S, i) == i \in S /\ \A j \in S : j <= i
Says(l, kind, t, s) == \E i \in DOMAIN l : Newest(About(l, kind, t), i) /\ l[i].status = s

(* The status a task has by its events: queued while it has none.           *)
Reads(l, t, s) ==
  \/ Says(l, "status", t, s)
  \/ About(l, "status", t) = {} /\ s = "queued"

(* It is that of its row, or the row was taken out of flight since.         *)
ClosedRow == {"failed", "cancelled"}
Follows(t) ==
  \E s \in TaskStatus :
    Reads(log, t, s) /\ (s = task[t] \/ (s \in Inflight /\ task[t] \in ClosedRow))

(* The workflow is executing the task, or was when it ended.                *)
Taken(t) == cur # NoAttempt /\ pc \notin PlanningPcs /\ t = cur[1]

(* Where the row of the current attempt and its events agree: before it is  *)
(* claimed, and from its last event on.                                     *)
SyncedPcs == {"todo", "gate", "gateEv", "gateWait", "gateOpen", "failRelease",
              "release", "result", "failRun", "failedEv", "done"} \cup RetryPcs

ReportsCompleted == pc = "result" /\ outcome = "completed"

(* Before the first graph, and from the first event of an attempt on.       *)
BeginningPcs == {"queue", "start", "started"}
SpokenPcs == HoldingPcs \ {"claimed", "claimedEv"}

LogBegins ==
  /\ log = << >> => \A t \in Task : task[t] # "completed"
  /\ pc \in BeginningPcs => log = << >>
  /\ pc \notin BeginningPcs \cup {"crashed"} => log # << >>
  /\ log # << >> => \E i \in GraphsIn(log) : Newest(GraphsIn(log), i)

(* Every event of a task has a status, and no graph speaks of a task before *)
(* its first one.                                                           *)
LogSpeaks ==
  /\ \A t \in Task :
       About(log, "status", t) = {} \/ \E s \in TaskStatus : Says(log, "status", t, s)
  /\ \A i \in GraphsIn(log) : log[i].task \in Task => About(log, "status", log[i].task) # {}
  /\ pc \in SpokenPcs => About(log, "status", cur[1]) # {}

FinishedShown ==
  \A t \in finished : Says(log, "status", t, "completed") /\ Says(log, "todo", t, "completed")
UntakenSilent ==
  \A t \in Task \ finished :
    ~Taken(t) => About(log, "status", t) = {} /\ task[t] \in {"queued"} \cup ClosedRow
TakenFollows == pc \in SyncedPcs /\ cur # NoAttempt => Follows(cur[1])
CompletedIsLast ==
  \A t \in Task : Says(log, "status", t, "completed")
    => \/ t \in finished
       \/ Taken(t) /\ (pc \in {"release", "crashed"} \/ ReportsCompleted)
ListDone == ReportsCompleted => Says(log, "todo", cur[1], "completed")

(* What holds of the log whatever else writes the rows, and what holds of   *)
(* it and the rows.                                                         *)
LogInv == LogBegins /\ LogSpeaks /\ CompletedIsLast
ShownInv == LogInv /\ FinishedShown /\ UntakenSilent /\ TakenFollows /\ ListDone

-----------------------------------------------------------------------------
(* The newest of the events                                                 *)

(* Appending to the log: what was there stays where it was.                 *)
LEMMA Appended ==
  ASSUME NEW S, NEW l \in Seq(S), NEW m \in Seq(S)
  PROVE  /\ l \o m \in Seq(S) /\ Len(l) \in Nat /\ Len(m) \in Nat
         /\ DOMAIN l = 1 .. Len(l) /\ DOMAIN m = 1 .. Len(m)
         /\ \A i \in DOMAIN l : i \in DOMAIN (l \o m) /\ (l \o m)[i] = l[i]
         /\ \A k \in DOMAIN m : Len(l) + k \in DOMAIN (l \o m) /\ (l \o m)[Len(l) + k] = m[k]
         /\ \A i \in DOMAIN (l \o m) :
              i \in DOMAIN l \/ \E k \in DOMAIN m : i = Len(l) + k
<1>1. /\ l \o m \in Seq(S) /\ Len(l) \in Nat /\ Len(m) \in Nat
      /\ Len(l \o m) = Len(l) + Len(m)
  OBVIOUS
<1>2. /\ DOMAIN l = 1 .. Len(l) /\ DOMAIN m = 1 .. Len(m)
      /\ DOMAIN (l \o m) = 1 .. Len(l) + Len(m)
  BY <1>1
<1>3. \A i \in DOMAIN l : (l \o m)[i] = l[i]
  OBVIOUS
<1>4. \A k \in DOMAIN m : (l \o m)[Len(l) + k] = m[k]
  BY <1>1, <1>2
<1>5. ASSUME NEW i \in 1 .. Len(l) + Len(m), i \notin 1 .. Len(l)
      PROVE  \E k \in 1 .. Len(m) : i = Len(l) + k
  <2>1. i - Len(l) \in 1 .. Len(m) /\ i = Len(l) + (i - Len(l))
    BY <1>1, <1>5
  <2> QED BY <2>1
<1>6. /\ \A i \in DOMAIN l : i \in DOMAIN (l \o m)
      /\ \A k \in DOMAIN m : Len(l) + k \in DOMAIN (l \o m)
  BY <1>1, <1>2
<1>7. \A i \in DOMAIN (l \o m) : i \in DOMAIN l \/ \E k \in DOMAIN m : i = Len(l) + k
  BY <1>2, <1>5
<1> QED BY <1>1, <1>2, <1>3, <1>4, <1>6, <1>7

(* The greatest of some numbers is what Max yields.                         *)
LEMMA NewestIsMax ==
  ASSUME NEW S, S \subseteq Nat, NEW i, Newest(S, i)
  PROVE  Max(S) = i /\ S # {}
<1>1. i \in S /\ \A j \in S : i >= j
  BY DEF Newest
<1>2. Max(S) \in S /\ \A j \in S : Max(S) >= j
  BY <1>1 DEF Max
<1>3. i \in Nat /\ Max(S) \in Nat
  BY <1>1, <1>2
<1> QED BY <1>1, <1>2, <1>3

(* The newest event of a task says one thing.                               *)
LEMMA SaysOnce ==
  ASSUME NEW l \in Seq(Event), NEW kind, NEW t, NEW r, NEW s,
         Says(l, kind, t, r), Says(l, kind, t, s)
  PROVE  r = s /\ About(l, kind, t) # {}
<1>1. PICK i \in DOMAIN l : Newest(About(l, kind, t), i) /\ l[i].status = r
  BY DEF Says
<1>2. PICK j \in DOMAIN l : Newest(About(l, kind, t), j) /\ l[j].status = s
  BY DEF Says
<1>3. i \in Nat /\ j \in Nat
  OBVIOUS
<1> QED BY <1>1, <1>2, <1>3 DEF Newest

(* Events about other things change nothing of what is said of a task.      *)
LEMMA QuietEvents ==
  ASSUME NEW l \in Seq(Event), NEW m \in Seq(Event), NEW kind, NEW t,
         \A k \in DOMAIN m : ~(m[k].kind = kind /\ m[k].task = t)
  PROVE  /\ About(l \o m, kind, t) = About(l, kind, t)
         /\ \A s : Says(l, kind, t, s) <=> Says(l \o m, kind, t, s)
<1>1. /\ \A i \in DOMAIN l : i \in DOMAIN (l \o m) /\ (l \o m)[i] = l[i]
      /\ \A k \in DOMAIN m : (l \o m)[Len(l) + k] = m[k]
      /\ \A i \in DOMAIN (l \o m) : i \in DOMAIN l \/ \E k \in DOMAIN m : i = Len(l) + k
  BY Appended
<1>2. About(l \o m, kind, t) = About(l, kind, t)
  BY <1>1 DEF About
<1> QED BY <1>1, <1>2 DEF Says, Newest, About

(* The last event about a task says what is said of it.                     *)
LEMMA LastEvent ==
  ASSUME NEW l \in Seq(Event), NEW m \in Seq(Event), NEW kind, NEW t, NEW s,
         NEW n \in DOMAIN m, m[n].kind = kind, m[n].task = t, m[n].status = s,
         \A k \in DOMAIN m : m[k].kind = kind /\ m[k].task = t => k <= n
  PROVE  Says(l \o m, kind, t, s)
<1>1. /\ Len(l) \in Nat /\ Len(m) \in Nat
      /\ DOMAIN l = 1 .. Len(l) /\ DOMAIN m = 1 .. Len(m)
      /\ \A k \in DOMAIN m : Len(l) + k \in DOMAIN (l \o m) /\ (l \o m)[Len(l) + k] = m[k]
      /\ \A i \in DOMAIN (l \o m) : i \in DOMAIN l \/ \E k \in DOMAIN m : i = Len(l) + k
  BY Appended
<1>2. Len(l) + n \in About(l \o m, kind, t) /\ (l \o m)[Len(l) + n].status = s
  BY <1>1 DEF About
<1>3. ASSUME NEW j \in About(l \o m, kind, t) PROVE j <= Len(l) + n
  <2>1. j \in DOMAIN (l \o m) /\ (l \o m)[j].kind = kind /\ (l \o m)[j].task = t
    BY <1>3 DEF About
  <2>2. CASE j \in DOMAIN l
    BY <1>1, <2>2
  <2>3. CASE \E k \in DOMAIN m : j = Len(l) + k
    BY <1>1, <2>1, <2>3
  <2> QED BY <1>1, <2>1, <2>2, <2>3
<1> QED BY <1>1, <1>2, <1>3 DEF Says, Newest

(* An event about a task is never forgotten.                                *)
LEMMA EventsStay ==
  ASSUME NEW l \in Seq(Event), NEW m \in Seq(Event), NEW kind, NEW t,
         About(l, kind, t) # {}
  PROVE  About(l \o m, kind, t) # {}
<1>1. \A i \in DOMAIN l : i \in DOMAIN (l \o m) /\ (l \o m)[i] = l[i]
  BY Appended
<1> QED BY <1>1 DEF About

(* A graph that ends what is appended is the latest one; otherwise it is    *)
(* the one it was.                                                          *)
LEMMA LatestGraph ==
  ASSUME NEW l \in Seq(Event), NEW m \in Seq(Event),
         (\E k \in DOMAIN m : m[k].kind = "graph") => m[Len(m)].kind = "graph",
         (\E i \in GraphsIn(l) : Newest(GraphsIn(l), i)) \/ (\E k \in DOMAIN m : m[k].kind = "graph")
  PROVE  \E i \in GraphsIn(l \o m) : Newest(GraphsIn(l \o m), i)
<1>1. /\ Len(l) \in Nat /\ Len(m) \in Nat
      /\ DOMAIN l = 1 .. Len(l) /\ DOMAIN m = 1 .. Len(m)
      /\ \A i \in DOMAIN l : i \in DOMAIN (l \o m) /\ (l \o m)[i] = l[i]
      /\ \A k \in DOMAIN m : Len(l) + k \in DOMAIN (l \o m) /\ (l \o m)[Len(l) + k] = m[k]
      /\ \A i \in DOMAIN (l \o m) : i \in DOMAIN l \/ \E k \in DOMAIN m : i = Len(l) + k
  BY Appended
<1>2. \A h \in {l, l \o m} : GraphsIn(h) = {i \in DOMAIN h : h[i].kind = "graph"}
  BY DEF GraphsIn, Indices
<1>3. CASE \E k \in DOMAIN m : m[k].kind = "graph"
  <2>1. Len(m) \in DOMAIN m /\ m[Len(m)].kind = "graph"
    BY <1>1, <1>3
  <2>2. Len(l) + Len(m) \in GraphsIn(l \o m)
    BY <1>1, <1>2, <2>1
  <2>3. \A j \in GraphsIn(l \o m) : j <= Len(l) + Len(m)
    BY <1>1, <1>2
  <2> QED BY <2>2, <2>3 DEF Newest
<1>4. CASE \A k \in DOMAIN m : m[k].kind # "graph"
  <2>1. \A i : i \in GraphsIn(l \o m) <=> i \in GraphsIn(l)
    BY <1>1, <1>2, <1>4
  <2>2. GraphsIn(l \o m) = GraphsIn(l)
    BY <2>1
  <2> QED BY <1>4, <2>2
<1> QED BY <1>3, <1>4

-----------------------------------------------------------------------------
(* What the projector makes of them                                         *)

(* With a graph, a task is shown as its events say, whatever the graphs     *)
(* list it as: they are about tasks that have events.                       *)
LEMMA ShownAsRead ==
  ASSUME NEW l \in Seq(Event), NEW rows, NEW t \in Task, NEW s, Reads(l, t, s),
         \E i \in GraphsIn(l) : Newest(GraphsIn(l), i),
         \A i \in GraphsIn(l) : l[i].task \in Task => About(l, "status", l[i].task) # {}
  PROVE  Shown(l, rows, t) = s
<1>1. StatusesIn(l, t) = About(l, "status", t)
  BY DEF StatusesIn, Indices, About
<1>2. /\ GraphsIn(l) \subseteq Nat /\ About(l, "status", t) \subseteq Nat
      /\ DOMAIN l \subseteq Nat
  <2>1. Len(l) \in Nat /\ DOMAIN l = 1 .. Len(l)
    OBVIOUS
  <2> QED BY <2>1 DEF GraphsIn, Indices, About
<1>3. Max(GraphsIn(l)) \in GraphsIn(l) /\ GraphsIn(l) # {}
  BY <1>2, NewestIsMax
<1>4. CASE Says(l, "status", t, s)
  <2>1. PICK i \in DOMAIN l : Newest(About(l, "status", t), i) /\ l[i].status = s
    BY <1>4 DEF Says
  <2>2. Max(About(l, "status", t)) = i /\ About(l, "status", t) # {}
    BY <1>2, <2>1, NewestIsMax
  <2> QED BY <1>1, <1>3, <2>1, <2>2 DEF Shown
<1>5. CASE About(l, "status", t) = {} /\ s = "queued"
  <2>1. l[Max(GraphsIn(l))].task # t
    BY <1>3, <1>5
  <2> QED BY <1>1, <1>3, <1>5, <2>1 DEF Shown, Node
<1> QED BY <1>4, <1>5 DEF Reads

(* The checklist of a task is what its newest list says.                    *)
LEMMA ListAsSaid ==
  ASSUME NEW l \in Seq(Event), NEW t \in Task, NEW s, Says(l, "todo", t, s)
  PROVE  Checklist(l, t) = s
<1>1. Indices(l, LAMBDA e : e.kind = "todo" /\ e.task = t) = About(l, "todo", t)
  BY DEF Indices, About
<1>2. Len(l) \in Nat /\ DOMAIN l = 1 .. Len(l)
  OBVIOUS
<1>3. About(l, "todo", t) \subseteq Nat
  BY <1>2 DEF About
<1>4. PICK i \in DOMAIN l : Newest(About(l, "todo", t), i) /\ l[i].status = s
  BY DEF Says
<1>5. Max(About(l, "todo", t)) = i /\ About(l, "todo", t) # {}
  BY <1>3, <1>4, NewestIsMax
<1> QED BY <1>1, <1>4, <1>5 DEF Checklist

-----------------------------------------------------------------------------
(* What a step adds to the log                                              *)

(* A task event is logged by this step.                                     *)
EventDue == pc \in DOMAIN StatusAt /\ pc' \notin {pc, "crashed"}

(* A step may append these events: the status of the current attempt first, *)
(* a graph last, and a checklist of its task between them.                  *)
Speaks(m) ==
  /\ m \in Seq(Event)
  /\ \A k \in DOMAIN m : m[k].kind = "status"
       => k = 1 /\ EventDue /\ m[k] = Entry("status", cur[1], StatusAt[pc])
  /\ EventDue => 1 \in DOMAIN m /\ m[1] = Entry("status", cur[1], StatusAt[pc])
  /\ \A k \in DOMAIN m : m[k].kind = "todo"
       => pc \in AttemptPcs \ {"result"} /\ m[k].task = cur[1]
  /\ pc = "release" /\ pc' = "result" => m = <<Entry("todo", cur[1], "completed")>>
  /\ pc = "release" /\ pc' # "result" => m = << >>
  /\ \A k \in DOMAIN m : m[k].kind = "graph"
       => \/ m[k].task = NoTask
          \/ m[k].task = cur[1] /\ pc \in {"dispatch", "verify"}
  /\ (\E k \in DOMAIN m : m[k].kind = "graph") => m[Len(m)].kind = "graph"
  /\ pc = "started" /\ pc' \notin {pc, "crashed"} => \E k \in DOMAIN m : m[k].kind = "graph"
  /\ pc \in {"queue", "start", "crashed"} \/ (pc = "started" /\ pc' \in {pc, "crashed"})
       => m = << >>

StatusPart == IF pc \in DOMAIN StatusAt THEN <<Entry("status", cur[1], StatusAt[pc])>> ELSE << >>
GraphPart == IF pc = "dispatch" /\ pc' = "verify" THEN Graph ELSE << >>
TodoPart ==
  IF pc' = "failTask" THEN Todo("failed")
  ELSE IF pc \in {"todo", "runEv"} \/ GraphPart # << >> THEN Todo("running")
  ELSE IF pc = "release" THEN Todo("completed") ELSE << >>

(* Three lists of one event at most, one after the other.                   *)
LEMMA ShortLists ==
  ASSUME NEW S, NEW a \in Seq(S), NEW b \in Seq(S), NEW c \in Seq(S),
         Len(a) <= 1, Len(b) <= 1, Len(c) <= 1
  PROVE  LET m == a \o b \o c IN
         /\ m \in Seq(S) /\ Len(m) \in Nat /\ DOMAIN m = 1 .. Len(m)
         /\ \A k \in DOMAIN m : \/ k = 1 /\ 1 \in DOMAIN a /\ m[k] = a[1]
                                \/ 1 \in DOMAIN b /\ m[k] = b[1]
                                \/ 1 \in DOMAIN c /\ m[k] = c[1]
         /\ 1 \in DOMAIN a => 1 \in DOMAIN m /\ m[1] = a[1]
         /\ 1 \in DOMAIN c => Len(m) \in DOMAIN m /\ m[Len(m)] = c[1]
<1> DEFINE ab == a \o b
           m == ab \o c
<1>1. /\ ab \in Seq(S) /\ Len(a) \in Nat /\ Len(b) \in Nat /\ Len(ab) = Len(a) + Len(b)
      /\ DOMAIN a = 1 .. Len(a) /\ DOMAIN b = 1 .. Len(b) /\ DOMAIN ab = 1 .. Len(ab)
      /\ \A k \in DOMAIN a : ab[k] = a[k]
      /\ \A k \in DOMAIN b : ab[Len(a) + k] = b[k]
  <2>1. ab \in Seq(S) /\ Len(a) \in Nat /\ Len(b) \in Nat /\ Len(ab) = Len(a) + Len(b)
    OBVIOUS
  <2>2. DOMAIN a = 1 .. Len(a) /\ DOMAIN b = 1 .. Len(b) /\ DOMAIN ab = 1 .. Len(ab)
    BY <2>1
  <2> QED BY <2>1, <2>2, Appended
<1>2. /\ Len(ab) \in Nat
      /\ \A k \in DOMAIN ab : \/ k = 1 /\ 1 \in DOMAIN a /\ ab[k] = a[1]
                              \/ 1 \in DOMAIN b /\ ab[k] = b[1]
      /\ 1 \in DOMAIN a => 1 \in DOMAIN ab /\ ab[1] = a[1]
  <2>1. \A k \in DOMAIN ab : k \in DOMAIN a \/ \E j \in DOMAIN b : k = Len(a) + j
    BY Appended
  <2>2. \A k \in DOMAIN a : k = 1
    BY <1>1
  <2>3. \A k \in DOMAIN b : k = 1
    BY <1>1
  <2> QED BY <1>1, <2>1, <2>2, <2>3
<1> HIDE DEF ab
<1>3. /\ m \in Seq(S) /\ Len(c) \in Nat /\ Len(m) = Len(ab) + Len(c)
  BY <1>1
<1>4. DOMAIN c = 1 .. Len(c) /\ DOMAIN m = 1 .. Len(m) /\ Len(m) \in Nat
  BY <1>2, <1>3
<1>5. /\ \A k \in DOMAIN ab : k \in DOMAIN m /\ m[k] = ab[k]
      /\ \A k \in DOMAIN c : m[Len(ab) + k] = c[k]
      /\ \A k \in DOMAIN m : k \in DOMAIN ab \/ \E j \in DOMAIN c : k = Len(ab) + j
  <2>1. ab \in Seq(S)
    BY <1>1
  <2>2. \A k \in DOMAIN ab : k \in DOMAIN (ab \o c) /\ (ab \o c)[k] = ab[k]
    BY <2>1, Appended
  <2>3. \A k \in DOMAIN c : (ab \o c)[Len(ab) + k] = c[k]
    BY <2>1, Appended
  <2>4. \A k \in DOMAIN (ab \o c) : k \in DOMAIN ab \/ \E j \in DOMAIN c : k = Len(ab) + j
    BY <2>1, Appended
  <2> QED BY <2>2, <2>3, <2>4
<1>6. \A k \in DOMAIN c : k = 1 /\ Len(m) = Len(ab) + 1
  BY <1>3, <1>4
<1>7. \A k \in DOMAIN m : \/ k = 1 /\ 1 \in DOMAIN a /\ m[k] = a[1]
                          \/ 1 \in DOMAIN b /\ m[k] = b[1]
                          \/ 1 \in DOMAIN c /\ m[k] = c[1]
  BY <1>2, <1>5, <1>6
<1>8. 1 \in DOMAIN a => 1 \in DOMAIN m /\ m[1] = a[1]
  BY <1>2, <1>5
<1>9. 1 \in DOMAIN c => Len(m) \in DOMAIN m /\ m[Len(m)] = c[1]
  BY <1>2, <1>4, <1>5, <1>6
<1> HIDE DEF m
<1>10. /\ m \in Seq(S) /\ Len(m) \in Nat /\ DOMAIN m = 1 .. Len(m)
       /\ \A k \in DOMAIN m : \/ k = 1 /\ 1 \in DOMAIN a /\ m[k] = a[1]
                              \/ 1 \in DOMAIN b /\ m[k] = b[1]
                              \/ 1 \in DOMAIN c /\ m[k] = c[1]
       /\ 1 \in DOMAIN a => 1 \in DOMAIN m /\ m[1] = a[1]
       /\ 1 \in DOMAIN c => Len(m) \in DOMAIN m /\ m[Len(m)] = c[1]
  BY <1>3, <1>4, <1>7, <1>8, <1>9
<1> QED BY <1>10 DEF m, ab

(* One event makes a list.                                                  *)
LEMMA OneEvent ==
  ASSUME NEW e \in Event
  PROVE  /\ <<e>> \in Seq(Event) /\ Len(<<e>>) = 1 /\ DOMAIN <<e>> = {1} /\ <<e>>[1] = e
         /\ << >> \in Seq(Event) /\ Len(<< >>) = 0 /\ DOMAIN << >> = {}
OBVIOUS

(* A task fails only in the course of an attempt.                           *)
LEMMA FailsInAttempt ==
  ASSUME Next, pc' = "failTask", pc' # pc
  PROVE  pc \in AttemptPcs /\ pc \notin {"release", "todo", "runEv", "result"}
<1> USE DEF AttemptPcs, HoldingPcs, UnclaimedPcs
<1>1. CASE RunMoves
  BY <1>1 DEF RunMoves, Enqueue, Start, Complete, FailRun, RetryRun, ResumeRun,
     OpenGate, PassGate, AskRun, GrantRun, DenyRun, RetryInPlace, RerunRun, AfterVerify,
     MoveRun, LostAnswer, engineVars
<1>2. CASE RunEvents
  BY <1>2 DEF RunEvents, EmitStarted, EmitCompleted, EmitFailed, EmitRetrying,
     EmitGate, EmitAsked, EmitRetryInPlace, EmitRun, Emit, LostAnswer, engineVars
<1>3. CASE TaskMoves
  BY <1>3 DEF TaskMoves, MoveClaimed, MoveRunning, AskTask, GrantTask, DenyTask,
     FailTask, MoveVerifying, RetryTask, RerunTask, FinishTask, MoveTask,
     LostAnswer, engineVars
<1>4. CASE TaskEvents
  BY <1>4 DEF TaskEvents, EmitClaimed, EmitReclaimed, EmitRunning, EmitGranted,
     EmitTaskFailed, EmitVerifying, EmitTaskCompleted, EmitTask, Emit, AfterVerify,
     LostAnswer, engineVars
<1>5. CASE ClaimSteps
  BY <1>5 DEF ClaimSteps, EmitTodo, Claim, FirstHeartbeat, SimulateReclaim,
     ReleaseFailed, ReleaseCompleted, GiveUp, Emit, LostAnswer, engineVars
<1>6. CASE LocalSteps
  BY <1>6 DEF LocalSteps, Plan, TakeBatch, NextTask, NothingReady, AttemptResult,
     NextAttempt, GateAnswered, GateTimeout, ExecutorAsks, ExecutorSucceeds,
     ExecutorFails, ExecutorReturns, AskAnswered, AskTimeout, Local
<1>7. CASE Environment
  BY <1>7 DEF Environment, HeartbeatLoop, Signal, LeaseLapse, RecoveryScan, RecoverClaim,
     ReconcileTerminal, Crash, engineVars
<1> QED BY <1>1, <1>2, <1>3, <1>4, <1>5, <1>6, <1>7, EngineSplit DEF Next

(* The claim of a completed attempt is released, and the attempt reports.   *)
LEMMA ReleaseEnds ==
  ASSUME Next, pc = "release"
  PROVE  pc' \in {"release", "result", "crashed"}
BY EngineSplit DEF Next, RunMoves, Enqueue, Start, Complete, FailRun, RetryRun, ResumeRun,
   OpenGate, PassGate, AskRun, GrantRun, DenyRun, RetryInPlace, RerunRun, MoveRun, RunEvents,
   EmitStarted, EmitCompleted, EmitFailed, EmitRetrying, EmitGate, EmitAsked,
   EmitRetryInPlace, EmitRun, Emit, TaskMoves, MoveClaimed, MoveRunning, AskTask, GrantTask,
   DenyTask, FailTask, MoveVerifying, RetryTask, RerunTask, FinishTask, MoveTask, TaskEvents,
   EmitClaimed, EmitReclaimed, EmitRunning, EmitGranted, EmitTaskFailed, EmitVerifying,
   EmitTaskCompleted, EmitTask, ClaimSteps, EmitTodo, Claim, FirstHeartbeat, SimulateReclaim,
   ReleaseFailed, ReleaseCompleted, GiveUp, LocalSteps, Plan, TakeBatch, NextTask,
   NothingReady, AttemptResult, NextAttempt, GateAnswered, GateTimeout, ExecutorAsks,
   ExecutorSucceeds, ExecutorFails, ExecutorReturns, AskAnswered, AskTimeout, Local,
   Environment, HeartbeatLoop, Signal, LeaseLapse, RecoveryScan, RecoverClaim,
   ReconcileTerminal, Crash, engineVars

(* The events of a step of the workflow are of this form.                   *)
LEMMA EmittedSpeaks ==
  ASSUME TypeOK, CurrentAttempt, Next
  PROVE  Speaks(Emitted)
<1>0. /\ NoTask \notin Task
      /\ pc \in AttemptPcs => cur[1] \in Task
      /\ ts \in TaskStatus
  BY WorkflowAssumption DEF TypeOK, CurrentAttempt, Attempt
<1>1. \A kind \in {"graph", "status", "todo", "retrying", "requested", "resolved"} :
        \A t \in Task \cup {NoTask} : \A s \in TaskStatus \cup {"none"} :
          /\ Entry(kind, t, s) \in Event
          /\ Entry(kind, t, s).kind = kind /\ Entry(kind, t, s).task = t
          /\ Entry(kind, t, s).status = s
  BY DEF Entry, Event
<1>2. << >> \in Seq(Event) /\ DOMAIN << >> = {}
  OBVIOUS
<1>3. CASE pc' \in {pc, "crashed"}
  <2>1. Emitted = << >>
    BY <1>3 DEF Emitted
  <2>2. ~EventDue /\ ~(pc = "release" /\ pc' = "result") /\ ~(pc = "started" /\ pc' \notin {pc, "crashed"})
    BY <1>3 DEF EventDue
  <2> QED BY <1>2, <2>1, <2>2 DEF Speaks
<1>4. ASSUME pc' \notin {pc, "crashed"}, pc \notin DOMAIN StatusAt,
             pc \notin {"release", "queue", "start", "crashed"}, NEW e \in Event, Emitted = <<e>>,
             e.kind \notin {"status", "todo"}, e.kind = "graph" => e.task = NoTask,
             pc = "started" => e.kind = "graph"
      PROVE  Speaks(Emitted)
  <2>1. Emitted \in Seq(Event) /\ Len(Emitted) = 1 /\ DOMAIN Emitted = {1} /\ Emitted[1] = e
    BY <1>4, OneEvent
  <2> QED BY <1>4, <2>1 DEF Speaks, EventDue
<1> SUFFICES ASSUME pc' \notin {pc, "crashed"} PROVE Speaks(Emitted)
  BY <1>3
<1> USE DEF AttemptPcs, HoldingPcs, UnclaimedPcs, RetryPcs
<1>5. CASE pc = "started"
  <2>1. Emitted = <<Entry("graph", NoTask, "none")>>
    BY <1>5 DEF Emitted, AnswerTaken
  <2> QED BY <1>0, <1>1, <1>4, <1>5, <2>1 DEF StatusAt
<1>6. CASE pc \in {"againEv", "retryEv"}
  <2>1. Emitted = <<Entry("retrying", cur[1], "none")>>
    BY <1>6 DEF Emitted, AnswerTaken
  <2> QED BY <1>0, <1>1, <1>4, <1>6, <2>1 DEF StatusAt
<1>7. CASE pc = "askEv"
  <2>1. Emitted = <<Entry("requested", cur[1], "none")>>
    BY <1>7 DEF Emitted, AnswerTaken
  <2> QED BY <1>0, <1>1, <1>4, <1>7, <2>1 DEF StatusAt
<1>8. CASE AnswerTaken
  <2>1. pc \in {"gateWait", "askWait"}
    BY <1>8 DEF AnswerTaken
  <2>2. Emitted = <<Entry("resolved", cur[1], "none")>>
    BY <1>8, <2>1 DEF Emitted
  <2> QED BY <1>0, <1>1, <1>4, <2>1, <2>2 DEF StatusAt
<1>9. CASE pc \notin {"started", "againEv", "retryEv", "askEv"} /\ ~AnswerTaken
  <2> DEFINE a == StatusPart
             b == TodoPart
             c == GraphPart
             m == a \o b \o c
  <2>1. Emitted = m
    BY <1>9 DEF Emitted, StatusPart, TodoPart, GraphPart
  <2>2. /\ a \in Seq(Event) /\ Len(a) <= 1
        /\ 1 \in DOMAIN a <=> pc \in DOMAIN StatusAt
        /\ 1 \in DOMAIN a => a[1] = Entry("status", cur[1], StatusAt[pc])
        /\ 1 \notin DOMAIN a => a = << >>
    <3>1. CASE pc \in DOMAIN StatusAt
      <4>1. cur[1] \in Task /\ StatusAt[pc] \in TaskStatus
        BY <1>0, <3>1 DEF StatusAt, TaskStatus
      <4>2. Entry("status", cur[1], StatusAt[pc]) \in Event
        BY <1>1, <4>1
      <4> QED BY <3>1, <4>2, OneEvent DEF StatusPart
    <3>2. CASE pc \notin DOMAIN StatusAt
      BY <1>2, <3>2 DEF StatusPart
    <3> QED BY <3>1, <3>2
  <2>3. /\ c \in Seq(Event) /\ Len(c) <= 1
        /\ 1 \in DOMAIN c <=> pc = "dispatch" /\ pc' = "verify"
        /\ 1 \in DOMAIN c => c[1] = Entry("graph", cur[1], ts)
        /\ 1 \notin DOMAIN c => c = << >>
    <3>1. CASE pc = "dispatch" /\ pc' = "verify"
      <4>1. Entry("graph", cur[1], ts) \in Event
        BY <1>0, <1>1, <3>1
      <4> QED BY <3>1, <4>1, OneEvent DEF GraphPart, Graph
    <3>2. CASE ~(pc = "dispatch" /\ pc' = "verify")
      BY <1>2, <3>2 DEF GraphPart
    <3> QED BY <3>1, <3>2
  <2>4. pc \in {"queue", "start", "crashed", "release"} => pc' # "failTask"
    BY FailsInAttempt
  <2>5. /\ b \in Seq(Event) /\ Len(b) <= 1
        /\ 1 \in DOMAIN b => /\ pc \in AttemptPcs \ {"result"}
                             /\ b[1].kind = "todo" /\ b[1].task = cur[1]
        /\ pc = "release" => b = <<Entry("todo", cur[1], "completed")>>
        /\ pc \in {"queue", "start", "crashed"} => b = << >>
    <3>1. CASE b = << >>
      <4>1. pc # "release"
        BY <2>4, <2>3, <3>1, OneEvent DEF TodoPart, Todo
      <4> QED BY <1>2, <3>1, <4>1
    <3>2. CASE b # << >>
      <4>1. pc \in AttemptPcs \ {"result"}
        BY <2>3, <3>2, FailsInAttempt DEF TodoPart
      <4>2. PICK s \in {"failed", "running", "completed"} : b = <<Entry("todo", cur[1], s)>>
        BY <3>2 DEF TodoPart, Todo
      <4>3. Entry("todo", cur[1], s) \in Event
        BY <1>0, <1>1, <4>1 DEF TaskStatus
      <4>4. pc = "release" => b = <<Entry("todo", cur[1], "completed")>>
        BY <2>3, <2>4 DEF TodoPart, Todo
      <4>5. pc \notin {"queue", "start", "crashed"}
        BY <4>1
      <4>6. b[1] = Entry("todo", cur[1], s)
        BY <4>2
      <4> QED BY <1>0, <1>1, <4>1, <4>2, <4>3, <4>4, <4>5, <4>6, OneEvent DEF TaskStatus
    <3> QED BY <3>1, <3>2
  <2> HIDE DEF a, b, c
  <2>6. /\ m \in Seq(Event) /\ Len(m) \in Nat /\ DOMAIN m = 1 .. Len(m)
        /\ \A k \in DOMAIN m : \/ k = 1 /\ 1 \in DOMAIN a /\ m[k] = a[1]
                               \/ 1 \in DOMAIN b /\ m[k] = b[1]
                               \/ 1 \in DOMAIN c /\ m[k] = c[1]
        /\ 1 \in DOMAIN a => 1 \in DOMAIN m /\ m[1] = a[1]
        /\ 1 \in DOMAIN c => Len(m) \in DOMAIN m /\ m[Len(m)] = c[1]
    BY <2>2, <2>3, <2>5, ShortLists
  <2>7. pc = "release" => m = <<Entry("todo", cur[1], "completed")>>
    <3>1. pc = "release" => a = << >> /\ c = << >>
      BY <2>2, <2>3 DEF StatusAt
    <3>2. << >> \o b = b /\ b \o << >> = b
      BY <2>5
    <3> QED BY <2>5, <3>1, <3>2
  <2>8. pc \in {"queue", "start", "crashed"} => m = << >>
    BY <2>2, <2>3, <2>5 DEF StatusAt
  <2>9. 1 \in DOMAIN a => a[1].kind = "status"
    BY <2>2 DEF Entry
  <2>10. 1 \in DOMAIN c => c[1].kind = "graph" /\ c[1].task = cur[1]
    BY <2>3 DEF Entry
  <2>11. pc = "release" => pc' = "result"
    BY ReleaseEnds
  <2> HIDE DEF m
  <2>12. Speaks(m)
    BY <1>9, <2>2, <2>3, <2>5, <2>6, <2>7, <2>8, <2>9, <2>10, <2>11 DEF Speaks, EventDue
  <2> QED BY <2>1, <2>12
<1> QED BY <1>5, <1>6, <1>7, <1>8, <1>9

-----------------------------------------------------------------------------
(* How the workflow moves                                                   *)

(* The workflow takes a task from the sorter or repeats the one it has.     *)
LEMMA CurrentMoves ==
  ASSUME CurrentAttempt, [Next]_vars
  PROVE  \/ cur' = cur
         \/ pc = "select" /\ pc' = "todo" /\ \E t \in batch : cur' = <<t, 1>>
         \/ pc = "next" /\ pc' = "todo" /\ cur \in Attempt /\ cur'[1] = cur[1]
<1> USE DEF CurrentAttempt, AttemptPcs, RetryPcs
<1>1. CASE RunMoves
  BY <1>1 DEF RunMoves, Enqueue, Start, Complete, FailRun, RetryRun, ResumeRun, OpenGate,
     PassGate, AskRun, GrantRun, DenyRun, RetryInPlace, RerunRun, AfterVerify, MoveRun,
     LostAnswer, engineVars, attemptVars, planVars
<1>2. CASE RunEvents
  BY <1>2 DEF RunEvents, EmitStarted, EmitCompleted, EmitFailed, EmitRetrying, EmitGate,
     EmitAsked, EmitRetryInPlace, EmitRun, Emit, LostAnswer, engineVars, attemptVars,
     planVars
<1>3. CASE TaskMoves
  BY <1>3 DEF TaskMoves, MoveClaimed, MoveRunning, AskTask, GrantTask, DenyTask, FailTask,
     MoveVerifying, RetryTask, RerunTask, FinishTask, MoveTask, LostAnswer, engineVars,
     attemptVars, planVars
<1>4. CASE TaskEvents
  BY <1>4 DEF TaskEvents, EmitClaimed, EmitReclaimed, EmitRunning, EmitGranted,
     EmitTaskFailed, EmitVerifying, EmitTaskCompleted, EmitTask, Emit, AfterVerify,
     LostAnswer, engineVars, attemptVars, planVars
<1>5. CASE ClaimSteps
  BY <1>5 DEF ClaimSteps, EmitTodo, Claim, FirstHeartbeat, SimulateReclaim, ReleaseFailed,
     ReleaseCompleted, GiveUp, Emit, LostAnswer, engineVars, attemptVars, planVars
<1>6. CASE LocalSteps
  BY <1>6 DEF LocalSteps, Plan, TakeBatch, NextTask, NothingReady, AttemptResult, Retryable,
     NextAttempt, GateAnswered, GateTimeout, ExecutorAsks, ExecutorSucceeds, ExecutorFails,
     ExecutorReturns, AskAnswered, AskTimeout, Local, attemptVars, planVars
<1>7. CASE Environment \/ UNCHANGED vars
  BY <1>7 DEF Environment, HeartbeatLoop, Signal, LeaseLapse, RecoveryScan, RecoverClaim,
     ReconcileTerminal, Crash, vars, engineVars, attemptVars, planVars
<1> QED BY <1>1, <1>2, <1>3, <1>4, <1>5, <1>6, <1>7, EngineSplit DEF Next

(* Where it can come from.                                                  *)
LEMMA PcMoves ==
  ASSUME CurrentAttempt, OpenUntilClosing, [Next]_vars
  PROVE  /\ pc' \in PlanningPcs
              => pc \in PlanningPcs \/ (ReportsCompleted /\ finished' = finished \cup {cur[1]})
         /\ pc' \in BeginningPcs => pc \in BeginningPcs
         /\ pc \in {"queue", "start"} => pc' \in BeginningPcs \cup {"crashed"}
         /\ pc = "started" => pc' = pc \/ pc' \notin BeginningPcs
         /\ pc = "finishEv" => pc' \in {pc, "release", "crashed"}
         /\ pc = "crashed" => pc' = "crashed"
         /\ pc' \in SpokenPcs => pc \in SpokenPcs \cup {"claimedEv"}
<1> USE DEF PlanningPcs, BeginningPcs, SpokenPcs, HoldingPcs, ReportsCompleted
<1>1. CASE RunMoves
  BY <1>1 DEF RunMoves, Enqueue, Start, Complete, FailRun, RetryRun, ResumeRun, OpenGate,
     PassGate, AskRun, GrantRun, DenyRun, RetryInPlace, RerunRun, AfterVerify, MoveRun,
     LostAnswer, engineVars, attemptVars, planVars
<1>2. CASE RunEvents
  BY <1>2 DEF RunEvents, EmitStarted, EmitCompleted, EmitFailed, EmitRetrying, EmitGate,
     EmitAsked, EmitRetryInPlace, EmitRun, Emit, LostAnswer, engineVars, attemptVars,
     planVars
<1>3. CASE TaskMoves
  BY <1>3 DEF TaskMoves, MoveClaimed, MoveRunning, AskTask, GrantTask, DenyTask, FailTask,
     MoveVerifying, RetryTask, RerunTask, FinishTask, MoveTask, LostAnswer, engineVars,
     attemptVars, planVars
<1>4. CASE TaskEvents
  BY <1>4 DEF TaskEvents, EmitClaimed, EmitReclaimed, EmitRunning, EmitGranted,
     EmitTaskFailed, EmitVerifying, EmitTaskCompleted, EmitTask, Emit, AfterVerify,
     LostAnswer, engineVars, attemptVars, planVars
<1>5. CASE ClaimSteps
  BY <1>5 DEF ClaimSteps, EmitTodo, Claim, FirstHeartbeat, SimulateReclaim, ReleaseFailed,
     ReleaseCompleted, GiveUp, Emit, LostAnswer, engineVars, attemptVars, planVars
<1>6. CASE LocalSteps
  BY <1>6 DEF LocalSteps, Plan, TakeBatch, NextTask, NothingReady, AttemptResult, Retryable,
     NextAttempt, GateAnswered, GateTimeout, ExecutorAsks, ExecutorSucceeds, ExecutorFails,
     ExecutorReturns, AskAnswered, AskTimeout, Local, attemptVars, planVars
<1>7. CASE Environment \/ UNCHANGED vars
  BY <1>7 DEF Environment, HeartbeatLoop, Signal, LeaseLapse, RecoveryScan, RecoverClaim,
     ReconcileTerminal, Crash, vars, engineVars, attemptVars, planVars
<1> QED BY <1>1, <1>2, <1>3, <1>4, <1>5, <1>6, <1>7, EngineSplit DEF Next

(* An attempt that reports completed has released its claim, and its task   *)
(* is finished with the report.                                             *)
LEMMA ReportMoves ==
  ASSUME CurrentAttempt, OpenUntilClosing, [Next]_vars
  PROVE  /\ ReportsCompleted'
              => pc = "release" \/ (ReportsCompleted /\ pc' = pc)
         /\ ReportsCompleted
              => ReportsCompleted' \/ pc' = "crashed" \/ finished' = finished \cup {cur[1]}
         /\ pc = "release" => pc' \in {"release", "crashed"} \/ ReportsCompleted'
<1> USE DEF ReportsCompleted, OpenUntilClosing, HoldingPcs, UnclaimedPcs
<1>1. CASE RunMoves
  BY <1>1 DEF RunMoves, Enqueue, Start, Complete, FailRun, RetryRun, ResumeRun, OpenGate,
     PassGate, AskRun, GrantRun, DenyRun, RetryInPlace, RerunRun, AfterVerify, MoveRun,
     LostAnswer, engineVars, attemptVars, planVars
<1>2. CASE RunEvents
  BY <1>2 DEF RunEvents, EmitStarted, EmitCompleted, EmitFailed, EmitRetrying, EmitGate,
     EmitAsked, EmitRetryInPlace, EmitRun, Emit, LostAnswer, engineVars, attemptVars,
     planVars
<1>3. CASE TaskMoves
  BY <1>3 DEF TaskMoves, MoveClaimed, MoveRunning, AskTask, GrantTask, DenyTask, FailTask,
     MoveVerifying, RetryTask, RerunTask, FinishTask, MoveTask, LostAnswer, engineVars,
     attemptVars, planVars
<1>4. CASE TaskEvents
  BY <1>4 DEF TaskEvents, EmitClaimed, EmitReclaimed, EmitRunning, EmitGranted,
     EmitTaskFailed, EmitVerifying, EmitTaskCompleted, EmitTask, Emit, AfterVerify,
     LostAnswer, engineVars, attemptVars, planVars
<1>5. CASE ClaimSteps
  BY <1>5 DEF ClaimSteps, EmitTodo, Claim, FirstHeartbeat, SimulateReclaim, ReleaseFailed,
     ReleaseCompleted, GiveUp, Emit, LostAnswer, engineVars, attemptVars, planVars
<1>6. CASE LocalSteps
  BY <1>6 DEF LocalSteps, Plan, TakeBatch, NextTask, NothingReady, AttemptResult, Retryable,
     NextAttempt, GateAnswered, GateTimeout, ExecutorAsks, ExecutorSucceeds, ExecutorFails,
     ExecutorReturns, AskAnswered, AskTimeout, Local, attemptVars, planVars
<1>7. CASE Environment \/ UNCHANGED vars
  BY <1>7 DEF Environment, HeartbeatLoop, Signal, LeaseLapse, RecoveryScan, RecoverClaim,
     ReconcileTerminal, Crash, vars, engineVars, attemptVars, planVars
<1> QED BY <1>1, <1>2, <1>3, <1>4, <1>5, <1>6, <1>7, EngineSplit DEF Next

(* The row and the events of an attempt agree again with its last event.    *)
LEMMA SyncMoves ==
  ASSUME TypeOK, CurrentAttempt, [Next]_vars, pc' \in SyncedPcs
  PROVE  \/ pc \in SyncedPcs \cup PlanningPcs
         \/ /\ pc \in {"failEv", "reclaimEv", "finishEv"} /\ EventDue
            /\ task'[cur[1]] = StatusAt[pc]
<1>0. task \in [Task -> TaskStatus] /\ (pc \in AttemptPcs => cur[1] \in Task)
  BY DEF TypeOK, StoreTypeOK, CurrentAttempt, Attempt
<1> USE DEF SyncedPcs, PlanningPcs, RetryPcs, AttemptPcs, HoldingPcs, UnclaimedPcs, EventDue, StatusAt
<1>1. CASE RunMoves
  BY <1>0, <1>1 DEF RunMoves, Enqueue, Start, Complete, FailRun, RetryRun, ResumeRun,
     OpenGate, PassGate, AskRun, GrantRun, DenyRun, RetryInPlace, RerunRun, AfterVerify,
     MoveRun, LostAnswer, engineVars, attemptVars, planVars, TaskEvent
<1>2. CASE RunEvents
  BY <1>0, <1>2 DEF RunEvents, EmitStarted, EmitCompleted, EmitFailed, EmitRetrying,
     EmitGate, EmitAsked, EmitRetryInPlace, EmitRun, Emit, LostAnswer, engineVars,
     attemptVars, planVars, TaskEvent
<1>3. CASE TaskMoves
  BY <1>0, <1>3 DEF TaskMoves, MoveClaimed, MoveRunning, AskTask, GrantTask, DenyTask,
     FailTask, MoveVerifying, RetryTask, RerunTask, FinishTask, MoveTask, LostAnswer,
     engineVars, attemptVars, planVars, TaskEvent
<1>4. CASE TaskEvents
  BY <1>0, <1>4 DEF TaskEvents, EmitClaimed, EmitReclaimed, EmitRunning, EmitGranted,
     EmitTaskFailed, EmitVerifying, EmitTaskCompleted, EmitTask, Emit, AfterVerify,
     LostAnswer, engineVars, attemptVars, planVars, TaskEvent
<1>5. CASE ClaimSteps
  BY <1>0, <1>5 DEF ClaimSteps, EmitTodo, Claim, FirstHeartbeat, SimulateReclaim,
     ReleaseFailed, ReleaseCompleted, GiveUp, Emit, LostAnswer, engineVars, attemptVars,
     planVars, TaskEvent
<1>6. CASE LocalSteps
  BY <1>0, <1>6 DEF LocalSteps, Plan, TakeBatch, NextTask, NothingReady, AttemptResult,
     Retryable, NextAttempt, GateAnswered, GateTimeout, ExecutorAsks, ExecutorSucceeds,
     ExecutorFails, ExecutorReturns, AskAnswered, AskTimeout, Local, attemptVars, planVars,
     TaskEvent
<1>7. CASE Environment \/ UNCHANGED vars
  BY <1>0, <1>7 DEF Environment, HeartbeatLoop, Signal, LeaseLapse, RecoveryScan,
     RecoverClaim, ReconcileTerminal, Crash, vars, engineVars, attemptVars, planVars,
     TaskEvent
<1> QED BY <1>1, <1>2, <1>3, <1>4, <1>5, <1>6, <1>7, EngineSplit DEF Next

(* A row changes with its attempt, or the closing of the run takes it out   *)
(* of flight.                                                               *)
LEMMA RowMoves ==
  ASSUME NoRecovery, IInv, ScansForRecovery, [Next]_vars, NEW t \in Task
  PROVE  \/ task'[t] = task[t]
         \/ task[t] \in Inflight /\ task'[t] \in ClosedRow
         \/ t = cur[1] /\ pc \in AttemptPcs \ SyncedPcs
<1>0. /\ TypeOK /\ NoOrphanClaim /\ scan = {}
      /\ task \in [Task -> TaskStatus] /\ (pc \in AttemptPcs => cur \in Attempt)
  BY DEF NoRecovery, IInv, ScansForRecovery, TypeOK, StoreTypeOK, CurrentAttempt
<1>a. \A status : WriteRun(status)
        => task'[t] = task[t] \/ (task[t] \in Inflight /\ task'[t] \in ClosedRow)
  BY DEF WriteRun, Finalize, ClosedAs, ClosedRow
<1>b. \A a \in Attempt : \A status : TransitionTask(a, status) \/ TaskEvent(a, status) \/ ClaimTask(a)
        => task'[t] = task[t] \/ t = a[1]
  BY <1>0 DEF TransitionTask, TaskEvent, ClaimTask
<1> USE DEF AttemptPcs, SyncedPcs, RetryPcs, HoldingPcs, UnclaimedPcs
<1>1. CASE RunMoves
  BY <1>1, <1>a DEF RunMoves, Enqueue, Start, Complete, FailRun, RetryRun, ResumeRun,
     OpenGate, PassGate, AskRun, GrantRun, DenyRun, RetryInPlace, RerunRun, MoveRun
<1>2. CASE RunEvents
  BY <1>2, <1>a DEF RunEvents, EmitStarted, EmitCompleted, EmitFailed, EmitRetrying,
     EmitGate, EmitAsked, EmitRetryInPlace, EmitRun, Emit
<1>3. CASE TaskMoves
  BY <1>0, <1>3, <1>b DEF TaskMoves, MoveClaimed, MoveRunning, AskTask, GrantTask, DenyTask,
     FailTask, MoveVerifying, RetryTask, RerunTask, FinishTask, MoveTask
<1>4. CASE TaskEvents
  BY <1>0, <1>4, <1>b DEF TaskEvents, EmitClaimed, EmitReclaimed, EmitRunning, EmitGranted,
     EmitTaskFailed, EmitVerifying, EmitTaskCompleted, EmitTask, Emit
<1>5. CASE ClaimSteps
  <2>1. CASE Claim
    BY <1>0, <1>b, <2>1 DEF Claim, Emit
  <2>2. CASE SimulateReclaim
    <3>1. Reclaimable({cur}) \subseteq {cur}
      BY <1>0, <2>2 DEF SimulateReclaim, NoOrphanClaim, Reclaimable
    <3> QED BY <2>2, <3>1 DEF SimulateReclaim, ReclaimStale
  <2>3. CASE EmitTodo \/ FirstHeartbeat \/ ReleaseFailed \/ ReleaseCompleted
    BY <2>3 DEF EmitTodo, Emit, TouchAttempt, FirstHeartbeat, Heartbeat, ReleaseFailed,
       ReleaseCompleted, GiveUp, Release
  <2> QED BY <1>5, <2>1, <2>2, <2>3 DEF ClaimSteps
<1>6. CASE LocalSteps
  BY <1>6 DEF LocalSteps, Plan, TakeBatch, NextTask, NothingReady, AttemptResult,
     NextAttempt, GateAnswered, GateTimeout, ExecutorAsks, ExecutorSucceeds,
     ExecutorFails, ExecutorReturns, AskAnswered, AskTimeout, Local, storeVars
<1>7. CASE Environment \/ UNCHANGED vars
  BY <1>0, <1>7 DEF NoRecovery, Environment, HeartbeatLoop, Heartbeat, Signal, LeaseLapse,
     Lapse, RecoveryScan, RecoverClaim, ReconcileTerminal, Crash, vars, storeVars
<1> QED BY <1>1, <1>2, <1>3, <1>4, <1>5, <1>6, <1>7, EngineSplit DEF Next

(* A row becomes completed with the attempt of its task, whoever else       *)
(* writes it.                                                               *)
LEMMA CompletionMoves ==
  ASSUME TypeOK, CurrentAttempt, [Next]_vars, NEW t \in Task, task'[t] = "completed"
  PROVE  task[t] = "completed" \/ pc \in AttemptPcs
<1>0. task \in [Task -> TaskStatus]
  BY DEF TypeOK, StoreTypeOK
<1>a. \A status : WriteRun(status) => task'[t] = task[t] \/ task'[t] \in ClosedRow
  BY DEF WriteRun, Finalize, ClosedAs, ClosedRow
<1>b. \A forced : ReclaimStale(forced) => task'[t] = task[t] \/ task'[t] = "reclaimed"
  BY <1>0 DEF ReclaimStale
<1>c. Reconcile => task'[t] = task[t] \/ task'[t] \in ClosedRow
  BY DEF Reconcile, Finalize, ClosedAs, ClosedRow
<1> USE DEF AttemptPcs, HoldingPcs, UnclaimedPcs
<1>1. CASE RunMoves
  BY <1>1, <1>a DEF RunMoves, Enqueue, Start, Complete, FailRun, RetryRun, ResumeRun,
     OpenGate, PassGate, AskRun, GrantRun, DenyRun, RetryInPlace, RerunRun, MoveRun, ClosedRow
<1>2. CASE RunEvents
  BY <1>2, <1>a DEF RunEvents, EmitStarted, EmitCompleted, EmitFailed, EmitRetrying,
     EmitGate, EmitAsked, EmitRetryInPlace, EmitRun, Emit, ClosedRow
<1>3. CASE TaskMoves
  BY <1>3 DEF TaskMoves, MoveClaimed, MoveRunning, AskTask, GrantTask, DenyTask,
     FailTask, MoveVerifying, RetryTask, RerunTask, FinishTask, MoveTask
<1>4. CASE TaskEvents
  BY <1>4 DEF TaskEvents, EmitClaimed, EmitReclaimed, EmitRunning, EmitGranted,
     EmitTaskFailed, EmitVerifying, EmitTaskCompleted, EmitTask, Emit
<1>5. CASE ClaimSteps
  BY <1>5 DEF ClaimSteps, EmitTodo, Emit, Claim, FirstHeartbeat, SimulateReclaim,
     ReleaseFailed, ReleaseCompleted, GiveUp
<1>6. CASE LocalSteps
  BY <1>6 DEF LocalSteps, Plan, TakeBatch, NextTask, NothingReady, AttemptResult,
     NextAttempt, GateAnswered, GateTimeout, ExecutorAsks, ExecutorSucceeds,
     ExecutorFails, ExecutorReturns, AskAnswered, AskTimeout, Local, storeVars
<1>7. CASE Environment \/ UNCHANGED vars
  BY <1>0, <1>7, <1>b, <1>c DEF Environment, HeartbeatLoop, Heartbeat, Signal, LeaseLapse,
     Lapse, RecoveryScan, RecoverClaim, ReconcileTerminal, Crash, vars, storeVars, ClosedRow
<1> QED BY <1>1, <1>2, <1>3, <1>4, <1>5, <1>6, <1>7, EngineSplit DEF Next

-----------------------------------------------------------------------------
(* The log of a run                                                         *)

(* The workflow under the read models is the workflow of WorkflowRun: its   *)
(* log, the graphs of its attempts and its notification add no step to it.  *)
THEOREM ReadModelsRun == ReadSpec => Spec
<1>1. ReadInit => Init
  BY DEF ReadInit
<1>2. [ReadNext]_readVars => [Next]_vars
  BY DEF ReadNext, readVars, WorkflowStep, RunStep, GraphActivity, NotificationActivity
<1> QED BY <1>1, <1>2, PTL DEF ReadSpec, Spec

(* Whatever a step is, it appends events of the form above.                 *)
LEMMA LogStep ==
  ASSUME TypeOK, CurrentAttempt, log \in Seq(Event), [ReadNext]_readVars
  PROVE  \E m : Speaks(m) /\ log' = log \o m
<1>1. << >> \in Seq(Event) /\ DOMAIN << >> = {} /\ log \o << >> = log
  OBVIOUS
<1>2. CASE WorkflowStep
  <2>1. Next
    BY <1>2 DEF WorkflowStep, RunStep
  <2>2. CASE log' = log \o Emitted
    BY <2>1, <2>2, EmittedSpeaks
  <2>3. CASE pc = "dispatch" /\ pc' = "failTask" /\ UNCHANGED log
    <3>1. Speaks(<< >>)
      BY <1>1, <2>3 DEF Speaks, EventDue, StatusAt
    <3> QED BY <1>1, <2>3, <3>1
  <2> QED BY <1>2, <2>2, <2>3 DEF WorkflowStep
<1>3. CASE pc' = pc /\ log' = log
  <2>1. Speaks(<< >>)
    BY <1>1, <1>3 DEF Speaks, EventDue
  <2> QED BY <1>1, <1>3, <2>1
<1>4. CASE GraphActivity /\ log' # log
  <2> DEFINE todo == Entry("todo", cur[1], "running")
             graph == Entry("graph", cur[1], ts)
             m == <<todo>> \o <<graph>>
  <2>1. pc = "verify" /\ pc' = pc /\ log' = log \o Todo("running") \o Graph
    BY <1>4 DEF GraphActivity, GraphStep, Invoke, PrepareNode, FinalizeNode, SaveCheckpoint,
       AnswerInterrupted, AnswerCompleted, LoadCheckpoint, MarkResumed, Resume, Cut, Walk,
       AtGraph, vars, engineVars
  <2>2. cur[1] \in Task /\ ts \in TaskStatus
    BY <2>1 DEF TypeOK, CurrentAttempt, Attempt, AttemptPcs, HoldingPcs
  <2>3. todo \in Event /\ todo.kind = "todo" /\ todo.task = cur[1]
    BY <2>2 DEF Entry, Event, TaskStatus
  <2>4. graph \in Event /\ graph.kind = "graph" /\ graph.task = cur[1]
    BY <2>2 DEF Entry, Event
  <2>5. Todo("running") = <<todo>> /\ Graph = <<graph>>
    BY DEF Todo, Graph
  <2> HIDE DEF todo, graph
  <2>6. /\ <<todo>> \in Seq(Event) /\ Len(<<todo>>) = 1 /\ <<todo>>[1] = todo
        /\ <<graph>> \in Seq(Event) /\ Len(<<graph>>) = 1 /\ <<graph>>[1] = graph
    BY <2>3, <2>4, OneEvent
  <2>7. log' = log \o m
    <3>1. (log \o <<todo>>) \o <<graph>> = log \o (<<todo>> \o <<graph>>)
      BY <2>6, ConcatAssociative
    <3> QED BY <2>1, <2>5, <2>6, <3>1
  <2>8. /\ m \in Seq(Event) /\ Len(m) = 2 /\ DOMAIN m = {1, 2}
        /\ m[1] = todo /\ m[2] = graph
    <3>1. m \in Seq(Event) /\ Len(m) = 2
      BY <2>6
    <3>2. DOMAIN m = {1, 2}
      BY <3>1
    <3>3. m[1] = todo /\ m[2] = graph
      BY <2>6
    <3> QED BY <3>1, <3>2, <3>3
  <2> HIDE DEF m
  <2>9. Speaks(m)
    BY <2>1, <2>3, <2>4, <2>8 DEF Speaks, EventDue, AttemptPcs, HoldingPcs
  <2> QED BY <2>7, <2>9
<1>5. ReadNext \/ UNCHANGED readVars => WorkflowStep \/ (GraphActivity /\ log' # log) \/ (pc' = pc /\ log' = log)
  BY DEF ReadNext, readVars, GraphActivity, NotificationActivity, vars, engineVars
<1> QED BY <1>2, <1>3, <1>4, <1>5

-----------------------------------------------------------------------------
(* The graph follows the rows                                               *)

(* A task that is neither finished nor being executed has been left alone;  *)
(* only the task being executed is spoken of.                               *)
LEMMA QuietTasks ==
  ASSUME CurrentAttempt, CurrentIsReady, log \in Seq(Event),
         NEW m, Speaks(m), log' = log \o m, NEW t \in Task
  PROVE  /\ EventDue => pc \in AttemptPcs /\ cur[1] \notin finished /\ Taken(cur[1])
         /\ EventDue => Says(log', "status", cur[1], StatusAt[pc])
         /\ ~(EventDue /\ t = cur[1])
              => /\ About(log', "status", t) = About(log, "status", t)
                 /\ \A s : Says(log, "status", t, s) <=> Says(log', "status", t, s)
         /\ t \in finished \/ pc \notin AttemptPcs \/ pc = "result"
              => \A s : Says(log, "todo", t, s) <=> Says(log', "todo", t, s)
         /\ pc = "release" /\ pc' = "result" => Says(log', "todo", cur[1], "completed")
<1>1. EventDue => pc \in AttemptPcs /\ cur[1] \notin finished /\ Taken(cur[1])
  <2> SUFFICES ASSUME EventDue PROVE pc \in AttemptPcs /\ cur[1] \notin finished /\ Taken(cur[1])
    OBVIOUS
  <2>1. pc \in AttemptPcs /\ pc \notin PlanningPcs
    BY DEF EventDue, StatusAt, AttemptPcs, HoldingPcs, UnclaimedPcs, PlanningPcs
  <2>2. cur \in Attempt /\ cur # NoAttempt
    BY <2>1, WorkflowAssumption DEF CurrentAttempt
  <2> QED BY <2>1, <2>2 DEF Taken, CurrentIsReady
<1>2. m \in Seq(Event)
  BY DEF Speaks
<1>3. EventDue => Says(log', "status", cur[1], StatusAt[pc])
  <2> SUFFICES ASSUME EventDue PROVE Says(log \o m, "status", cur[1], StatusAt[pc])
    OBVIOUS
  <2>1. 1 \in DOMAIN m /\ m[1].kind = "status" /\ m[1].task = cur[1] /\ m[1].status = StatusAt[pc]
    BY DEF Speaks, Entry
  <2>2. \A k \in DOMAIN m : m[k].kind = "status" /\ m[k].task = cur[1] => k <= 1
    BY DEF Speaks
  <2> QED BY <1>2, <2>1, <2>2, LastEvent
<1>4. ASSUME ~(EventDue /\ t = cur[1])
      PROVE  /\ About(log', "status", t) = About(log, "status", t)
             /\ \A s : Says(log, "status", t, s) <=> Says(log', "status", t, s)
  <2>1. \A k \in DOMAIN m : ~(m[k].kind = "status" /\ m[k].task = t)
    BY <1>4 DEF Speaks, Entry
  <2>2. /\ About(log \o m, "status", t) = About(log, "status", t)
        /\ \A s : Says(log, "status", t, s) <=> Says(log \o m, "status", t, s)
    BY <1>2, <2>1, QuietEvents
  <2> QED BY <2>2
<1>5. ASSUME t \in finished \/ pc \notin AttemptPcs \/ pc = "result"
      PROVE  \A s : Says(log, "todo", t, s) <=> Says(log', "todo", t, s)
  <2>1. \A k \in DOMAIN m : ~(m[k].kind = "todo" /\ m[k].task = t)
    BY <1>5 DEF Speaks, CurrentIsReady
  <2>2. \A s : Says(log, "todo", t, s) <=> Says(log \o m, "todo", t, s)
    BY <1>2, <2>1, QuietEvents
  <2> QED BY <2>2
<1>6. ASSUME pc = "release", pc' = "result" PROVE Says(log', "todo", cur[1], "completed")
  <2> DEFINE e == Entry("todo", cur[1], "completed")
  <2>1. m = <<e>> /\ e.kind = "todo" /\ e.task = cur[1] /\ e.status = "completed"
    BY <1>6 DEF Speaks, Entry
  <2> HIDE DEF e
  <2>2. DOMAIN m = {1} /\ m[1] = e
    BY <2>1
  <2>3. 1 \in DOMAIN m /\ \A k \in DOMAIN m : k <= 1
    BY <2>2
  <2>4. m[1].kind = "todo" /\ m[1].task = cur[1] /\ m[1].status = "completed"
    BY <2>1, <2>2
  <2>5. Says(log \o m, "todo", cur[1], "completed")
    BY <1>2, <2>3, <2>4, LastEvent
  <2> QED BY <2>5
<1> QED BY <1>1, <1>3, <1>4, <1>5, <1>6

(* Where an attempt goes on, it is still taken; one that is not taken any   *)
(* more has finished its task.                                              *)
LEMMA TakenStays ==
  ASSUME CurrentAttempt, CurrentAttempt', OpenUntilClosing, [Next]_vars, NEW t, Taken(t)
  PROVE  Taken(t)' \/ t \in finished'
<1>1. pc' \in PlanningPcs => t \in finished'
  BY PcMoves DEF Taken
<1>2. CASE cur' = cur
  BY <1>1, <1>2 DEF Taken
<1>3. CASE pc = "next" /\ pc' = "todo" /\ cur'[1] = cur[1]
  <2>1. cur' \in Attempt
    BY <1>3 DEF CurrentAttempt, AttemptPcs, UnclaimedPcs
  <2> QED BY <1>3, <2>1, WorkflowAssumption DEF Taken, PlanningPcs
<1>4. pc # "select"
  BY DEF Taken, PlanningPcs
<1> QED BY <1>2, <1>3, <1>4, CurrentMoves

(* What is logged first is a graph, and the latest one stays in reach.      *)
LEMMA LogBeginsStep ==
  ASSUME IInv, LogBegins, log \in Seq(Event), [Next]_vars,
         NEW m, Speaks(m), log' = log \o m
  PROVE  LogBegins'
<1>1. /\ m \in Seq(Event) /\ TypeOK /\ CurrentAttempt /\ OpenUntilClosing
      /\ pc \in BeginningPcs \cup {"crashed"} => pc \notin AttemptPcs
  BY DEF Speaks, IInv, BeginningPcs, AttemptPcs, HoldingPcs, UnclaimedPcs, RetryPcs
<1>2. log' = << >> <=> log = << >> /\ m = << >>
  <2>1. /\ Len(log) \in Nat /\ Len(m) \in Nat /\ Len(log \o m) = Len(log) + Len(m)
        /\ log \o m \in Seq(Event)
    BY <1>1
  <2>2. \A s \in Seq(Event) : s = << >> <=> Len(s) = 0
    OBVIOUS
  <2> QED BY <1>1, <2>1, <2>2
<1>3. ASSUME log' = << >>, NEW t \in Task PROVE task'[t] # "completed"
  <2>1. log = << >> /\ task[t] # "completed"
    BY <1>2, <1>3 DEF LogBegins
  <2>2. pc \notin AttemptPcs
    BY <1>1, <2>1 DEF LogBegins
  <2> QED BY <1>1, <2>1, <2>2, CompletionMoves
<1>4. pc' \in BeginningPcs => log' = << >>
  <2> SUFFICES ASSUME pc' \in BeginningPcs PROVE log = << >> /\ m = << >>
    BY <1>2
  <2>1. pc \in BeginningPcs /\ (pc = "started" => pc' = pc)
    BY <1>1, PcMoves
  <2> QED BY <2>1 DEF LogBegins, BeginningPcs, Speaks
<1>5. pc' \notin BeginningPcs \cup {"crashed"} => log' # << >>
  <2> SUFFICES ASSUME pc' \notin BeginningPcs \cup {"crashed"} PROVE log # << >> \/ m # << >>
    BY <1>2
  <2>1. pc # "crashed" /\ pc \notin {"queue", "start"}
    BY <1>1, PcMoves
  <2>2. CASE pc = "started"
    <3>1. \E k \in DOMAIN m : m[k].kind = "graph"
      BY <2>2 DEF Speaks, BeginningPcs
    <3>2. DOMAIN << >> = {}
      OBVIOUS
    <3> QED BY <3>1, <3>2
  <2> QED BY <2>1, <2>2 DEF LogBegins, BeginningPcs
<1>6. ASSUME log' # << >> PROVE \E i \in GraphsIn(log') : Newest(GraphsIn(log'), i)
  <2>1. (\E i \in GraphsIn(log) : Newest(GraphsIn(log), i)) \/ (\E k \in DOMAIN m : m[k].kind = "graph")
    <3>1. CASE log # << >>
      BY <3>1 DEF LogBegins
    <3>2. CASE log = << >>
      <4>1. m # << >> /\ pc \in BeginningPcs \cup {"crashed"}
        BY <1>2, <1>6, <3>2 DEF LogBegins
      <4> QED BY <4>1 DEF Speaks, BeginningPcs
    <3> QED BY <3>1, <3>2
  <2>2. (\E k \in DOMAIN m : m[k].kind = "graph") => m[Len(m)].kind = "graph"
    BY DEF Speaks
  <2> QED BY <1>1, <2>1, <2>2, LatestGraph
<1> QED BY <1>3, <1>4, <1>5, <1>6 DEF LogBegins

(* Every task that a graph lists with a status has events of its own.       *)
LEMMA LogSpeaksStep ==
  ASSUME IInv, CurrentIsReady, LogSpeaks, log \in Seq(Event), [Next]_vars,
         NEW m, Speaks(m), log' = log \o m
  PROVE  LogSpeaks'
<1>1. /\ m \in Seq(Event) /\ CurrentAttempt /\ OpenUntilClosing
      /\ NoTask \notin Task /\ (pc \in AttemptPcs => cur[1] \in Task)
      /\ SpokenPcs \subseteq AttemptPcs
  BY WorkflowAssumption DEF Speaks, IInv, CurrentAttempt, Attempt, SpokenPcs, AttemptPcs
<1>2. ASSUME NEW t \in Task
      PROVE  About(log', "status", t) = {} \/ \E s \in TaskStatus : Says(log', "status", t, s)
  <2>1. CASE EventDue /\ t = cur[1]
    <3>1. Says(log', "status", t, StatusAt[pc])
      BY <1>1, <2>1, QuietTasks
    <3>2. StatusAt[pc] \in TaskStatus
      BY <2>1 DEF EventDue, StatusAt, TaskStatus
    <3> QED BY <3>1, <3>2
  <2>2. CASE ~(EventDue /\ t = cur[1])
    BY <1>1, <2>2, QuietTasks DEF LogSpeaks
  <2> QED BY <2>1, <2>2
<1>3. ASSUME NEW i \in GraphsIn(log'), log'[i].task \in Task
      PROVE  About(log', "status", log'[i].task) # {}
  <2>1. i \in DOMAIN log' /\ log'[i].kind = "graph"
    BY <1>3 DEF GraphsIn, Indices
  <2>2. CASE i \in DOMAIN log
    <3>1. log'[i] = log[i]
      BY <1>1, <2>2, Appended
    <3>2. i \in GraphsIn(log)
      BY <2>1, <2>2, <3>1 DEF GraphsIn, Indices
    <3>3. About(log, "status", log[i].task) # {}
      BY <1>3, <3>1, <3>2 DEF LogSpeaks
    <3> QED BY <1>1, <3>1, <3>3, EventsStay
  <2>3. CASE \E k \in DOMAIN m : i = Len(log) + k
    <3>1. PICK k \in DOMAIN m : i = Len(log) + k /\ log'[i] = m[k]
      BY <1>1, <2>3, Appended
    <3>2. m[k].task = cur[1] /\ pc \in {"dispatch", "verify"}
      BY <1>1, <1>3, <2>1, <3>1 DEF Speaks
    <3>3. About(log, "status", cur[1]) # {}
      BY <3>2 DEF LogSpeaks, SpokenPcs, HoldingPcs
    <3> QED BY <1>1, <3>1, <3>2, <3>3, EventsStay
  <2>4. i \in DOMAIN log \/ \E k \in DOMAIN m : i = Len(log) + k
    BY <1>1, <2>1, Appended
  <2> QED BY <2>2, <2>3, <2>4
<1>4. ASSUME pc' \in SpokenPcs PROVE About(log', "status", cur'[1]) # {}
  <2>1. pc \in SpokenPcs \cup {"claimedEv"} /\ pc \notin {"select", "next"}
    BY <1>1, <1>4, PcMoves DEF SpokenPcs, HoldingPcs
  <2>2. cur' = cur
    BY <1>1, <2>1, CurrentMoves
  <2>3. CASE pc \in SpokenPcs
    BY <1>1, <2>2, <2>3, EventsStay DEF LogSpeaks
  <2>4. CASE pc = "claimedEv"
    <3>1. EventDue
      BY <1>4, <2>4 DEF EventDue, StatusAt, SpokenPcs, HoldingPcs
    <3>2. cur[1] \in Task
      BY <1>1, <2>4 DEF AttemptPcs, HoldingPcs
    <3>3. Says(log', "status", cur[1], StatusAt[pc])
      BY <1>1, <3>1, <3>2, QuietTasks
    <3> QED BY <2>2, <3>3 DEF Says, Newest
  <2> QED BY <2>1, <2>3, <2>4
<1> QED BY <1>2, <1>3, <1>4 DEF LogSpeaks

(* No task but a finished one, or one whose attempt is about to report it,  *)
(* was last said to be completed.                                           *)
LEMMA CompletedIsLastStep ==
  ASSUME IInv, IInv', CurrentIsReady, BatchIsReady, GraphIsSound, CompletedIsLast,
         log \in Seq(Event), [Next]_vars, NEW m, Speaks(m), log' = log \o m
  PROVE  CompletedIsLast'
<1>1. /\ TypeOK /\ CurrentAttempt /\ CurrentAttempt' /\ OpenUntilClosing
      /\ finished \subseteq finished'
  <2>1. TypeOK /\ CurrentAttempt /\ CurrentAttempt' /\ OpenUntilClosing
    BY DEF IInv
  <2> QED BY <2>1, SorterStep
<1>2. ASSUME NEW t \in Task, Says(log', "status", t, "completed"), t \notin finished'
      PROVE  Taken(t)' /\ (pc' \in {"release", "crashed"} \/ ReportsCompleted')
  <2>1. CASE EventDue /\ t = cur[1]
    <3>1. Says(log', "status", t, StatusAt[pc])
      BY <1>1, <2>1, QuietTasks
    <3>2. log' \in Seq(Event)
      BY DEF Speaks
    <3>3. StatusAt[pc] = "completed"
      BY <1>2, <3>1, <3>2, SaysOnce
    <3>4. pc = "finishEv"
      BY <2>1, <3>3 DEF StatusAt, EventDue
    <3>5. pc' = "release"
      BY <1>1, <2>1, <3>4, PcMoves DEF EventDue
    <3>6. Taken(t)
      BY <1>1, <1>2, <2>1, QuietTasks
    <3> QED BY <1>1, <1>2, <3>5, <3>6, TakenStays
  <2>2. CASE ~(EventDue /\ t = cur[1])
    <3>1. Says(log, "status", t, "completed")
      BY <1>1, <1>2, <2>2, QuietTasks
    <3>2. Taken(t) /\ (pc \in {"release", "crashed"} \/ ReportsCompleted)
      BY <1>1, <1>2, <3>1 DEF CompletedIsLast
    <3>3. pc' \in {"release", "crashed"} \/ ReportsCompleted'
      <4>1. CASE pc = "crashed"
        BY <1>1, <4>1, PcMoves
      <4>2. CASE pc = "release"
        BY <1>1, <4>2, ReportMoves
      <4>3. CASE ReportsCompleted
        BY <1>1, <1>2, <3>2, <4>3, ReportMoves DEF Taken
      <4> QED BY <3>2, <4>1, <4>2, <4>3
    <3> QED BY <1>1, <1>2, <3>2, <3>3, TakenStays
  <2> QED BY <2>1, <2>2
<1> QED BY <1>2 DEF CompletedIsLast

(* A finished task is shown as completed with its checklist done.           *)
LEMMA FinishedShownStep ==
  ASSUME NoRecovery, IInv, IInv', PlanInv, PlanInv', ShownInv, log \in Seq(Event),
         [Next]_vars, NEW m, Speaks(m), log' = log \o m
  PROVE  FinishedShown' /\ ListDone'
<1>1. /\ TypeOK /\ TypeOK' /\ CurrentAttempt /\ CurrentAttempt' /\ OpenUntilClosing
      /\ CurrentIsReady /\ LandedIsDone
      /\ finished \subseteq finished' /\ finished' \subseteq Task
      /\ (finished' # finished => pc = "result" /\ outcome = "completed" /\ finished' = finished \cup {cur[1]})
  <2>1. /\ TypeOK /\ TypeOK' /\ CurrentAttempt /\ CurrentAttempt' /\ OpenUntilClosing
        /\ BatchIsReady /\ CurrentIsReady /\ GraphIsSound /\ LandedIsDone
    BY DEF IInv, PlanInv
  <2> QED BY <2>1, SorterStep DEF TypeOK
<1>2. FinishedShown /\ TakenFollows /\ ListDone
  BY DEF ShownInv
<1>3. ReportsCompleted => Says(log, "status", cur[1], "completed") /\ ~EventDue
  <2> SUFFICES ASSUME ReportsCompleted
               PROVE  Says(log, "status", cur[1], "completed") /\ ~EventDue
    OBVIOUS
  <2>1. task[cur[1]] = "completed"
    BY <1>1 DEF ReportsCompleted, LandedIsDone, DoneRow, NoRecovery
  <2>2. cur # NoAttempt
    BY <1>1, WorkflowAssumption DEF ReportsCompleted, CurrentAttempt, AttemptPcs, UnclaimedPcs
  <2>3. Reads(log, cur[1], "completed")
    BY <1>2, <2>1, <2>2 DEF TakenFollows, Follows, ReportsCompleted, SyncedPcs, ClosedRow
  <2> QED BY <2>3 DEF Reads, ReportsCompleted, EventDue, StatusAt
<1>4. ASSUME NEW t \in finished'
      PROVE  Says(log', "status", t, "completed") /\ Says(log', "todo", t, "completed")
  <2>1. t \in Task
    BY <1>1
  <2>2. CASE t \in finished
    <3>1. ~(EventDue /\ t = cur[1])
      BY <1>1, <2>1, <2>2, QuietTasks
    <3> QED BY <1>1, <1>2, <2>1, <2>2, <3>1, QuietTasks DEF FinishedShown
  <2>3. CASE t \notin finished
    <3>1. ReportsCompleted /\ t = cur[1]
      BY <1>1, <2>3 DEF ReportsCompleted
    <3>2. Says(log, "todo", t, "completed") /\ Says(log, "status", t, "completed") /\ ~EventDue
      BY <1>2, <1>3, <3>1 DEF ListDone
    <3> QED BY <1>1, <2>1, <3>1, <3>2, QuietTasks DEF ReportsCompleted
  <2> QED BY <2>2, <2>3
<1>5. ASSUME ReportsCompleted' PROVE Says(log', "todo", cur'[1], "completed")
  <2>1. pc = "release" \/ (ReportsCompleted /\ pc' = pc)
    BY <1>1, <1>5, ReportMoves
  <2>2. cur' = cur /\ cur[1] \in Task
    BY <1>1, <2>1, CurrentMoves DEF ReportsCompleted, CurrentAttempt, Attempt, AttemptPcs,
       HoldingPcs, UnclaimedPcs
  <2>3. CASE pc = "release"
    BY <1>1, <1>5, <2>2, <2>3, QuietTasks DEF ReportsCompleted
  <2>4. CASE ReportsCompleted
    BY <1>1, <1>2, <2>2, <2>4, QuietTasks DEF ReportsCompleted, ListDone
  <2> QED BY <2>1, <2>3, <2>4
<1> QED BY <1>4, <1>5 DEF FinishedShown, ListDone

(* A task that was not executed is not spoken of, and no one but the        *)
(* closing of the run writes its row.                                       *)
LEMMA UntakenStep ==
  ASSUME NoRecovery, IInv, IInv', PlanInv, PlanInv', ShownInv, log \in Seq(Event),
         [Next]_vars, NEW m, Speaks(m), log' = log \o m
  PROVE  UntakenSilent'
<1>1. /\ CurrentAttempt /\ CurrentAttempt' /\ OpenUntilClosing /\ CurrentIsReady
      /\ ScansForRecovery /\ finished \subseteq finished'
  BY SorterStep DEF IInv, PlanInv
<1> SUFFICES ASSUME NEW t \in Task, t \notin finished', ~Taken(t)'
             PROVE  About(log', "status", t) = {} /\ task'[t] \in {"queued"} \cup ClosedRow
  BY DEF UntakenSilent
<1>2. ~Taken(t) /\ t \notin finished
  BY <1>1, TakenStays
<1>3. About(log, "status", t) = {} /\ task[t] \in {"queued"} \cup ClosedRow
  BY <1>2 DEF ShownInv, UntakenSilent
<1>4. ~(EventDue /\ t = cur[1])
  BY <1>1, <1>2, QuietTasks
<1>5. ~(t = cur[1] /\ pc \in AttemptPcs \ SyncedPcs)
  <2>1. pc \in AttemptPcs => cur # NoAttempt /\ pc \notin PlanningPcs
    BY <1>1, WorkflowAssumption DEF CurrentAttempt, AttemptPcs, HoldingPcs, UnclaimedPcs,
       RetryPcs, PlanningPcs
  <2> QED BY <1>2, <2>1 DEF Taken
<1> QED BY <1>1, <1>3, <1>4, <1>5, QuietTasks, RowMoves

(* The current task, between its attempts.                                  *)
LEMMA FollowsStep ==
  ASSUME NoRecovery, IInv, IInv', PlanInv, PlanInv', ShownInv, log \in Seq(Event),
         [Next]_vars, NEW m, Speaks(m), log' = log \o m
  PROVE  TakenFollows'
<1>1. /\ TypeOK /\ CurrentAttempt /\ CurrentAttempt' /\ CurrentIsReady /\ ScansForRecovery
      /\ task \in [Task -> TaskStatus] /\ task' \in [Task -> TaskStatus]
      /\ cur' \in Attempt \cup {NoAttempt} /\ NoAttempt \notin Attempt
      /\ finished \subseteq finished'
  BY SorterStep, WorkflowAssumption DEF IInv, PlanInv, TypeOK, StoreTypeOK
<1> DEFINE t == cur'[1]
           AsRow(s) == s = task'[t] \/ (s \in Inflight /\ task'[t] \in ClosedRow)
<1> SUFFICES ASSUME pc' \in SyncedPcs, cur' # NoAttempt
             PROVE  \E s \in TaskStatus : Reads(log', t, s) /\ AsRow(s)
  BY DEF TakenFollows, Follows
<1>2. t \in Task
  BY <1>1 DEF Attempt
<1>3. CASE pc \in SyncedPcs
  <2>1. pc # "select" /\ ~EventDue /\ pc \notin AttemptPcs \ SyncedPcs
    BY <1>3 DEF SyncedPcs, RetryPcs, EventDue, StatusAt
  <2>2. cur[1] = t /\ cur # NoAttempt
    BY <1>1, <2>1, CurrentMoves
  <2>3. PICK s \in TaskStatus :
          Reads(log, t, s) /\ (s = task[t] \/ (s \in Inflight /\ task[t] \in ClosedRow))
    BY <1>3, <2>2 DEF ShownInv, TakenFollows, Follows
  <2>4. Reads(log', t, s)
    BY <1>1, <1>2, <2>1, <2>3, QuietTasks DEF Reads
  <2>5. task'[t] = task[t] \/ (task[t] \in Inflight /\ task'[t] \in ClosedRow)
    BY <1>1, <1>2, <2>1, RowMoves
  <2>6. s = task'[t] \/ (s \in Inflight /\ task'[t] \in ClosedRow)
    BY <2>3, <2>5 DEF ClosedRow, Inflight
  <2> QED BY <2>4, <2>6
<1>4. CASE pc \in PlanningPcs
  <2>1. ~EventDue /\ pc \notin AttemptPcs
    BY <1>4 DEF PlanningPcs, EventDue, StatusAt, AttemptPcs, HoldingPcs, UnclaimedPcs, RetryPcs
  <2>2. CASE t \in finished
    <3>1. Says(log', "status", t, "completed")
      BY <1>1, <1>2, <2>1, <2>2, QuietTasks DEF ShownInv, FinishedShown
    <3>2. task'[t] = "completed"
      BY <1>1, <2>2 DEF PlanInv, FinishedIsDone, DoneRow, NoRecovery
    <3>3. Reads(log', t, "completed") /\ "completed" \in TaskStatus
      BY <3>1 DEF Reads, TaskStatus
    <3> QED BY <3>2, <3>3
  <2>3. CASE t \notin finished
    <3>1. ~Taken(t)
      BY <1>4 DEF Taken
    <3>2. About(log, "status", t) = {} /\ task[t] \in {"queued"} \cup ClosedRow
      BY <1>2, <2>3, <3>1 DEF ShownInv, UntakenSilent
    <3>3. About(log', "status", t) = {}
      BY <1>1, <1>2, <2>1, <3>2, QuietTasks
    <3>4. task'[t] = task[t] \/ (task[t] \in Inflight /\ task'[t] \in ClosedRow)
      BY <1>1, <1>2, <2>1, RowMoves
    <3>5. "queued" \in TaskStatus /\ "queued" \in Inflight
      BY DEF TaskStatus, Inflight
    <3>6. "queued" = task'[t] \/ task'[t] \in ClosedRow
      BY <3>2, <3>4
    <3>7. Reads(log', t, "queued")
      BY <3>3 DEF Reads
    <3> QED BY <3>5, <3>6, <3>7
  <2> QED BY <2>2, <2>3
<1>5. CASE pc \in {"failEv", "reclaimEv", "finishEv"} /\ EventDue /\ task'[cur[1]] = StatusAt[pc]
  <2>1. cur' = cur
    BY <1>1, <1>5, CurrentMoves
  <2>2. Says(log', "status", t, StatusAt[pc])
    BY <1>1, <1>2, <1>5, <2>1, QuietTasks
  <2>3. StatusAt[pc] \in TaskStatus
    BY <1>5 DEF StatusAt, TaskStatus
  <2>4. Reads(log', t, StatusAt[pc])
    BY <2>2 DEF Reads
  <2> QED BY <1>5, <2>1, <2>3, <2>4
<1> QED BY <1>1, <1>3, <1>4, <1>5, SyncMoves

(* At first nothing is logged and every task is queued.                     *)
LEMMA ShownInit == ReadInit => ShownInv /\ log \in Seq(Event)
<1> SUFFICES ASSUME ReadInit PROVE ShownInv /\ log \in Seq(Event)
  OBVIOUS
<1>1. /\ log = << >> /\ pc = "queue" /\ cur = NoAttempt /\ finished = {}
      /\ \A t \in Task : task[t] = "queued"
  BY DEF ReadInit, Init, StoreInit
<1>2. log \in Seq(Event) /\ DOMAIN log = {}
  BY <1>1
<1>3. \A kind, t : About(log, kind, t) = {}
  BY <1>2 DEF About
<1>4. GraphsIn(log) = {}
  BY <1>2 DEF GraphsIn, Indices
<1>5. LogBegins
  BY <1>1 DEF LogBegins, BeginningPcs
<1>6. LogSpeaks
  BY <1>1, <1>3, <1>4 DEF LogSpeaks, SpokenPcs, HoldingPcs
<1>7. FinishedShown /\ UntakenSilent
  BY <1>1, <1>3 DEF FinishedShown, UntakenSilent
<1>8. TakenFollows
  BY <1>1 DEF TakenFollows
<1>9. CompletedIsLast
  BY <1>2 DEF CompletedIsLast, Says
<1>10. ListDone
  BY <1>1 DEF ListDone, ReportsCompleted
<1> QED BY <1>2, <1>5, <1>6, <1>7, <1>8, <1>9, <1>10 DEF ShownInv, LogInv

(* The log keeps its order, whatever the recovery job does to the rows.     *)
LEMMA LogInvStep ==
  ASSUME IInv, IInv', PlanInv, LogInv, log \in Seq(Event), [ReadNext]_readVars
  PROVE  LogInv' /\ log' \in Seq(Event)
<1>1. [Next]_vars
  BY DEF ReadNext, readVars, WorkflowStep, RunStep, GraphActivity, NotificationActivity
<1>2. PICK m : Speaks(m) /\ log' = log \o m
  BY LogStep DEF IInv
<1>3. log' \in Seq(Event)
  BY <1>2 DEF Speaks
<1>4. LogBegins'
  BY <1>1, <1>2, LogBeginsStep DEF LogInv
<1>5. LogSpeaks'
  BY <1>1, <1>2, LogSpeaksStep DEF PlanInv, LogInv
<1>6. CompletedIsLast'
  BY <1>1, <1>2, CompletedIsLastStep DEF PlanInv, LogInv
<1> QED BY <1>3, <1>4, <1>5, <1>6 DEF LogInv

(* It does so throughout a run.                                             *)
LEMMA LogInvariance == ReadSpec => [](log \in Seq(Event) /\ LogInv)
<1>1. IInv /\ IInv' /\ PlanInv /\ log \in Seq(Event) /\ LogInv /\ [ReadNext]_readVars
        => (log \in Seq(Event) /\ LogInv)'
  BY LogInvStep
<1>2. ReadInit => log \in Seq(Event) /\ LogInv
  BY ShownInit DEF ShownInv
<1> QED BY <1>1, <1>2, ReadModelsRun, Invariance, PlanInvariance, PTL DEF ReadSpec

(* Without the recovery job, each step keeps the log in step with the rows. *)
LEMMA ShownStep ==
  ASSUME NoRecovery, IInv, IInv', PlanInv, PlanInv', ShownInv, log \in Seq(Event),
         [ReadNext]_readVars
  PROVE  ShownInv'
<1>1. [Next]_vars
  BY DEF ReadNext, readVars, WorkflowStep, RunStep, GraphActivity, NotificationActivity
<1>2. PICK m : Speaks(m) /\ log' = log \o m
  BY LogStep DEF IInv
<1>3. LogInv'
  BY LogInvStep DEF ShownInv
<1>4. FinishedShown' /\ ListDone'
  BY <1>1, <1>2, FinishedShownStep
<1>5. UntakenSilent'
  BY <1>1, <1>2, UntakenStep
<1>6. TakenFollows'
  BY <1>1, <1>2, FollowsStep
<1> QED BY <1>3, <1>4, <1>5, <1>6 DEF ShownInv

(* The log is in step with the rows throughout a run without recovery.      *)
LEMMA ShownInvariance ==
  ASSUME NoRecovery
  PROVE  ReadSpec => []ShownInv
<1>1. IInv /\ IInv' /\ PlanInv /\ PlanInv' /\ log \in Seq(Event) /\ ShownInv /\ [ReadNext]_readVars
        => ShownInv'
  BY ShownStep
<1>2. ReadInit => ShownInv
  BY ShownInit
<1> QED BY <1>1, <1>2, LogInvariance, ReadModelsRun, Invariance, PlanInvariance, PTL DEF ReadSpec

(* Once there is a graph, a task is shown as its events read.               *)
LEMMA ShownOnceLogged ==
  ASSUME LogBegins, LogSpeaks, log \in Seq(Event), log # << >>,
         NEW t \in Task, NEW s, Reads(log, t, s)
  PROVE  Shown(log, task, t) = s
BY ShownAsRead DEF LogBegins, LogSpeaks

(* The task graph follows the rows (ReadModels!GraphFollowsRows), however   *)
(* many tasks, attempts and graphs: TaskGraphProjector replays the events   *)
(* on the latest graph, and that graph speaks of no task that has none.  Of *)
(* what the recovery job reclaims there is no event, hence the assumption.  *)
THEOREM GraphFollowsTheRows ==
  ASSUME NoRecovery
  PROVE  ReadSpec => []GraphFollowsRows
<1>1. ASSUME IInv, PlanInv, log \in Seq(Event), ShownInv PROVE GraphFollowsRows
  <2> SUFFICES ASSUME NEW t \in Task
               PROVE  \/ /\ Shown(log, task, t) = task[t]
                         /\ task[t] = "completed" => Checklist(log, t) = "completed"
                      \/ cur # NoAttempt /\ t = cur[1] /\ pc \notin {"select", "done"}
                      \/ /\ Shown(log, task, t) \in Inflight
                         /\ \E r \in TerminalRun : task[t] = ClosedAs(r)
    BY DEF GraphFollowsRows
  <2>1. \A c \in ClosedRow : \E r \in TerminalRun : c = ClosedAs(r)
    BY DEF ClosedRow, TerminalRun, ClosedAs
  <2>2. LogBegins /\ LogSpeaks
    BY <1>1 DEF ShownInv, LogInv
  <2>3. CASE t \in finished
    <3>1. Says(log, "status", t, "completed") /\ Says(log, "todo", t, "completed")
      BY <1>1, <2>3 DEF ShownInv, FinishedShown
    <3>2. task[t] = "completed"
      BY <1>1, <2>3 DEF PlanInv, FinishedIsDone, DoneRow, NoRecovery
    <3>3. log # << >>
      BY <2>2, <3>2 DEF LogBegins
    <3>4. Shown(log, task, t) = "completed"
      BY <1>1, <2>2, <3>1, <3>3, ShownOnceLogged DEF Reads
    <3>5. Checklist(log, t) = "completed"
      BY <1>1, <3>1, ListAsSaid
    <3> QED BY <3>2, <3>4, <3>5
  <2>4. CASE t \notin finished /\ ~Taken(t)
    <3>1. About(log, "status", t) = {} /\ task[t] \in {"queued"} \cup ClosedRow
      BY <1>1, <2>4 DEF ShownInv, UntakenSilent
    <3>2. task[t] # "completed"
      BY <3>1 DEF ClosedRow
    <3>3. CASE log = << >>
      <4>1. GraphsIn(log) = {}
        BY <3>3 DEF GraphsIn, Indices
      <4> QED BY <3>2, <4>1 DEF Shown
    <3>4. CASE log # << >>
      <4>1. Shown(log, task, t) = "queued"
        BY <1>1, <2>2, <3>1, <3>4, ShownOnceLogged DEF Reads
      <4>2. "queued" \in Inflight
        BY DEF Inflight
      <4> QED BY <2>1, <3>1, <3>2, <4>1, <4>2
    <3> QED BY <3>3, <3>4
  <2>5. CASE t \notin finished /\ Taken(t) /\ pc = "done"
    <3>1. cur # NoAttempt /\ t = cur[1] /\ pc \in SyncedPcs
      BY <2>5 DEF Taken, SyncedPcs
    <3>2. PICK s \in TaskStatus :
            Reads(log, t, s) /\ (s = task[t] \/ (s \in Inflight /\ task[t] \in ClosedRow))
      BY <1>1, <3>1 DEF ShownInv, TakenFollows, Follows
    <3>3. log # << >>
      BY <2>2, <2>5 DEF LogBegins, BeginningPcs
    <3>4. Shown(log, task, t) = s
      BY <1>1, <2>2, <3>2, <3>3, ShownOnceLogged
    <3>5. s # "completed"
      BY <1>1, <2>5, <3>2 DEF Reads, ShownInv, LogInv, CompletedIsLast,
         ReportsCompleted
    <3> QED BY <2>1, <3>2, <3>4, <3>5
  <2>6. CASE Taken(t) /\ pc # "done"
    BY <2>6 DEF Taken, PlanningPcs
  <2> QED BY <2>3, <2>4, <2>5, <2>6
<1> QED BY <1>1, ShownInvariance, LogInvariance, ReadModelsRun, Invariance, PlanInvariance, PTL

(* A task once shown as completed is shown so for good                      *)
(* (ReadModels!CompletedStaysShown), under every fault of the model: the    *)
(* graphs published later list it as queued, and its events, logged before  *)
(* them, are replayed on them.                                              *)
THEOREM CompletedIsShownForGood == ReadSpec => CompletedStaysShown
<1> DEFINE Steps == \A t \in Task : Shown(log, task, t) = "completed"
                                      => Shown(log', task', t) = "completed"
<1>1. ASSUME IInv, IInv', PlanInv, log \in Seq(Event), LogInv, [ReadNext]_readVars
      PROVE  [Steps]_readVars
  <2> SUFFICES ASSUME NEW t \in Task, Shown(log, task, t) = "completed"
               PROVE  Shown(log', task', t) = "completed"
    OBVIOUS
  <2>1. LogBegins /\ LogSpeaks /\ CompletedIsLast /\ CurrentAttempt /\ CurrentIsReady
    BY <1>1 DEF LogInv, IInv, PlanInv
  <2>2. LogBegins' /\ LogSpeaks' /\ log' \in Seq(Event)
    BY <1>1, LogInvStep DEF LogInv
  <2>3. PICK m : Speaks(m) /\ log' = log \o m
    BY <1>1, LogStep DEF IInv
  <2>4. log # << >>
    <3> SUFFICES ASSUME log = << >> PROVE FALSE
      OBVIOUS
    <3>1. GraphsIn(log) = {}
      BY DEF GraphsIn, Indices
    <3>2. task[t] = "completed"
      BY <3>1 DEF Shown
    <3> QED BY <2>1, <3>2 DEF LogBegins
  <2>5. Says(log, "status", t, "completed")
    <3>1. PICK s : Reads(log, t, s)
      BY <2>1 DEF LogSpeaks, Reads
    <3>2. s = "completed"
      BY <1>1, <2>1, <2>4, <3>1, ShownOnceLogged
    <3> QED BY <3>1, <3>2 DEF Reads
  <2>6. ~(EventDue /\ t = cur[1])
    <3>1. EventDue => pc \in AttemptPcs /\ cur[1] \notin finished
      BY <1>1, <2>1, <2>3, QuietTasks
    <3>2. EventDue => pc \notin {"release", "crashed"} /\ ~ReportsCompleted
      BY DEF EventDue, StatusAt, ReportsCompleted
    <3> QED BY <2>1, <2>5, <3>1, <3>2 DEF CompletedIsLast
  <2>7. Says(log', "status", t, "completed")
    BY <1>1, <2>1, <2>3, <2>5, <2>6, QuietTasks
  <2>8. log' # << >>
    <3>1. DOMAIN << >> = {}
      OBVIOUS
    <3> QED BY <2>7, <3>1 DEF Says
  <2>9. /\ \E i \in GraphsIn(log') : Newest(GraphsIn(log'), i)
        /\ \A i \in GraphsIn(log') : log'[i].task \in Task => About(log', "status", log'[i].task) # {}
    BY <2>2, <2>8 DEF LogBegins, LogSpeaks
  <2> QED BY <2>2, <2>7, <2>9, ShownAsRead DEF Reads
<1>2. ReadSpec => [][Steps]_readVars
  BY <1>1, LogInvariance, ReadModelsRun, Invariance, PlanInvariance, PTL DEF ReadSpec
<1> QED BY <1>2 DEF CompletedStaysShown

-----------------------------------------------------------------------------
(* The recovery times                                                       *)

(* Between two failures of a task in a log, there is a claim of it.         *)
AnsweredBetween(l, t) ==
  \A i, j \in DOMAIN l :
    Failure(l[i], t) /\ Failure(l[j], t) /\ i < j
      => \E k \in DOMAIN l : i < k /\ k < j /\ Claimed(l[k], t)

(* From the claim of an attempt to its failure, no failure of its task was  *)
(* logged since a claim.                                                    *)
ClaimedPcs == SpokenPcs \ {"failRelease"}
OpenClaim(l, t) ==
  \E k \in DOMAIN l :
    Claimed(l[k], t) /\ \A i \in DOMAIN l : Failure(l[i], t) => i < k

FailuresAnswered ==
  /\ \A t \in Task : AnsweredBetween(log, t)
  /\ pc \in ClaimedPcs => OpenClaim(log, cur[1])

(* A set of numbers that is not empty has a least one: what an induction    *)
(* over the events of a window starts from.                                 *)
LEMMA LeastNumber ==
  ASSUME NEW S, S \subseteq Nat, S # {}
  PROVE  \E m \in S : \A k \in S : m <= k
<1>1. PICK m \in S : \A k \in S : <<k, m>> \notin OpToRel(<, Nat)
  BY WFMin, NatLessThanWellFounded, Zenon
<1>2. \A k \in S : ~(k < m)
  BY <1>1, Zenon DEF OpToRel
<1> QED BY <1>2

(* A pass over the events of a window up to one of them.                    *)
Nothing == [pending |-> << >>, pairs |-> {}]
Passes(f, l, t, m) ==
  f = [n \in 0 .. m |-> IF n = 0 THEN Nothing ELSE Pairing(f[n - 1], l[n], n, t)]

(* There is such a pass: the recursive function of Pair is well defined.    *)
LEMMA PairIsAPass ==
  ASSUME NEW l, Len(l) \in Nat, NEW t
  PROVE  \E f : Passes(f, l, t, Len(l)) /\ Pair(l, t) = f[Len(l)].pairs
<1> DEFINE S == {m \in 0 .. Len(l) : ~ \E f : Passes(f, l, t, m)}
<1>1. S = {}
  <2> SUFFICES ASSUME S # {} PROVE FALSE
    OBVIOUS
  <2>1. S \subseteq Nat
    OBVIOUS
  <2>2. PICK m \in S : \A k \in S : m <= k
    BY <2>1, LeastNumber, Zenon
  <2>3. m # 0
    <3> DEFINE g == [n \in 0 .. 0 |-> Nothing]
    <3>1. Passes(g, l, t, 0)
      BY DEF Passes
    <3> HIDE DEF g
    <3>2. \E f : Passes(f, l, t, 0)
      BY <3>1
    <3> QED BY <2>2, <3>2
  <2>4. m - 1 \in 0 .. Len(l) /\ m - 1 \notin S
    BY <2>2, <2>3
  <2>5. PICK g : Passes(g, l, t, m - 1)
    BY <2>4
  <2> DEFINE h == [n \in 0 .. m |-> IF n = 0 THEN Nothing ELSE Pairing(g[n - 1], l[n], n, t)]
  <2>6. \A n \in 0 .. m - 1 : h[n] = g[n]
    BY <2>2, <2>5 DEF Passes
  <2>7. \A n \in 1 .. m : Pairing(g[n - 1], l[n], n, t) = Pairing(h[n - 1], l[n], n, t)
    <3> SUFFICES ASSUME NEW n \in 1 .. m
                 PROVE  Pairing(g[n - 1], l[n], n, t) = Pairing(h[n - 1], l[n], n, t)
      OBVIOUS
    <3>1. n - 1 \in 0 .. m - 1
      BY <2>2
    <3>2. h[n - 1] = g[n - 1]
      BY <2>6, <3>1
    <3> QED BY <3>2
  <2>8. h = [n \in 0 .. m |-> IF n = 0 THEN Nothing ELSE Pairing(h[n - 1], l[n], n, t)]
    <3>1. \A n \in 0 .. m : n # 0 => n \in 1 .. m
      BY <2>2
    <3> DEFINE e(n) == Pairing(h[n - 1], l[n], n, t)
               d(n) == Pairing(g[n - 1], l[n], n, t)
    <3>2. \A n \in 1 .. m : d(n) = e(n)
      BY <2>7
    <3>3. h = [n \in 0 .. m |-> IF n = 0 THEN Nothing ELSE d(n)]
      OBVIOUS
    <3> HIDE DEF h, e, d
    <3>4. h = [n \in 0 .. m |-> IF n = 0 THEN Nothing ELSE e(n)]
      BY <3>1, <3>2, <3>3
    <3> QED BY <3>4 DEF e
  <2> HIDE DEF h
  <2>9. Passes(h, l, t, m)
    BY <2>8 DEF Passes
  <2> QED BY <2>2, <2>9
<1>2. \E f : Passes(f, l, t, Len(l))
  BY <1>1
<1> DEFINE F == CHOOSE f : Passes(f, l, t, Len(l))
<1>3. Passes(F, l, t, Len(l))
  BY <1>2, Zenon
<1>4. Pair(l, t) = F[Len(l)].pairs
  BY DEF Pair, Passes, Nothing
<1> HIDE DEF F
<1> QED BY <1>3, <1>4

(* What a pass has found at an event: no recovery with a failure inside it, *)
(* and one failure at most that is pending, with neither a claim nor a      *)
(* failure since.                                                           *)
Since(l, t, p, n) == \A k \in p + 1 .. n : ~Claimed(l[k], t) /\ ~Failure(l[k], t)
Clean(l, t, q) == \A i \in q[1] + 1 .. q[2] : ~Failure(l[i], t)
PassedWell(acc, l, t, n) ==
  \E pending, pairs :
    /\ acc = [pending |-> pending, pairs |-> pairs]
    /\ \/ pending = << >>
       \/ \E p \in 1 .. n : pending = <<p>> /\ Failure(l[p], t) /\ Since(l, t, p, n)
    /\ \A q \in pairs : Clean(l, t, q)

(* One more event.                                                          *)
LEMMA PairingPassesWell ==
  ASSUME NEW t, NEW l, Len(l) \in Nat, DOMAIN l = 1 .. Len(l), AnsweredBetween(l, t),
         NEW n \in 1 .. Len(l), NEW acc, PassedWell(acc, l, t, n - 1)
  PROVE  PassedWell(Pairing(acc, l[n], n, t), l, t, n)
<1>1. PICK pending, pairs :
        /\ acc = [pending |-> pending, pairs |-> pairs]
        /\ \/ pending = << >>
           \/ \E p \in 1 .. n - 1 : pending = <<p>> /\ Failure(l[p], t) /\ Since(l, t, p, n - 1)
        /\ \A q \in pairs : Clean(l, t, q)
  BY DEF PassedWell
<1>2. ~(Failure(l[n], t) /\ Claimed(l[n], t))
  BY DEF Failure, Claimed, Entry
<1>3. CASE Failure(l[n], t)
  <2>1. pending = << >>
    <3> SUFFICES ASSUME NEW p \in 1 .. n - 1, Failure(l[p], t), Since(l, t, p, n - 1)
                 PROVE  FALSE
      BY <1>1
    <3>1. p \in DOMAIN l /\ n \in DOMAIN l /\ p < n
      OBVIOUS
    <3>2. PICK k \in DOMAIN l : p < k /\ k < n /\ Claimed(l[k], t)
      BY <1>3, <3>1 DEF AnsweredBetween
    <3>3. k \in p + 1 .. n - 1
      BY <3>2
    <3> QED BY <3>2, <3>3 DEF Since
  <2>2. Pairing(acc, l[n], n, t) = [acc EXCEPT !.pending = Append(acc.pending, n)]
    BY <1>2, <1>3 DEF Pairing
  <2>3. Append(<< >>, n) = <<n>>
    OBVIOUS
  <2>4. Pairing(acc, l[n], n, t) = [pending |-> <<n>>, pairs |-> pairs]
    BY <1>1, <2>1, <2>2, <2>3
  <2>5. Since(l, t, n, n)
    BY DEF Since
  <2> HIDE DEF Pairing
  <2>6. n \in 1 .. n
    OBVIOUS
  <2> QED BY <1>1, <1>3, <2>4, <2>5, <2>6 DEF PassedWell
<1>4. CASE Claimed(l[n], t) /\ pending # << >>
  <2>1. PICK p \in 1 .. n - 1 : pending = <<p>> /\ Failure(l[p], t) /\ Since(l, t, p, n - 1)
    BY <1>1, <1>4
  <2>2. Head(<<p>>) = p /\ Tail(<<p>>) = << >>
    OBVIOUS
  <2>3. Pairing(acc, l[n], n, t)
          = [pending |-> Tail(acc.pending), pairs |-> acc.pairs \cup {<<Head(acc.pending), n>>}]
    BY <1>1, <1>2, <1>4 DEF Pairing
  <2>4. Pairing(acc, l[n], n, t) = [pending |-> << >>, pairs |-> pairs \cup {<<p, n>>}]
    BY <1>1, <2>1, <2>2, <2>3
  <2>5. Clean(l, t, <<p, n>>)
    BY <1>2, <1>4, <2>1 DEF Clean, Since
  <2> QED BY <1>1, <2>4, <2>5 DEF PassedWell
<1>5. CASE ~Failure(l[n], t) /\ ~(Claimed(l[n], t) /\ pending # << >>)
  <2>1. Pairing(acc, l[n], n, t) = acc
    BY <1>1, <1>5 DEF Pairing
  <2>2. ASSUME NEW p \in 1 .. n - 1, pending = <<p>>, Failure(l[p], t), Since(l, t, p, n - 1)
        PROVE  p \in 1 .. n /\ Since(l, t, p, n)
    <3>1. pending # << >>
      BY <2>2
    <3> QED BY <1>5, <2>2, <3>1 DEF Since
  <2> QED BY <1>1, <2>1, <2>2 DEF PassedWell
<1> QED BY <1>3, <1>4, <1>5

(* Where every failure is answered before the next, no recovery has another *)
(* failure inside it.                                                       *)
LEMMA RecoveriesAreClean ==
  ASSUME NEW t, NEW l, Len(l) \in Nat, DOMAIN l = 1 .. Len(l), AnsweredBetween(l, t)
  PROVE  \A q \in Pair(l, t) : Clean(l, t, q)
<1>1. PICK f : Passes(f, l, t, Len(l)) /\ Pair(l, t) = f[Len(l)].pairs
  BY PairIsAPass
<1> DEFINE S == {n \in 0 .. Len(l) : ~PassedWell(f[n], l, t, n)}
<1>2. S = {}
  <2> SUFFICES ASSUME S # {} PROVE FALSE
    OBVIOUS
  <2>1. S \subseteq Nat
    OBVIOUS
  <2>2. PICK m \in S : \A k \in S : m <= k
    BY <2>1, LeastNumber, Zenon
  <2>3. m # 0
    <3>1. f[0] = Nothing
      BY <1>1 DEF Passes
    <3>2. PassedWell(Nothing, l, t, 0)
      <4> DEFINE none == << >>
      <4>1. Nothing = [pending |-> none, pairs |-> {}]
        BY DEF Nothing
      <4>2. \A q \in {} : Clean(l, t, q)
        OBVIOUS
      <4> HIDE DEF none
      <4>3. \/ none = << >>
            \/ \E p \in 1 .. 0 : none = <<p>> /\ Failure(l[p], t) /\ Since(l, t, p, 0)
        BY DEF none
      <4> DEFINE found == {}
      <4> HIDE DEF found
      <4>4. Nothing = [pending |-> none, pairs |-> found] /\ \A q \in found : Clean(l, t, q)
        BY <4>1, <4>2 DEF found
      <4> QED BY <4>3, <4>4, Zenon DEF PassedWell
    <3> QED BY <2>2, <3>1, <3>2
  <2>4. m \in 1 .. Len(l) /\ m - 1 \in 0 .. Len(l) /\ m - 1 \notin S
    BY <2>2, <2>3
  <2>5. PassedWell(f[m - 1], l, t, m - 1)
    BY <2>4
  <2>6. f[m] = Pairing(f[m - 1], l[m], m, t)
    BY <1>1, <2>3, <2>4 DEF Passes
  <2>7. PassedWell(f[m], l, t, m)
    BY <2>4, <2>5, <2>6, PairingPassesWell
  <2> QED BY <2>2, <2>7
<1>3. PassedWell(f[Len(l)], l, t, Len(l))
  BY <1>2
<1> QED BY <1>1, <1>3 DEF PassedWell

(* A window on a log in which every failure is answered is one as well.     *)
LEMMA WindowsAnswered ==
  ASSUME log \in Seq(Event), NEW t, AnsweredBetween(log, t), NEW w \in Windows
  PROVE  Len(w) \in Nat /\ DOMAIN w = 1 .. Len(w) /\ AnsweredBetween(w, t)
<1>1. Len(log) \in Nat /\ DOMAIN log = 1 .. Len(log)
  OBVIOUS
<1>2. PICK n \in 1 .. Len(log) + 1 : w = SubSeq(log, n, Len(log))
  BY DEF Windows
<1>3. /\ Len(w) = Len(log) - n + 1 /\ DOMAIN w = 1 .. Len(log) - n + 1
      /\ \A i \in 1 .. Len(log) - n + 1 : w[i] = log[i + n - 1]
  BY <1>1, <1>2
<1>4. ASSUME NEW i \in DOMAIN w, NEW j \in DOMAIN w,
             Failure(w[i], t), Failure(w[j], t), i < j
      PROVE  \E k \in DOMAIN w : i < k /\ k < j /\ Claimed(w[k], t)
  <2>1. /\ i + n - 1 \in DOMAIN log /\ j + n - 1 \in DOMAIN log /\ i + n - 1 < j + n - 1
        /\ Failure(log[i + n - 1], t) /\ Failure(log[j + n - 1], t)
    <3>1. i \in 1 .. Len(log) - n + 1 /\ j \in 1 .. Len(log) - n + 1
      BY <1>3
    <3>2. w[i] = log[i + n - 1] /\ w[j] = log[j + n - 1]
      BY <1>3, <3>1
    <3>3. Failure(log[i + n - 1], t) /\ Failure(log[j + n - 1], t)
      BY <1>4, <3>2
    <3>4. i < j /\ n \in 1 .. Len(log) + 1
      BY <1>4
    <3>5. i + n - 1 \in 1 .. Len(log) /\ j + n - 1 \in 1 .. Len(log) /\ i + n - 1 < j + n - 1
      BY <1>1, <3>1, <3>4
    <3> QED BY <1>1, <3>3, <3>5
  <2>2. PICK k \in DOMAIN log : i + n - 1 < k /\ k < j + n - 1 /\ Claimed(log[k], t)
    BY <2>1 DEF AnsweredBetween
  <2>3. k - n + 1 \in DOMAIN w /\ i < k - n + 1 /\ k - n + 1 < j
    <3>1. i \in 1 .. Len(log) - n + 1 /\ j \in 1 .. Len(log) - n + 1 /\ k \in 1 .. Len(log)
      BY <1>1, <1>3
    <3>2. k - n + 1 \in 1 .. Len(log) - n + 1 /\ i < k - n + 1 /\ k - n + 1 < j
      BY <1>1, <1>2, <2>2, <3>1
    <3> QED BY <1>3, <3>2
  <2>4. w[k - n + 1] = log[k]
    <3>1. (k - n + 1) + n - 1 = k
      BY <1>1, <1>2, <2>2
    <3> QED BY <1>3, <2>3, <3>1
  <2> QED BY <2>2, <2>3, <2>4
<1> QED BY <1>1, <1>2, <1>3, <1>4 DEF AnsweredBetween

(* How the workflow comes to a place between a claim and a failure, and     *)
(* leaves the place where it logs the failure.                              *)
LEMMA ClaimedMoves ==
  ASSUME CurrentAttempt, OpenUntilClosing, [Next]_vars
  PROVE  /\ pc' \in ClaimedPcs => pc \in ClaimedPcs \cup {"claimedEv"}
         /\ pc = "failEv" => pc' \in {pc, "failRelease", "crashed"}
<1> USE DEF ClaimedPcs, SpokenPcs, HoldingPcs
<1>1. CASE RunMoves
  BY <1>1 DEF RunMoves, Enqueue, Start, Complete, FailRun, RetryRun, ResumeRun, OpenGate,
     PassGate, AskRun, GrantRun, DenyRun, RetryInPlace, RerunRun, AfterVerify, MoveRun,
     LostAnswer, engineVars, attemptVars, planVars
<1>2. CASE RunEvents
  BY <1>2 DEF RunEvents, EmitStarted, EmitCompleted, EmitFailed, EmitRetrying, EmitGate,
     EmitAsked, EmitRetryInPlace, EmitRun, Emit, LostAnswer, engineVars, attemptVars,
     planVars
<1>3. CASE TaskMoves
  BY <1>3 DEF TaskMoves, MoveClaimed, MoveRunning, AskTask, GrantTask, DenyTask, FailTask,
     MoveVerifying, RetryTask, RerunTask, FinishTask, MoveTask, LostAnswer, engineVars,
     attemptVars, planVars
<1>4. CASE TaskEvents
  BY <1>4 DEF TaskEvents, EmitClaimed, EmitReclaimed, EmitRunning, EmitGranted,
     EmitTaskFailed, EmitVerifying, EmitTaskCompleted, EmitTask, Emit, AfterVerify,
     LostAnswer, engineVars, attemptVars, planVars
<1>5. CASE ClaimSteps
  BY <1>5 DEF ClaimSteps, EmitTodo, Claim, FirstHeartbeat, SimulateReclaim, ReleaseFailed,
     ReleaseCompleted, GiveUp, Emit, LostAnswer, engineVars, attemptVars, planVars
<1>6. CASE LocalSteps
  BY <1>6 DEF LocalSteps, Plan, TakeBatch, NextTask, NothingReady, AttemptResult, Retryable,
     NextAttempt, GateAnswered, GateTimeout, ExecutorAsks, ExecutorSucceeds, ExecutorFails,
     ExecutorReturns, AskAnswered, AskTimeout, Local, attemptVars, planVars
<1>7. CASE Environment \/ UNCHANGED vars
  BY <1>7 DEF Environment, HeartbeatLoop, Signal, LeaseLapse, RecoveryScan, RecoverClaim,
     ReconcileTerminal, Crash, vars, engineVars, attemptVars, planVars
<1> QED BY <1>1, <1>2, <1>3, <1>4, <1>5, <1>6, <1>7, EngineSplit DEF Next

(* A step logs a failure of the current task alone, and none but where the  *)
(* attempt says so; nothing is logged after it in that step.                *)
LEMMA FailuresLogged ==
  ASSUME log \in Seq(Event), NEW m, Speaks(m), NEW t, NEW j \in DOMAIN (log \o m),
         Failure((log \o m)[j], t), j \notin DOMAIN log
  PROVE  EventDue /\ pc = "failEv" /\ t = cur[1] /\ j = Len(log) + 1
<1>1. m \in Seq(Event)
  BY DEF Speaks
<1>2. PICK k \in DOMAIN m : j = Len(log) + k /\ (log \o m)[j] = m[k]
  BY <1>1, Appended
<1>3. m[k] = Entry("status", t, "failed")
  BY <1>2 DEF Failure
<1>4. m[k].kind = "status" /\ m[k].task = t /\ m[k].status = "failed"
  BY <1>3 DEF Entry
<1>5. k = 1 /\ EventDue /\ m[k] = Entry("status", cur[1], StatusAt[pc])
  BY <1>4 DEF Speaks
<1>6. t = cur[1] /\ StatusAt[pc] = "failed"
  BY <1>4, <1>5 DEF Entry
<1> QED BY <1>2, <1>5, <1>6 DEF EventDue, StatusAt

(* Where the workflow logs a failure it holds the claim the last failure    *)
(* was answered with.                                                       *)
LEMMA FailuresAnsweredStep ==
  ASSUME IInv, FailuresAnswered, log \in Seq(Event), [Next]_vars,
         NEW m, Speaks(m), log' = log \o m
  PROVE  FailuresAnswered'
<1>1. /\ m \in Seq(Event) /\ CurrentAttempt /\ OpenUntilClosing
      /\ Len(log) \in Nat /\ DOMAIN log = 1 .. Len(log)
      /\ DOMAIN (log \o m) \subseteq Nat
  <2>1. m \in Seq(Event)
    BY DEF Speaks
  <2>2. log \o m \in Seq(Event)
    BY <2>1
  <2> QED BY <2>1, <2>2 DEF IInv
<1>2. /\ \A i \in DOMAIN log : i \in DOMAIN (log \o m) /\ (log \o m)[i] = log[i]
      /\ \A i \in DOMAIN (log \o m) : i \notin DOMAIN log => i > Len(log)
  <2>1. Len(m) \in Nat /\ DOMAIN m = 1 .. Len(m)
    BY <1>1
  <2> QED BY <1>1, <2>1, Appended
<1>3. ASSUME NEW t \in Task, NEW i \in DOMAIN (log \o m), NEW j \in DOMAIN (log \o m),
             Failure((log \o m)[i], t), Failure((log \o m)[j], t), i < j
      PROVE  \E k \in DOMAIN (log \o m) : i < k /\ k < j /\ Claimed((log \o m)[k], t)
  <2>1. CASE j \in DOMAIN log
    <3>1. i \in DOMAIN log
      BY <1>1, <1>3, <2>1
    <3>2. Failure(log[i], t) /\ Failure(log[j], t)
      BY <1>2, <1>3, <2>1, <3>1
    <3>3. PICK k \in DOMAIN log : i < k /\ k < j /\ Claimed(log[k], t)
      BY <1>3, <2>1, <3>1, <3>2 DEF FailuresAnswered, AnsweredBetween
    <3> QED BY <1>2, <3>3
  <2>2. CASE j \notin DOMAIN log
    <3>1. EventDue /\ pc = "failEv" /\ t = cur[1] /\ j = Len(log) + 1
      BY <1>3, <2>2, FailuresLogged
    <3>2. i \in DOMAIN log
      BY <1>1, <1>2, <1>3, <3>1
    <3>3. PICK k \in DOMAIN log :
            Claimed(log[k], t) /\ \A h \in DOMAIN log : Failure(log[h], t) => h < k
      BY <3>1 DEF FailuresAnswered, OpenClaim, ClaimedPcs, SpokenPcs, HoldingPcs
    <3>4. i < k
      BY <1>2, <1>3, <3>2, <3>3
    <3>5. k < j
      BY <1>1, <3>1, <3>3
    <3> QED BY <1>2, <3>3, <3>4, <3>5
  <2> QED BY <2>1, <2>2
<1>4. ASSUME pc' \in ClaimedPcs PROVE OpenClaim(log \o m, cur'[1])
  <2>1. pc \in ClaimedPcs \cup {"claimedEv"} /\ ~(EventDue /\ pc = "failEv")
    BY <1>1, <1>4, ClaimedMoves DEF EventDue, ClaimedPcs, SpokenPcs, HoldingPcs
  <2>2. cur' = cur
    BY <1>1, <2>1, CurrentMoves DEF ClaimedPcs, SpokenPcs, HoldingPcs
  <2>3. \A i \in DOMAIN (log \o m) : Failure((log \o m)[i], cur[1])
          => i \in DOMAIN log /\ Failure(log[i], cur[1])
    BY <1>2, <2>1, FailuresLogged
  <2>4. CASE pc \in ClaimedPcs
    <3>1. PICK k \in DOMAIN log :
            Claimed(log[k], cur[1]) /\ \A i \in DOMAIN log : Failure(log[i], cur[1]) => i < k
      BY <2>4 DEF FailuresAnswered, OpenClaim
    <3> QED BY <1>2, <2>2, <2>3, <3>1 DEF OpenClaim
  <2>5. CASE pc = "claimedEv"
    <3>1. EventDue /\ StatusAt[pc] = "claimed"
      BY <1>4, <2>5 DEF EventDue, StatusAt, ClaimedPcs, SpokenPcs, HoldingPcs
    <3>2. 1 \in DOMAIN m /\ m[1] = Entry("status", cur[1], "claimed")
      BY <3>1 DEF Speaks
    <3>3. Len(log) + 1 \in DOMAIN (log \o m) /\ (log \o m)[Len(log) + 1] = m[1]
      BY <1>1, <3>2, Appended
    <3>4. Claimed((log \o m)[Len(log) + 1], cur[1])
      BY <3>2, <3>3 DEF Claimed
    <3>5. \A i \in DOMAIN log : i < Len(log) + 1
      BY <1>1
    <3> QED BY <2>2, <2>3, <3>3, <3>4, <3>5 DEF OpenClaim
  <2> QED BY <2>1, <2>4, <2>5
<1>5. \A t \in Task : AnsweredBetween(log \o m, t)
  BY <1>3 DEF AnsweredBetween
<1> QED BY <1>4, <1>5 DEF FailuresAnswered

(* The failures of a task are answered throughout a run.                    *)
LEMMA FailuresAnsweredInvariance == ReadSpec => []FailuresAnswered
<1>1. ReadInit => FailuresAnswered
  <2> SUFFICES ASSUME ReadInit PROVE FailuresAnswered
    OBVIOUS
  <2>1. log = << >> /\ pc = "queue"
    BY DEF ReadInit, Init
  <2>2. DOMAIN log = {}
    BY <2>1
  <2> QED
    BY <2>1, <2>2 DEF FailuresAnswered, AnsweredBetween, ClaimedPcs, SpokenPcs, HoldingPcs
<1>2. ASSUME IInv, FailuresAnswered, log \in Seq(Event), [ReadNext]_readVars
      PROVE  FailuresAnswered'
  <2>1. [Next]_vars
    BY <1>2 DEF ReadNext, readVars, WorkflowStep, RunStep, GraphActivity,
       NotificationActivity
  <2>2. PICK m : Speaks(m) /\ log' = log \o m
    BY <1>2, LogStep DEF IInv
  <2> QED BY <1>2, <2>1, <2>2, FailuresAnsweredStep
<1> QED BY <1>1, <1>2, LogInvariance, ReadModelsRun, Invariance, PTL DEF ReadSpec

(* A recovery time is measured from the last failure before the claim       *)
(* (ReadModels!RecoveryFromLastFailure; runtime_sla_snapshot), wherever the *)
(* window on the events begins and under every fault of the model: between  *)
(* two failures of a task there is always a claim, so that one failure at   *)
(* most is pending.                                                         *)
THEOREM RecoveriesStartAtTheLastFailure == ReadSpec => []RecoveryFromLastFailure
<1>1. ASSUME log \in Seq(Event), FailuresAnswered PROVE RecoveryFromLastFailure
  <2> SUFFICES ASSUME NEW t \in Task, NEW w \in Windows, NEW p \in Pair(w, t)
               PROVE  \A i \in p[1] + 1 .. p[2] : ~Failure(w[i], t)
    BY DEF RecoveryFromLastFailure
  <2>1. AnsweredBetween(log, t)
    BY <1>1 DEF FailuresAnswered
  <2>2. Len(w) \in Nat /\ DOMAIN w = 1 .. Len(w) /\ AnsweredBetween(w, t)
    BY <1>1, <2>1, WindowsAnswered
  <2>3. Clean(w, t, p)
    BY <2>2, RecoveriesAreClean
  <2> QED BY <2>3 DEF Clean
<1> QED BY <1>1, FailuresAnsweredInvariance, LogInvariance, PTL
=============================================================================
