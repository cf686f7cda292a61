------------------------------- MODULE Memory -------------------------------
(***************************************************************************)
(* The memory of a project: the governance of writes (memory/governance.py, *)
(* memory/service.py), the remote store each write goes to first            *)
(* (integrations/memory), recall with its ranking (memory/ranking.py) and   *)
(* maintenance (memory/maintenance.py).  Every request has a thread and its *)
(* own database sessions: what one session read may be gone in the next.    *)
(*                                                                          *)
(* A key is a project, a namespace and a content hash.  Time is counted in  *)
(* weeks, the half-life of the ranking.                                     *)
(***************************************************************************)
EXTENDS Integers, FiniteSets, FiniteSetsExt

CONSTANTS
  Key,
  NamespaceOf,   \* the kind of namespace each key is in
  Providers,     \* the remote stores a deployment may have
  Outcomes,      \* how calls of mem0 end: "id", "no id", "lost", "refused"
  Candidates,    \* the candidates that are written
  TTL,           \* retention policy -> weeks until a record is stale
  PurgeAge,      \* max_age_days of purge_stale_records, in weeks
  Batch,         \* BATCH_SIZE
  Limit,         \* the limit of a recall
  Writer,        \* the threads that write
  MaxWrites,     \* bound: writes
  MaxNow,        \* bound: weeks
  MaxPasses      \* bound: maintenance passes

(* external_ref: a document, nothing, a memory of mem0, or the OpenViking   *)
(* resource of a key.  An addition whose answer had no id is referred to as *)
(* "unknown", which is read as the id of a memory like any other.           *)
Doc == <<"doc", 0>>
Empty == <<"empty", 0>>
Mem0(n) == <<"mem0", n>>
Unknown == Mem0(0)
Mem0Ref == {"mem0"} \X Nat
Uri(k) == <<"uri", k>>

Retention == DOMAIN TTL \cup {"keep"}

(* MemoryWriteCandidate; named: it gives its namespace itself.  The record  *)
(* it supersedes, if any, is chosen when it is written.                     *)
Candidate == [key : Key, named : BOOLEAN, quality : 0..100, force : BOOLEAN,
              retention : Retention, ref : {Doc, Empty} \cup Mem0Ref]

ASSUME MemoryAssumption ==
  /\ NamespaceOf \in [Key -> {"long_term_knowledge", "project_fact", "lesson", "other"}]
  /\ Providers \subseteq {"mem0", "openviking"}
  /\ Outcomes \subseteq {"id", "no id", "lost", "refused"}
  /\ Candidates \subseteq Candidate
  /\ \A p \in DOMAIN TTL : TTL[p] \in Nat
  /\ {PurgeAge, MaxWrites, MaxNow, MaxPasses} \subseteq Nat
  /\ {Batch, Limit} \subseteq Nat \ {0}

VARIABLES
  provider,
  rows,     \* memory_records: a function on the ids of the records
  bumps,    \* for each id ever given, the superseding writes committed to it
  remote,   \* the memories of mem0: reference -> the key its text is about
  stored,   \* memories added to mem0 so far
  idless,   \* keys whose addition was answered without an id so far
  writes,   \* writes so far
  wr,       \* what each writer is doing
  maint,    \* what maintenance is doing
  now,
  since,    \* records written since the last finished pass began
  during    \* records written since the current pass began

vars == <<provider, rows, bumps, remote, stored, idless, writes, wr, maint, now,
          since, during>>
dbVars == <<rows, bumps, since, during>>
remoteVars == <<remote, stored, idless>>
fixedVars == <<provider, now>>

None == 0        \* no record
Never == -1      \* no time
Live == DOMAIN rows
OfKey(k) == {r \in Live : rows[r].key = k}
Idle == [at |-> "idle"]
Put(f, x, y) == [z \in DOMAIN f \cup {x} |-> IF z = x THEN y ELSE f[z]]

Init ==
  /\ provider \in Providers
  /\ rows = <<>> /\ bumps = <<>> /\ remote = <<>>
  /\ stored = 0 /\ idless = {} /\ writes = 0 /\ now = 0
  /\ wr = [w \in Writer |-> Idle]
  /\ maint = [at |-> "idle", hit |-> {}, passes |-> 0]
  /\ since = {} /\ during = {}

-----------------------------------------------------------------------------
(* Writes.                                                                  *)

(* WriteGovernancePolicy.threshold_for: only a namespace the candidate      *)
(* names itself is looked up.                                               *)
Threshold(c) ==
  LET ns == IF c.named THEN NamespaceOf[c.key] ELSE "other" IN
    [min |-> CASE ns = "long_term_knowledge" -> 70 [] ns = "project_fact" -> 60
               [] OTHER -> 65,
     merge |-> ns # "lesson"]

(* WriteGovernancePolicy.evaluate.                                          *)
Governed(c, sup) ==
  IF ~c.force /\ c.quality < Threshold(c).min THEN "decline"
  ELSE IF OfKey(c.key) = {} THEN "accept"
  ELSE IF sup # None THEN "supersede"
  ELSE IF Threshold(c).merge THEN "merge" ELSE "decline"

(* write: the decision is taken in a session of its own; a declined         *)
(* candidate leaves nothing.                                                *)
Evaluate(w, c, sup) ==
  /\ wr[w] = Idle /\ writes < MaxWrites
  /\ Governed(c, sup) # "decline"
  /\ writes' = writes + 1
  /\ wr' = [wr EXCEPT ![w] = [at |-> Governed(c, sup), cand |-> c, sup |-> sup,
                              ref |-> c.ref, old |-> Empty, seen |-> None]]
  /\ UNCHANGED <<fixedVars, dbVars, remoteVars, maint>>

(* _handle_supersede looks up the mem0 memory it will overwrite.            *)
OverwritesSuperseded(w) == {wr[w].sup} \cap Live
Overwrites(w) == OfKey(wr[w].cand.key)
Lookup(w) ==
  /\ provider = "mem0" /\ wr[w].at = "supersede"
  /\ wr' = [wr EXCEPT ![w].at = "overwrite",
                      ![w].old = IF Overwrites(w) = {} THEN Empty
                                 ELSE rows[CHOOSE r \in Overwrites(w) : TRUE].ref]
  /\ UNCHANGED <<fixedVars, dbVars, remoteVars, writes, maint>>

Answered(w, ref) ==
  wr' = [wr EXCEPT ![w].at = IF wr[w].at = "accept" THEN "insert" ELSE "upsert",
                   ![w].ref = ref, ![w].old = Empty]

(* Mem0MemoryAdapter.write: an update of the memory the old record refers   *)
(* to, "unknown" included, or a new memory.  A call that fails may have     *)
(* stored its text all the same, and the answer to an addition may have no  *)
(* id; an update keeps the id it was asked for.                             *)
Mem0Write(w, outcome) ==
  LET old == wr[w].old
      updates == old \in Mem0Ref
      ref == IF updates THEN old ELSE Mem0(stored + 1)
      lacksId == outcome = "no id" /\ ~updates IN
    /\ provider = "mem0" /\ wr[w].at \in {"accept", "overwrite"}
    /\ remote' = IF outcome = "refused" THEN remote ELSE Put(remote, ref, wr[w].cand.key)
    /\ stored' = IF outcome = "refused" \/ updates THEN stored ELSE stored + 1
    /\ idless' = IF lacksId THEN idless \cup {wr[w].cand.key} ELSE idless
    /\ Answered(w, CASE outcome \in {"lost", "refused"} -> wr[w].cand.ref
                     [] lacksId -> Unknown
                     [] OTHER -> ref)
    /\ UNCHANGED <<fixedVars, dbVars, writes, maint>>

(* OpenVikingMemoryAdapter.write: up to four tries at the resource that the *)
(* key names, so that what the remote store holds is not kept here.  A      *)
(* server without the tool counts as written.                               *)
OpenVikingWrite(w) ==
  /\ provider = "openviking" /\ wr[w].at \in {"accept", "supersede"}
  /\ \E got \in {Uri(wr[w].cand.key), wr[w].cand.ref} : Answered(w, got)
  /\ UNCHANGED <<fixedVars, dbVars, remoteVars, writes, maint>>

Record(w, version, sup, created) ==
  [key |-> wr[w].cand.key, version |-> version, quality |-> wr[w].cand.quality,
   ref |-> wr[w].ref, sup |-> sup, retention |-> wr[w].cand.retention,
   created |-> created, used |-> created, stale |-> Never]

Wrote(r) ==
  /\ since' = since \cup {r}
  /\ during' = IF maint.at = "idle" THEN {} ELSE during \cup {r}

(* The insert of _handle_accept and of the upsert: the unique constraint    *)
(* and the foreign key on supersedes_record_id refuse it.                   *)
Insert(w) ==
  LET id == Cardinality(DOMAIN bumps) + 1 IN
    IF wr[w].sup \in Live \cup {None} /\ OfKey(wr[w].cand.key) = {}
    THEN /\ rows' = Put(rows, id, Record(w, 1, wr[w].sup, now))
         /\ bumps' = Put(bumps, id, 0)
         /\ Wrote(id)
    ELSE UNCHANGED dbVars

StoreNew(w) ==
  /\ wr[w].at = "insert"
  /\ Insert(w)
  /\ wr' = [wr EXCEPT ![w] = Idle]
  /\ UNCHANGED <<fixedVars, remoteVars, writes, maint>>

(* ON CONFLICT DO UPDATE: the database counts the version, the record is    *)
(* recalled again, and what it superseded stays unless the write says more. *)
RewriteFirstVersion(w, r) ==
  [Record(w, 2, wr[w].sup, rows[r].created) EXCEPT !.used = rows[r].used]
Rewrite(w, r) ==
  LET old == rows[r] IN
    [Record(w, old.version + 1, IF wr[w].sup = None THEN old.sup ELSE wr[w].sup, old.created)
       EXCEPT !.used = old.used]

StoreSuperseding(w) ==
  /\ wr[w].at = "upsert"
  /\ wr' = [wr EXCEPT ![w] = Idle]
  /\ IF OfKey(wr[w].cand.key) = {} THEN Insert(w)
     ELSE IF wr[w].sup \in Live \cup {None}
     THEN \E r \in OfKey(wr[w].cand.key) :
            /\ rows' = [rows EXCEPT ![r] = Rewrite(w, r)]
            /\ bumps' = [bumps EXCEPT ![r] = @ + 1]
            /\ Wrote(r)
     ELSE UNCHANGED dbVars
  /\ UNCHANGED <<fixedVars, remoteVars, writes, maint>>

(* _handle_merge reads the record: a better candidate improves it, any      *)
(* other changes nothing; a record that is gone is accepted as a new one.   *)
MergeRead(w) ==
  LET c == wr[w].cand IN
    /\ wr[w].at = "merge"
    /\ \/ /\ OfKey(c.key) = {}
          /\ wr' = [wr EXCEPT ![w].at = "accept"]
       \/ \E r \in OfKey(c.key) :
            wr' = IF c.quality > rows[r].quality
                  THEN [wr EXCEPT ![w].at = "improve", ![w].seen = r]
                  ELSE [wr EXCEPT ![w] = Idle]
    /\ UNCHANGED <<fixedVars, dbVars, remoteVars, writes, maint>>

(* ... and commits the columns it changed, if the record is still there.    *)
MergeWrite(w) ==
  /\ wr[w].at = "improve"
  /\ rows' = IF wr[w].seen \in Live
             THEN [rows EXCEPT ![wr[w].seen].quality = wr[w].cand.quality] ELSE rows
  /\ wr' = [wr EXCEPT ![w] = Idle]
  /\ UNCHANGED <<fixedVars, bumps, since, during, remoteVars, writes, maint>>

-----------------------------------------------------------------------------
(* Maintenance.  Each part selects a batch, and writes it in a later step.  *)

Batches(S) == kSubset(IF Cardinality(S) < Batch THEN Cardinality(S) ELSE Batch, S)

Part(from, to, hit) ==
  /\ maint.at = from
  /\ \E picked \in hit : maint' = [maint EXCEPT !.at = to, !.hit = picked]
  /\ UNCHANGED <<fixedVars, rows, bumps, since, remoteVars, writes, wr>>

(* mark_stale_records: what has outlived its retention policy.              *)
Expired(p) == {r \in Live : /\ rows[r].retention = p /\ rows[r].stale = Never
                            /\ rows[r].created + TTL[p] < now}
MarkSelect ==
  /\ maint.passes < MaxPasses
  /\ Part("idle", "mark", {picked \in SUBSET Live : \A p \in Retention :
            {r \in picked : rows[r].retention = p} \in
              (IF p = "keep" THEN {{}} ELSE Batches(Expired(p)))})
  /\ during' = {}

(* merge_superseded_records: what some record supersedes, the record itself *)
(* included.                                                                *)
SupersedingLive == {r \in Live : rows[r].sup # None /\ rows[r].stale = Never}
Superseding == {r \in Live : rows[r].sup # None}
MergeSelect ==
  /\ Part("mark done", "merge", {{rows[r].sup : r \in b} : b \in Batches(Superseding)})
  /\ UNCHANGED during

(* cleanup_invalid_external_refs.                                           *)
CleanSelect ==
  /\ Part("merge done", "clean", Batches({r \in Live : rows[r].ref = Empty}))
  /\ UNCHANGED during

(* purge_stale_records.                                                     *)
PurgeSelect ==
  /\ Part("clean done", "purge",
          Batches({r \in Live : rows[r].stale # Never /\ rows[r].stale + PurgeAge < now}))
  /\ UNCHANGED during

Retire ==
  \E part \in {"mark", "merge", "clean"} :
    /\ maint.at = part
    /\ rows' = [r \in Live |-> IF r \in maint.hit THEN [rows[r] EXCEPT !.stale = now]
                               ELSE rows[r]]
    /\ maint' = [maint EXCEPT !.at = CASE part = "mark" -> "mark done"
                                       [] part = "merge" -> "merge done"
                                       [] OTHER -> "clean done", !.hit = {}]
    /\ UNCHANGED <<fixedVars, bumps, since, during, remoteVars, writes, wr>>

(* The pass ends; deleting a record clears the references to it.            *)
WithoutClearing(hit) == [r \in Live \ hit |-> rows[r]]
Without(hit) ==
  [r \in Live \ hit |-> IF rows[r].sup \in hit THEN [rows[r] EXCEPT !.sup = None] ELSE rows[r]]
Purge ==
  /\ maint.at = "purge"
  /\ rows' = Without(maint.hit)
  /\ maint' = [at |-> "idle", hit |-> {}, passes |-> maint.passes + 1]
  /\ since' = during /\ during' = {}
  /\ UNCHANGED <<fixedVars, bumps, remoteVars, writes, wr>>

-----------------------------------------------------------------------------
(* Recall.                                                                  *)

(* MemoryRankingService._compute_score of a record: its quality, which is   *)
(* its score, and its recency, halved every week since it was last used.    *)
Score(r) == 55 * rows[r].quality + 20 * (100 \div 2 ^ (now - rows[r].used))

(* The local records read, in no order and at most three times the limit,   *)
(* and the best of them.  The remote store only fills places left over: it  *)
(* displaces no local record, and what it returns is not touched.           *)
Recallable == {r \in Live : rows[r].stale = Never}
Answers ==
  LET least(n, S) == IF Cardinality(S) < n THEN Cardinality(S) ELSE n IN
    UNION {{top \in kSubset(least(Limit, read), read) :
              \A r \in top, q \in read \ top : Score(r) >= Score(q)}
           : read \in kSubset(least(3 * Limit, Recallable), Recallable)}

(* _touch_recall_stats of the records returned, in sessions of their own.   *)
Recall ==
  /\ \E top \in Answers \ {{}} :
       rows' = [r \in Live |-> IF r \in top THEN [rows[r] EXCEPT !.used = now] ELSE rows[r]]
  /\ UNCHANGED <<fixedVars, bumps, since, during, remoteVars, writes, wr, maint>>

Tick ==
  /\ now < MaxNow /\ now' = now + 1
  /\ UNCHANGED <<provider, dbVars, remoteVars, writes, wr, maint>>

Next ==
  \/ \E w \in Writer :
       \/ \E c \in Candidates, sup \in Live \cup {None} : Evaluate(w, c, sup)
       \/ Lookup(w) \/ OpenVikingWrite(w) \/ \E o \in Outcomes : Mem0Write(w, o)
       \/ StoreNew(w) \/ StoreSuperseding(w) \/ MergeRead(w) \/ MergeWrite(w)
  \/ MarkSelect \/ MergeSelect \/ CleanSelect \/ PurgeSelect \/ Retire \/ Purge
  \/ Recall \/ Tick

Spec == Init /\ [][Next]_vars

-----------------------------------------------------------------------------
(* Properties.                                                              *)

Ref == {Doc, Empty} \cup Mem0Ref \cup {Uri(k) : k \in Key}

TypeOK ==
  /\ provider \in Providers
  /\ \A r \in Live : rows[r] \in
       [key : Key, version : 1..(MaxWrites + 1), quality : 0..100, ref : Ref,
        sup : {None} \cup Live, retention : Retention, created : 0..now,
        used : 0..now, stale : Never..now]
  /\ \A e \in DOMAIN remote : remote[e] \in Key
  /\ idless \subseteq Key
  /\ maint.at \in {"idle", "mark", "mark done", "merge", "merge done", "clean", "clean done",
                   "purge"}
  /\ {writes, stored} \subseteq 0..MaxWrites /\ now \in 0..MaxNow
  /\ (since \cup during \cup maint.hit \cup Live) \subseteq DOMAIN bumps

(* A content is kept once, and its version counts the superseding writes   *)
(* committed to it, although a writer decides in one session, asks the      *)
(* remote store and writes in another: of two writers that found nothing    *)
(* one is refused, two that decided on the same version count twice, and a  *)
(* content purged before the write starts again with 1.                     *)
OneCountedRecord ==
  /\ \A k \in Key : Cardinality(OfKey(k)) <= 1
  /\ \A r \in Live : rows[r].version = bumps[r] + 1

(* The memory of mem0 a record refers to by its id is there, is about the   *)
(* content of the record, and belongs to no other record, whatever calls    *)
(* failed, lost their answer or raced a purge.  The memory "unknown" is not *)
(* like that: records share it, and each rewrite of one overwrites what the *)
(* others had there.  But only contents whose own addition was answered     *)
(* without an id are drawn in: no other record refers to it, and no other   *)
(* content is written to it.  (No candidate refers to mem0 itself.)         *)
OwnMemory ==
  /\ \A r \in Live : rows[r].ref \in Mem0Ref =>
       IF rows[r].ref = Unknown THEN rows[r].key \in idless
       ELSE /\ rows[r].ref \in DOMAIN remote /\ remote[rows[r].ref] = rows[r].key
            /\ \A q \in Live \ {r} : rows[q].ref # rows[r].ref
  /\ Unknown \in DOMAIN remote => remote[Unknown] \in idless

(* Once a pass of maintenance has ended, a recall returns no record of the  *)
(* database that another one supersedes, unless one of the two was written  *)
(* after the pass began.  (Batch is not smaller than the records are many.) *)
RecallSkipsSuperseded ==
  \A r \in (UNION Answers) \ since : ~\E q \in Live \ since : rows[q].sup = r

(* docs/plans/2026-04-19-ai-desk-closure-plan/T4-memory-governance-backbone *)
(* .md:94, the stale cleanup does not remove valuable records by mistake: a *)
(* record to be kept for the project, with a reference, leaves recall only  *)
(* while another record supersedes it.                                      *)
CleanupSparesCurrent ==
  [][\A r \in Live \cap DOMAIN rows' :
       /\ rows[r].stale = Never /\ rows'[r].stale # Never
       /\ rows[r].retention = "keep" /\ rows[r].ref # Empty
       => \E q \in Live \ {r} : rows[q].sup = r]_vars
=============================================================================
