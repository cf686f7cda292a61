------------------------------- MODULE Context -------------------------------
(***************************************************************************)
(* The context an executor is given (context/query.py, assembly.py,         *)
(* service.py): what is known about the task, ranked within four levels,    *)
(* cut to a number of blocks a level and to a budget over all.              *)
(*                                                                          *)
(* A text is a name for its words, letter case and surrounding space aside, *)
(* and its length in characters; a text of length 0 says nothing.  Scores   *)
(* are in hundredths.  Evidence references and skills are left out: a run   *)
(* asks for no skill.                                                       *)
(***************************************************************************)
EXTENDS Integers, Sequences, FiniteSets

Say(name, length) == [name |-> name, length |-> length]
Least(m, n) == IF m < n THEN m ELSE n
First(n, s) == SubSeq(s, 1, Least(n, Len(s)))
Each(s, score) == [i \in DOMAIN s |-> [text |-> s[i], score |-> score]]

-----------------------------------------------------------------------------
(* The queries.  Each has a session of its own; in records k:               *)
(*   title, description   texts of the row of the task                      *)
(*   runs                 lengths of the objectives of the project's runs   *)
(*   attempts             texts of the task's attempt summaries             *)
(*   memory               what a recall returns: texts with scores          *)
(* each list newest or best first.                                          *)

(* query_task_core *)
TaskCore(k) == <<k.title, k.description>>

(* query_project_facts *)
ProjectFacts(k, limit) ==
  [i \in 1 .. Least(limit, Len(k.runs)) |-> Say(<<"objective", i>>, Least(k.runs[i], 500))]

(* query_recent_attempts: a summary is listed as it was last written,       *)
(* whether or not the attempt still runs.                                   *)
RecentAttempts(k, limit) == First(limit, k.attempts)
MemoryRecall(k, limit) == First(limit, k.memory)

(* query_constraints: nothing is read, the request says it all.             *)
WriteApproval == Say(<<"write_approval">>, 41)
NoSecretBroker == Say(<<"secret_broker_disabled">>, 61)
ReadOnly == Say(<<"read_only_workspace">>, 30)
Constraints(q) ==
  (IF q.approval THEN <<WriteApproval>> ELSE << >>)
    \o (IF q.broker THEN << >> ELSE <<NoSecretBroker>>)
    \o (IF q.readOnly THEN <<ReadOnly>> ELSE << >>)

(* _derive_workflow_summary: the title and two counts.                      *)
WorkflowSummary(k) == Say(<<"summary">>, 60 + k.title.length)

-----------------------------------------------------------------------------
(* The blocks                                                               *)

TaskCoreEntries(k) == Each(First(1, TaskCore(k)), 100) \o Each(Tail(TaskCore(k)), 95)
SecurityEntriesLast(q) == Each(Constraints(q), 50)
SecurityEntries(q) == Each(Constraints(q), 75)
SummaryEntries(k) == <<[text |-> WorkflowSummary(k), score |-> 80]>>
FactEntries(k, q) == Each(ProjectFacts(k, q.facts), 70)
AttemptEntries(k, q) == Each(RecentAttempts(k, q.attempts), 60)
MemoryEntries(k, q) == MemoryRecall(k, q.memory)

(* _rank_entries: empty texts and repetitions go, the sort is stable.       *)
Said(entries) ==
  {i \in DOMAIN entries :
     /\ entries[i].text.length > 0
     /\ \A j \in 1 .. i - 1 : entries[j].text.name # entries[i].text.name}
Before(entries, i, j) ==
  \/ entries[i].score > entries[j].score
  \/ entries[i].score = entries[j].score /\ i < j
Place(entries, said, i) == 1 + Cardinality({j \in said : Before(entries, j, i)})
RankEntries(entries, limit) ==
  LET said == Said(entries) IN
  [n \in 1 .. Least(limit, Cardinality(said)) |->
     entries[CHOOSE i \in said : Place(entries, said, i) = n].text]

(* _entries_to_blocks *)
MaxBody == 280
Blocks(level, texts) ==
  [i \in DOMAIN texts |->
     [level |-> level, name |-> texts[i].name, length |-> Least(texts[i].length, MaxBody),
      truncated |-> texts[i].length > MaxBody]]

Total(blocks) ==
  LET upTo[n \in 0 .. Len(blocks)] ==
        IF n = 0 THEN 0 ELSE upTo[n - 1] + blocks[n].length
  IN upTo

(* _apply_token_budget: four characters a token, the last block cut short.  *)
ApplyTokenBudget(blocks, tokens) ==
  LET before == Total(blocks)
      left(i) == 4 * tokens - before[i - 1]
      kept == {i \in DOMAIN blocks : left(i) > 0}
  IN [i \in 1 .. Cardinality(kept) |->
        IF blocks[i].length <= left(i) THEN blocks[i]
        ELSE [blocks[i] EXCEPT !.length = left(i), !.truncated = TRUE]]

(* ContextBuilderService.build_from_records *)
BuildFromRecords(k, q) ==
  LET level(l, entries) == Blocks(l, RankEntries(entries, q.blocks)) IN
  ApplyTokenBudget(
    level(0, TaskCoreEntries(k))
      \o level(1, FactEntries(k, q) \o SummaryEntries(k) \o SecurityEntries(q))
      \o level(2, AttemptEntries(k, q))
      \o level(3, MemoryEntries(k, q)),
    q.tokens)
=============================================================================
