--------------------------- MODULE MCApprovalFlow ---------------------------
(***************************************************************************)
(* A small workspace for ApprovalFlow: a root, a directory in it, a sibling *)
(* of the root whose name starts with the root's name, and a path that is   *)
(* written as one below the root but goes up again ("root/../elsewhere").   *)
(***************************************************************************)
EXTENDS TaskContext, TLC

CONSTANTS root, inside, beside, climbing, run, drop

WithSlash == {<<p, p>> : p \in Path} \cup {<<inside, root>>, <<climbing, root>>}
Prefixes == WithSlash \cup {<<beside, root>>}

Plain == [root |-> root, allow |-> {}, writable |-> {inside}, gated |-> FALSE, full |-> FALSE]
Gated == [Plain EXCEPT !.gated = TRUE]
Reading == [Gated EXCEPT !.writable = {}]
(* Asks for a path that is not beneath its root: it needs an approval too.  *)
Straying == [Plain EXCEPT !.writable = {beside}]
BreakGlass == [Plain EXCEPT !.full = TRUE]
RunPolicies == {Plain, Gated, Straying, Reading, BreakGlass}
BreakGlassOnly == {BreakGlass}

Direct == [root |-> root, allow |-> {root}, writable |-> {inside}, inPlace |-> TRUE,
           manual |-> FALSE, glass |-> FALSE, commands |-> {run, drop}, only |-> {},
           never |-> {}, secrets |-> FALSE, broker |-> FALSE]
DirectDenied == [Direct EXCEPT !.never = {drop}]
DirectBundles == {Direct, DirectDenied}

Reviewers == Permutations(Reviewer)

(* Nothing, and more than was asked for.  (What is outside the root is      *)
(* granted where Straying asks for it.)                                     *)
TwoScopes == {{}, {climbing}}

(* One hook that concerns other calls only, and one that allows this one.   *)
TwoHooks == <<[before |-> TRUE, concerns |-> FALSE, idempotent |-> FALSE, verdict |-> "deny"],
              [before |-> TRUE, concerns |-> TRUE, idempotent |-> TRUE, verdict |-> "allow"]>>

(* A project of few runs, one of many with texts longer than a block, and   *)
(* one whose failures give no reason.                                       *)
New == [title |-> Say(<<"title">>, 20), description |-> Say(<<"title">>, 20), runs |-> <<40>>,
        memory |-> << >>, reason |-> 60]
Recalled(n) == [i \in 1 .. n |-> [text |-> Say(<<"memory", i>>, 300), score |-> 50 + i]]
Old == [title |-> Say(<<"title">>, 255), description |-> Say(<<"description">>, 900),
        runs |-> [i \in 1 .. 6 |-> 600], memory |-> Recalled(6), reason |-> 900]
Bare == [Old EXCEPT !.description = Say(<<"description">>, 0), !.runs = <<10>>, !.reason = 0]
Projects == {New, Old, Bare}

(* The defaults, and what a run's metadata may make of them.                *)
Default == [facts |-> 5, attempts |-> 3, memory |-> 5, blocks |-> 5, tokens |-> 4000,
            broker |-> FALSE]
Limits == {Default, [Default EXCEPT !.broker = TRUE]} \cup {[Default EXCEPT !.tokens = t, !.blocks = b, !.attempts = a] :
                            t \in {100, 300, 600, 840, 1100}, b \in {1, 3, 5}, a \in {1, 3}}
=============================================================================
