------------------------------ MODULE MCMemory ------------------------------
(***************************************************************************)
(* Two contents, a fact and a lesson, for Memory.                           *)
(***************************************************************************)
EXTENDS Memory, TLC

CONSTANTS fact, lesson, u, v

Kinds == (fact :> "project_fact") @@ (lesson :> "lesson")

Fading == [key |-> fact, named |-> TRUE, quality |-> 62, force |-> FALSE,
           retention |-> "decay", ref |-> Doc]
(* Too weak for the default threshold.                                      *)
Unnamed == [Fading EXCEPT !.named = FALSE, !.quality = 63]
Strong == [Fading EXCEPT !.quality = 90, !.retention = "keep", !.ref = Empty]
Lesson == [Fading EXCEPT !.key = lesson, !.quality = 40, !.retention = "keep", !.force = TRUE]

AllCandidates == {Fading, Unnamed, Strong, Lesson}
OneCandidate == {Lesson}
Writers == Permutations({u, v})

Weeks == "decay" :> 0
=============================================================================
