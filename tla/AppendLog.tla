------------------------------ MODULE AppendLog ------------------------------
(***************************************************************************)
(* What a reader of one run's events relies on: a log that grows only at    *)
(* its end, by one entry at a time, whose times never go back.              *)
(***************************************************************************)
EXTENDS Naturals, Sequences

CONSTANT Entry    \* the entries, each with a time "at"

VARIABLE log

LogInit == log = << >>

(* The entry is not older than the one it follows.                          *)
InTime(entry) == \A i \in 1 .. Len(log) : log[i].at <= entry.at

LogNext ==
  \E entry \in Entry : InTime(entry) /\ log' = Append(log, entry)

LogSpec == LogInit /\ [][LogNext]_log
=============================================================================
