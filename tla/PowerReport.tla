---------------------------- MODULE PowerReport -----------------------------
(***************************************************************************)
(* What a power test promises: the report of an invocation is, iteration   *)
(* after iteration, one row per query in query order, each with the run    *)
(* time of that query in that iteration of that invocation.  An iteration  *)
(* whose guest dies contributes the queries it finished.                   *)
(***************************************************************************)
EXTENDS Queries

VARIABLES run,   \* invocations so far
          itr,   \* the iteration to be reported next
          csv    \* the rows of the report file

ReportInit == run = 0 /\ itr = 0 /\ csv = <<>>

(* A new invocation replaces the file, at its start or with its first rows.   *)
BeginRun ==
  /\ run' = run + 1 /\ itr' = 1
  /\ csv' \in {csv, <<>>}

(* An iteration whose guest finished m queries has a row for each of them.    *)
SaveIteration(m) ==
  /\ itr > 0
  /\ csv' = (IF itr = 1 THEN <<>> ELSE csv) \o IterationRows(run, itr, m)
  /\ itr' = itr + 1
  /\ UNCHANGED run

ReportNext(m) == BeginRun \/ SaveIteration(m)
=============================================================================
