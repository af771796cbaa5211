----------------------------- MODULE PowerTest ------------------------------
(***************************************************************************)
(* The C runner: main() of baremetal/main.c and nanos/main.c, with the     *)
(* benchmark.sh that starts it.  Every query file is handed to             *)
(* sqlite3_exec as one string; a row is printed whatever it returns.       *)
(*                                                                         *)
(* The bare-metal runner opens the TPC-H.db of the repository root itself; *)
(* the Nanos image gets a copy of it at every start.  Of the database only *)
(* the view revenue0 is kept: query 15 creates it in its first statement   *)
(* and drops it in its last, and each statement commits on its own.        *)
(*                                                                         *)
(* stdout is a pipe into tee, so the C library buffers the rows.           *)
(***************************************************************************)
EXTENDS MainLoop, Queries

Legs == {"baremetal", "nanos"}

VARIABLES
  leg,
  i,         \* the query of main()'s inner loop; itr is the outer one's counter
  k,         \* the statement sqlite3_exec is at
  spent,     \* the statements executed since `start`, which the row times
  view,      \* view[l]: revenue0 exists in the database of leg l
  stdout,    \* rows printed and not yet written
  csv        \* the result.csv of the running or last leg

vars == <<faults, pc, leg, run, itr, i, k, spent, view, stdout, csv>>

Rows == [itr : Nat, q : Nat, time : SUBSET [run : Nat, itr : Nat, q : Nat, k : Nat]]

(* The ranges of main()'s variables, and of what it leaves behind.            *)
TypeOK ==
  /\ faults \in SUBSET FaultNames
  /\ pc \in {"idle", "open", "exec", "print"} /\ leg \in Legs /\ run \in Nat
  /\ itr \in Nat /\ i \in Nat /\ k \in Nat
  /\ spent \in SUBSET [run : Nat, itr : Nat, q : Nat, k : Nat]
  /\ view \in [Legs -> BOOLEAN]
  /\ stdout \in Seq(Rows) /\ csv \in Seq(Rows)

Init ==
  /\ faults \in FaultModels
  /\ pc = "idle" /\ leg \in Legs /\ run = 0 /\ itr = 1 /\ i = 1 /\ k = 1
  /\ spent = {} /\ view = [l \in Legs |-> FALSE]
  /\ stdout = <<>> /\ csv = <<>>
-----------------------------------------------------------------------------
(* benchmark.sh: tee truncates the report; nanos/ first copies ../TPC-H.db.   *)
Start(l) ==
  /\ pc = "idle" /\ run < MaxRuns
  /\ pc' = "open" /\ leg' = l /\ run' = run + 1
  /\ itr' = 1 /\ i' = 1
  /\ view' = [view EXCEPT ![l] = view["baremetal"]]
  /\ stdout' = <<>> /\ csv' = <<>>
  /\ UNCHANGED <<faults, k, spent>>
(* sqlite3_open fails, before the first query: main() returns 1.              *)
CannotOpenDatabase ==
  /\ pc = "open" /\ itr = 1 /\ i = 1 /\ "nofile" \in faults
  /\ pc' = "idle"
  /\ UNCHANGED <<faults, leg, run, itr, i, k, spent, view, stdout, csv>>
(* The two for loops of main().                                               *)
Advance ==
  IF i < NumQueries THEN i' = i + 1 /\ itr' = itr
                    ELSE i' = 1 /\ itr' = itr + 1
(* Bug: the clock is read once, before the loop.                              *)
BugKeepClock ==
  /\ pc = "open" /\ itr <= Iterations
  /\ pc' = "exec" /\ k' = 1 /\ spent' = spent
  /\ UNCHANGED <<faults, leg, run, itr, i, view, stdout, csv>>

OpenQuery ==
  /\ pc = "open" /\ itr <= Iterations
  /\ pc' = "exec" /\ k' = 1 /\ spent' = {}
  /\ UNCHANGED <<faults, leg, run, itr, i, view, stdout, csv>>
(* `continue`: no row for this query.                                         *)
CannotOpen ==
  /\ pc = "open" /\ itr <= Iterations /\ "nofile" \in faults
  /\ Advance
  /\ UNCHANGED <<faults, pc, leg, run, k, spent, view, stdout, csv>>

(* One statement of the string.  sqlite3_exec returns at the first that fails *)
(* and the rest of the string is not executed.                                *)
ExecStatement ==
  /\ pc = "exec" /\ ~(i = ViewQuery /\ k = 1 /\ view[leg])
  /\ view' = IF i = ViewQuery THEN [view EXCEPT ![leg] = k < ViewStmts] ELSE view
  /\ spent' = spent \cup {Tag(run, itr, i, k)}
  /\ k' = k + 1 /\ pc' = IF k = Stmts(i) THEN "print" ELSE "exec"
  /\ UNCHANGED <<faults, leg, run, itr, i, stdout, csv>>
(* Bug: the statements after a failing one are executed.                      *)
BugGoOn ==
  /\ pc = "exec" /\ ((i = ViewQuery /\ k = 1 /\ view[leg]) \/ "sql" \in faults)
  /\ k' = k + 1 /\ pc' = IF k = Stmts(i) THEN "print" ELSE "exec"
  /\ UNCHANGED <<faults, leg, run, itr, i, spent, view, stdout, csv>>

ExecError ==
  /\ pc = "exec" /\ ((i = ViewQuery /\ k = 1 /\ view[leg]) \/ "sql" \in faults)
  /\ pc' = "print"
  /\ UNCHANGED <<faults, leg, run, itr, i, k, spent, view, stdout, csv>>
(* Bug: a query that executed nothing gets no row.                            *)
BugNoRow ==
  /\ pc = "print"
  /\ stdout' = IF spent = {} THEN stdout ELSE Append(stdout, Row(itr, i, spent))
  /\ pc' = "open" /\ Advance
  /\ UNCHANGED <<faults, leg, run, k, spent, view, csv>>

PrintRow ==
  /\ pc = "print"
  /\ stdout' = Append(stdout, Row(itr, i, spent))
  /\ pc' = "open" /\ Advance
  /\ UNCHANGED <<faults, leg, run, k, spent, view, csv>>

(* The C library writes out a full buffer.                                    *)
Flush ==
  /\ pc # "idle" /\ stdout # <<>>
  /\ csv' = Append(csv, Head(stdout)) /\ stdout' = Tail(stdout)
  /\ UNCHANGED <<faults, pc, leg, run, itr, i, k, spent, view>>
(* Bug: _exit, which does not flush.                                          *)
BugExit ==
  /\ pc = "open" /\ itr > Iterations
  /\ stdout' = <<>> /\ pc' = "idle"
  /\ UNCHANGED <<faults, leg, run, itr, i, k, spent, view, csv>>

(* return from main() flushes what is left.                                   *)
Exit ==
  /\ pc = "open" /\ itr > Iterations
  /\ csv' = csv \o stdout /\ stdout' = <<>> /\ pc' = "idle"
  /\ UNCHANGED <<faults, leg, run, itr, i, k, spent, view>>

(* The buffered rows are lost; the database keeps what was committed.         *)
Kill ==
  /\ pc # "idle" /\ "kill" \in faults
  /\ pc' = "idle" /\ stdout' = <<>>
  /\ UNCHANGED <<faults, leg, run, itr, i, k, spent, view, csv>>

Next ==
  \/ \E l \in Legs : Start(l)
  \/ CannotOpenDatabase \/ OpenQuery \/ CannotOpen \/ ExecStatement \/ ExecError
  \/ PrintRow \/ Flush \/ Exit \/ Kill

Spec == Init /\ [][Next]_vars

(* Once started, the program runs on and its queries end.                     *)
FairSpec == Spec /\ WF_vars(pc # "idle" /\ Next)
-----------------------------------------------------------------------------
(* revenue0 is in the root TPC-H.db outside the sqlite3_exec that makes it.   *)
Leaked ==
  /\ view["baremetal"]
  /\ ~(leg = "baremetal" /\ pc = "exec" /\ i = ViewQuery /\ k > 1)

(* A revenue0 left behind by an interrupted or failed query 15 stays: its     *)
(* create fails in every later run, and sqlite3_exec then never reaches the   *)
(* drop (baremetal/main.c:385, queries/query15.sql:33).                       *)
LeakIsPermanent == [][Leaked => Leaked']_vars

(* An interruption alone costs no query but query 15 its time, and that only  *)
(* while revenue0 is in the database the run started from; then all of it:    *)
(* its row times no statement (baremetal/main.c:382-390).                     *)
OnlyViewQueryHurt ==
  "sql" \notin faults =>
    \A n \in DOMAIN csv : LET row == csv[n] IN
      \/ row.time = QueryTime(run, row.itr, row.q)
      \/ row.q = ViewQuery /\ row.time = {} /\ view[leg]

(* Whatever is buffered, flushed or lost when the runner stops, and whichever *)
(* statements fail, result.csv is a prefix of the rows in iteration and query *)
(* order (baremetal/main.c:350-396).                                          *)
PrefixReport ==
  "nofile" \notin faults =>
    \A n \in 1..Len(csv) :
      /\ csv[n].itr = ((n - 1) \div NumQueries) + 1
      /\ csv[n].q = ((n - 1) % NumQueries) + 1

(* Left alone, the runner ends with every row of every iteration in the       *)
(* report, and no revenue0 behind (baremetal/main.c:350-414).                 *)
CompleteReport ==
  faults = {} /\ pc = "open" ~>
    pc = "idle" /\ Len(csv) = Iterations * NumQueries /\ ~view["baremetal"]
=============================================================================
