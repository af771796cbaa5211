------------------------------ MODULE OsvPower ------------------------------
(***************************************************************************)
(* osv/benchmark.sh and osv/power/clean-queries-time.py.  Each iteration   *)
(* boots OSv once; the SQLite shell in the guest reads the query files     *)
(* with .timer on, and its console is appended to power/temporary.txt.     *)
(* The Python script then walks over the file, gives each "Run Time:" line *)
(* to a query and writes the rows; the file is removed for the next        *)
(* iteration.  Only the "Run Time:" lines of the file are modelled, so a   *)
(* missing file and one without such a line are both <<>>.                 *)
(*                                                                         *)
(* The guest's test.db survives a boot.  Of its contents only the view     *)
(* revenue0 matters here: query 15 creates it in its first statement and   *)
(* drops it in its last.                                                   *)
(*                                                                         *)
(* Faults: "crash" - the guest stops before the last query and run.py      *)
(* returns; "kill" - Ctrl-C ends benchmark.sh at any command.              *)
(***************************************************************************)
EXTENDS PowerLoop

VARIABLES
  tmp,              \* power/temporary.txt
  view,             \* revenue0 exists in test.db
  pos,              \* lines of tmp the Python loop has read
  current_query, run_time_sum, run_time_count, run_times

guest  == <<gq, gk, view>>
python == <<pos, current_query, run_time_sum, run_time_count, run_times>>
vars   == <<faults, run, itr, csv, pc, tmp, guest, python>>

Labels == {"idle", "load", "boot", "guest", "clean", "rm"}

(* The ranges of the scripts' variables and of the two files.                 *)
TypeOK ==
  /\ faults \in SUBSET FaultNames
  /\ pc \in Labels /\ run \in Nat /\ itr \in Nat
  /\ csv \in Seq([itr : Nat, q : Nat, time : SUBSET Tags])
  /\ tmp \in Seq(Tags)
  /\ gq \in Nat /\ gk \in Nat /\ view \in BOOLEAN /\ pos \in Nat
  /\ current_query \in Nat /\ run_time_count \in Nat
  /\ run_time_sum \in SUBSET Tags /\ run_times \in Seq(SUBSET Tags)

Init ==
  /\ faults \in FaultModels
  /\ ReportInit /\ pc = "idle" /\ tmp = <<>> /\ gq = 1 /\ gk = 1 /\ view = FALSE
  /\ pos = 0 /\ current_query = 1
  /\ run_time_sum = {} /\ run_time_count = 0 /\ run_times = <<>>
-----------------------------------------------------------------------------
Start ==
  /\ pc = "idle" /\ run < MaxRuns
  /\ run' = run + 1 /\ itr' = 1 /\ pc' = "load"
  /\ UNCHANGED <<faults, csv, tmp, guest, python>>

(* The first boot imports the tables; .timer is off and no time is printed.   *)
Load ==
  /\ pc = "load" /\ pc' = "boot"
  /\ UNCHANGED <<faults, run, itr, csv, tmp, guest, python>>

Boot ==
  /\ pc = "boot" /\ pc' = "guest"
  /\ gq' = 1 /\ gk' = 1
  /\ UNCHANGED <<faults, run, itr, csv, tmp, view, python>>
(* Bug: the guest leaves a query file at its first failing statement.         *)
BugStopAtError ==
  /\ pc = "guest" /\ gq <= NumQueries
  /\ tmp' = Append(tmp, Tag(run, itr, gq, gk))
  /\ IF gq = ViewQuery /\ gk = 1 /\ view
     THEN gq' = gq + 1 /\ gk' = 1 /\ view' = view
     ELSE /\ view' = IF gq = ViewQuery THEN gk < ViewStmts ELSE view
          /\ IF gk < Stmts(gq) THEN gk' = gk + 1 /\ gq' = gq ELSE gk' = 1 /\ gq' = gq + 1
  /\ UNCHANGED <<faults, run, itr, csv, pc, python>>

(* The guest finishes a statement and prints its time.  The shell prints it   *)
(* for a statement that fails too, and goes on with the next one, so a        *)
(* revenue0 that is already there only makes the create fail.                 *)
Statement ==
  /\ pc = "guest" /\ gq <= NumQueries
  /\ view' = IF gq = ViewQuery THEN gk < ViewStmts ELSE view
  /\ tmp' = Append(tmp, Tag(run, itr, gq, gk))
  /\ IF gk < Stmts(gq) THEN gk' = gk + 1 /\ gq' = gq ELSE gk' = 1 /\ gq' = gq + 1
  /\ UNCHANGED <<faults, run, itr, csv, pc, python>>

(* .quit, or a guest that dies; the Python script starts on the file.         *)
GuestEnds ==
  /\ pc = "guest" /\ (gq > NumQueries \/ "crash" \in faults)
  /\ pc' = "clean" /\ pos' = 0
  /\ current_query' = 1 /\ run_time_sum' = {} /\ run_time_count' = 0 /\ run_times' = <<>>
  /\ UNCHANGED <<faults, run, itr, csv, tmp, guest>>
(* extract_run_times, one "Run Time:" line.                                   *)
ExtractLine ==
  /\ pc = "clean" /\ pos < Len(tmp) /\ current_query <= NumQueries
  /\ pos' = pos + 1
  /\ LET real_time == {tmp[pos + 1]} IN
       IF current_query # ViewQuery
       THEN /\ run_times' = Append(run_times, real_time)
            /\ current_query' = current_query + 1
            /\ UNCHANGED <<run_time_sum, run_time_count>>
       ELSE IF run_time_count + 1 = ViewStmts
       THEN /\ run_times' = Append(run_times, run_time_sum \cup real_time)
            /\ current_query' = current_query + 1
            /\ run_time_sum' = {} /\ run_time_count' = 0
       ELSE /\ run_time_sum' = run_time_sum \cup real_time
            /\ run_time_count' = run_time_count + 1
            /\ UNCHANGED <<run_times, current_query>>
  /\ UNCHANGED <<faults, run, itr, csv, pc, tmp, guest>>
(* Bug: every iteration appends, the first one too.                           *)
BugAppendAlways ==
  /\ pc = "clean" /\ (pos = Len(tmp) \/ current_query > NumQueries)
  /\ csv' = csv \o [q \in 1..Len(run_times) |-> Row(itr, q, run_times[q])]
  /\ itr' = itr + 1 /\ pc' = "rm"
  /\ UNCHANGED <<faults, run, tmp, guest, python>>

(* Bug: every iteration overwrites the report.                                *)
BugWriteAlways ==
  /\ pc = "clean" /\ (pos = Len(tmp) \/ current_query > NumQueries)
  /\ csv' = [q \in 1..Len(run_times) |-> Row(itr, q, run_times[q])]
  /\ itr' = itr + 1 /\ pc' = "rm"
  /\ UNCHANGED <<faults, run, tmp, guest, python>>

(* save_to_csv: iteration 1 opens the report with mode 'w', the others 'a'.   *)
SaveToCsv ==
  /\ pc = "clean" /\ (pos = Len(tmp) \/ current_query > NumQueries)
  /\ csv' = (IF itr = 1 THEN <<>> ELSE csv)
              \o [q \in 1..Len(run_times) |-> Row(itr, q, run_times[q])]
  /\ itr' = itr + 1 /\ pc' = "rm"
  /\ UNCHANGED <<faults, run, tmp, guest, python>>
(* Bug: temporary.txt is removed once, after the loop.                        *)
BugRemoveAtEnd ==
  /\ pc = "rm" /\ tmp' = IF itr > Iterations THEN <<>> ELSE tmp
  /\ pc' = IF itr > Iterations THEN "idle" ELSE "boot"
  /\ UNCHANGED <<faults, run, itr, csv, guest, python>>

RemoveTmp ==
  /\ pc = "rm" /\ tmp' = <<>>
  /\ pc' = IF itr > Iterations THEN "idle" ELSE "boot"
  /\ UNCHANGED <<faults, run, itr, csv, guest, python>>

Kill ==
  /\ pc # "idle" /\ "kill" \in faults
  /\ pc' = "idle"
  /\ UNCHANGED <<faults, run, itr, csv, tmp, guest, python>>

Next ==
  \/ Start \/ Load \/ Boot \/ Statement \/ GuestEnds
  \/ ExtractLine \/ SaveToCsv \/ RemoveTmp \/ Kill

Spec == Init /\ [][Next]_vars

(* Once started, bash runs its commands one after the other, and a guest ends. *)
FairSpec == Spec /\ WF_vars(pc # "idle" /\ Next)
-----------------------------------------------------------------------------
(* Unless an invocation is interrupted, the loop is the power report it is    *)
(* meant to be: a step changes the report file by an iteration of rows in     *)
(* query order, one for every query its guest finished and no other, each     *)
(* with the time of its own query; a guest that gets through all of them      *)
(* contributes all rows, one that dies those before its current query         *)
(* (osv/benchmark.sh:56-74).                                                  *)
ImplementsReport ==
  ReportInit /\ [][ "kill" \in faults \/ ReportNext(gq - 1)]_<<run, itr, csv>>

(* Lines left in temporary.txt by an interrupted invocation can only be taken *)
(* for those of the first iteration of the next one: the rm after it          *)
(* (osv/benchmark.sh:71) protects every later row, whatever was interrupted.  *)
LaterRowsOwn ==
  \E r \in 0..run : \A n \in DOMAIN csv :
    csv[n].itr > 1 => csv[n].time = QueryTime(r, csv[n].itr, csv[n].q)

(* A guest that got through all query files leaves no revenue0 behind, even   *)
(* if an earlier guest died between create and drop (queries/query15.sql).    *)
ViewDropped == pc # "guest" /\ gq > NumQueries => ~view

(* With no fault an invocation ends with every query of every iteration in    *)
(* the report (osv/benchmark.sh:56-76).                                       *)
FullReport ==
  faults = {} /\ pc = "load" ~> pc = "idle" /\ Len(csv) = Iterations * NumQueries
=============================================================================
