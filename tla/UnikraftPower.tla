--------------------------- MODULE UnikraftPower ----------------------------
(***************************************************************************)
(* unikraft/benchmark.py.  Each iteration runs `kraft run` once and takes  *)
(* the "Run Time:" lines of its output as a Python list; the three times   *)
(* of query 15 are folded into one by slicing, and the rows are written to *)
(* the report that was truncated when the script started.                  *)
(*                                                                         *)
(* The guest's file system is unpacked from the image at every boot, so no *)
(* guest sees what another one wrote.  Faults: "crash" - the guest stops   *)
(* before the last query.                                                  *)
(***************************************************************************)
EXTENDS PowerLoop

VARIABLE times  \* the output's run times, a set of statement executions each

unikraftVars == <<faults, run, itr, csv, pc, times, gq, gk>>

(* The ranges of the script's variables and of the report.                    *)
UnikraftTypeOK ==
  /\ faults \in SUBSET FaultNames
  /\ pc \in {"idle", "guest", "fold", "failed"} /\ run \in Nat /\ itr \in Nat
  /\ csv \in Seq([itr : Nat, q : Nat, time : SUBSET Tags])
  /\ times \in Seq(SUBSET Tags)
  /\ gq \in Nat /\ gk \in Nat

UnikraftInit ==
  /\ faults \in FaultModels
  /\ ReportInit /\ pc = "idle" /\ times = <<>> /\ gq = 1 /\ gk = 1
-----------------------------------------------------------------------------
(* open(output_file, "w") and the header.                                     *)
UnikraftStart ==
  /\ pc \in {"idle", "failed"} /\ run < MaxRuns
  /\ run' = run + 1 /\ itr' = 1 /\ csv' = <<>> /\ pc' = "guest"
  /\ gq' = 1 /\ gk' = 1 /\ times' = <<>>
  /\ UNCHANGED faults

UnikraftStatement ==
  /\ pc = "guest" /\ gq <= NumQueries
  /\ times' = Append(times, {Tag(run, itr, gq, gk)})
  /\ IF gk < Stmts(gq) THEN gk' = gk + 1 /\ gq' = gq ELSE gk' = 1 /\ gq' = gq + 1
  /\ UNCHANGED <<faults, run, itr, csv, pc>>

UnikraftGuestEnds ==
  /\ pc = "guest" /\ (gq > NumQueries \/ "crash" \in faults)
  /\ pc' = "fold"
  /\ UNCHANGED <<faults, run, itr, csv, times, gq, gk>>
(* Bug: times[14:18], one time too many.                                      *)
BugLongSlice == IF ViewQuery + ViewStmts > Len(times)
                THEN Len(times) ELSE ViewQuery + ViewStmts

(* times[14] = sum(times[14:17]); del times[15:17].  Python clips both slices *)
(* at the end of the list; the assignment needs times[14] to exist.           *)
SliceEnd == IF ViewQuery + ViewStmts - 1 > Len(times)
            THEN Len(times) ELSE ViewQuery + ViewStmts - 1
(* Bug: del times[15:], the times after query 15 go as well.                  *)
BugDropRest ==
  SubSeq(times, 1, ViewQuery - 1)
    \o << UNION {times[n] : n \in ViewQuery..SliceEnd} >>

Folded ==
  SubSeq(times, 1, ViewQuery - 1)
    \o << UNION {times[n] : n \in ViewQuery..SliceEnd} >>
    \o SubSeq(times, SliceEnd + 1, Len(times))
WriteRows ==
  /\ pc = "fold" /\ Len(times) >= ViewQuery
  /\ csv' = csv \o [q \in 1..Len(Folded) |-> Row(itr, q, Folded[q])]
  /\ itr' = itr + 1
  /\ pc' = IF itr < Iterations THEN "guest" ELSE "idle"
  /\ gq' = 1 /\ gk' = 1 /\ times' = <<>>
  /\ UNCHANGED <<faults, run>>
(* IndexError: the script ends, with the rows of the iterations before.       *)
RaiseIndexError ==
  /\ pc = "fold" /\ Len(times) < ViewQuery
  /\ pc' = "failed"
  /\ UNCHANGED <<faults, run, itr, csv, times, gq, gk>>

UnikraftNext == UnikraftStart \/ UnikraftStatement \/ UnikraftGuestEnds \/ WriteRows \/ RaiseIndexError

UnikraftSpec == UnikraftInit /\ [][UnikraftNext]_unikraftVars
-----------------------------------------------------------------------------
(* Folding by index is the power report: every iteration that is written has  *)
(* a row for each query its guest finished and no other, with that query's    *)
(* whole time; a guest that gets through all of them contributes all rows.    *)
(* Only where a guest died inside query 15 the sum of what it printed of it   *)
(* is a row too: there the step is left to NoForeignTime                      *)
(* (unikraft/benchmark.py:19-45).                                             *)
FoldImplementsReport ==
  ReportInit
    /\ [][(gq = ViewQuery /\ gk > 1) \/ ReportNext(gq - 1)]_<<run, itr, csv>>

(* A dying guest can shift no time to another query: any row but query 15's   *)
(* holds its own query's time, and that of query 15 a part of its own         *)
(* (unikraft/benchmark.py:38-41, the slices of a short list).                 *)
NoForeignTime ==
  \A n \in DOMAIN csv : LET row == csv[n]  own == QueryTime(run, row.itr, row.q) IN
    /\ row.time \subseteq own /\ row.time # {}
    /\ row.q # ViewQuery => row.time = own
=============================================================================
