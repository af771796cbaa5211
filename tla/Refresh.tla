------------------------------ MODULE Refresh -------------------------------
(***************************************************************************)
(* refreshRF1 and refreshRF2 of main.c, called by the main loop in every   *)
(* iteration j with orders.tbl.u<j>, lineitem.tbl.u<j> and delete.<j>;     *)
(* the calls are commented out in the current revision.  Both functions    *)
(* work in one transaction; when one fails, main closes the database,      *)
(* which undoes the transaction, and ends.                                 *)
(***************************************************************************)
EXTENDS MainLoop, RefreshAtomic

ASSUME RefreshAssumption == DOMAIN Orders = 1..Iterations

VARIABLES
  lines,  \* lines the running function has read of each of its files
  txn     \* the tables as the open transaction sees them

refreshVars == <<faults, pc, run, itr, lines, txn, disk>>

TablesSet == [orders : [Keys -> Nat], lineitem : [Items -> Nat]]

(* The program's position and counters, and the tables' rows.                 *)
RefreshTypeOK ==
  /\ faults \in SUBSET FaultNames
  /\ pc \in {"idle", "rf1", "orders", "lineitem", "queries", "rf2", "delete"}
  /\ run \in Nat /\ itr \in 1..Iterations /\ lines \in Nat
  /\ txn \in TablesSet /\ disk \in TablesSet

RefreshInit ==
  /\ faults \in FaultModels
  /\ AtomicInit /\ pc = "idle" /\ run = 0 /\ itr = 1 /\ lines = 0 /\ txn = EmptyTables
-----------------------------------------------------------------------------
RefreshStart ==
  /\ pc = "idle" /\ run < MaxRuns
  /\ run' = run + 1 /\ itr' = 1 /\ pc' = "rf1"
  /\ UNCHANGED <<faults, lines, txn, disk>>

(* BEGIN TRANSACTION, and the files are opened.                               *)
BeginRF1 ==
  /\ pc = "rf1" /\ pc' = "orders"
  /\ lines' = 0 /\ txn' = disk
  /\ UNCHANGED <<faults, run, itr, disk>>

(* The loop reads a line of both files before it inserts either.              *)
InsertOrder ==
  /\ pc = "orders" /\ lines < Len(Orders[itr]) /\ lines < Len(LineItems[itr])
  /\ txn' = [txn EXCEPT !.orders[Orders[itr][lines + 1]] = @ + 1]
  /\ pc' = "lineitem"
  /\ UNCHANGED <<faults, run, itr, lines, disk>>
(* Bug: no transaction, each pair of inserts is durable.                      *)
BugRefreshAutocommit ==
  /\ pc = "lineitem"
  /\ txn' = [txn EXCEPT !.lineitem[LineItems[itr][lines + 1]] = @ + 1]
  /\ disk' = txn'
  /\ lines' = lines + 1 /\ pc' = "orders"
  /\ UNCHANGED <<faults, run, itr>>

InsertLineItem ==
  /\ pc = "lineitem"
  /\ txn' = [txn EXCEPT !.lineitem[LineItems[itr][lines + 1]] = @ + 1]
  /\ lines' = lines + 1 /\ pc' = "orders"
  /\ UNCHANGED <<faults, run, itr, disk>>
(* Bug: RF1 returns without a COMMIT.                                         *)
BugNoCommit ==
  /\ pc = "orders" /\ ~(lines < Len(Orders[itr]) /\ lines < Len(LineItems[itr]))
  /\ pc' = "queries"
  /\ UNCHANGED <<faults, run, itr, lines, txn, disk>>

CommitRF1 ==
  /\ pc = "orders" /\ ~(lines < Len(Orders[itr]) /\ lines < Len(LineItems[itr]))
  /\ disk' = txn /\ pc' = "queries"
  /\ UNCHANGED <<faults, run, itr, lines, txn>>

(* The 22 queries read the database (module PowerTest).                       *)
RunQueries ==
  /\ pc = "queries" /\ pc' = "rf2"
  /\ UNCHANGED <<faults, run, itr, lines, txn, disk>>

BeginRF2 ==
  /\ pc = "rf2" /\ pc' = "delete"
  /\ lines' = 0 /\ txn' = disk
  /\ UNCHANGED <<faults, run, itr, disk>>

DeleteOrder ==
  /\ pc = "delete" /\ lines < Len(Deletes[itr])
  /\ txn' = [txn EXCEPT !.orders = Minus(@, {Deletes[itr][lines + 1]})]
  /\ lines' = lines + 1
  /\ UNCHANGED <<faults, pc, run, itr, disk>>
CommitRF2 ==
  /\ pc = "delete" /\ lines = Len(Deletes[itr])
  /\ disk' = txn
  /\ IF itr < Iterations THEN itr' = itr + 1 /\ pc' = "rf1" ELSE pc' = "idle" /\ itr' = itr
  /\ UNCHANGED <<faults, run, lines, txn>>

(* The function returns 0; main closes the database and returns 1.            *)
RefreshFails ==
  /\ \/ pc \in {"rf1", "orders", "lineitem", "rf2", "delete"} /\ "sql" \in faults
     \/ pc \in {"rf1", "rf2"} /\ "nofile" \in faults
  /\ pc' = "idle"
  /\ UNCHANGED <<faults, run, itr, lines, txn, disk>>

RefreshKill ==
  /\ pc # "idle" /\ "kill" \in faults
  /\ pc' = "idle"
  /\ UNCHANGED <<faults, run, itr, lines, txn, disk>>

RefreshNext ==
  \/ RefreshStart \/ BeginRF1 \/ InsertOrder \/ InsertLineItem \/ CommitRF1 \/ RunQueries
  \/ BeginRF2 \/ DeleteOrder \/ CommitRF2 \/ RefreshFails \/ RefreshKill

RefreshSpec == RefreshInit /\ [][RefreshNext]_refreshVars
-----------------------------------------------------------------------------
(* Line by line, failing or stopped anywhere, the database only ever changes  *)
(* by a whole RF1 or RF2 of one iteration (main.c:173-177, 253-257, 265-269,  *)
(* 294-298).                                                                  *)
WholeRefreshes == AtomicSpec

(* Between the refreshes of an iteration its new orders are there, whatever   *)
(* earlier runs left: the queries are timed on the refreshed database         *)
(* (main.c:356-407).                                                          *)
QueriesSeeRefresh ==
  pc \in {"queries", "rf2"} =>
    \A m \in 1..Pairs(itr) : disk.orders[Orders[itr][m]] > 0
=============================================================================
