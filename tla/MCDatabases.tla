---------------------------- MODULE MCDatabases -----------------------------
(* The functions of main.c that write databases: either all runs load the    *)
(* tables (TableLoad), or all refresh them (Refresh).                        *)
(*                                                                           *)
(* Two tables of one and two columns, with one and two lines after the first *)
(* one that loadTables skips.  As dbgen writes them, an order has one or     *)
(* more line items; the delete files name orders of the same iteration and   *)
(* of others.                                                                *)
EXTENDS TableLoad, Refresh, TLC
CONSTANTS region, nation, a, b
VARIABLE caller    \* the call in main() that is not commented out

MCTableSeq == <<region, nation>>
MCColumns  == (region :> 1) @@ (nation :> 2)
MCFiles ==
  (region :> <<<<a, EOL>>, <<b, EOL>>>>)
    @@ (nation :> <<<<a, a, EOL>>, <<b, a, EOL>>, <<a, b, EOL>>>>)

MCOrders    == << <<1, 2>>, <<3>> >>
MCLineItems == << << <<1, 1>>, <<1, 2>>, <<2, 1>> >>, << <<3, 1>> >> >>
MCDeletes   == << <<1, 3>>, <<2>> >>

MCFaults == {{"sql", "nofile"}, {"sql", "nofile", "rm", "kill"}}

MCInit == LoadInit /\ RefreshInit /\ caller \in {"load", "refresh"}

MCNext ==
  /\ UNCHANGED caller
  /\ \/ caller = "load" /\ LoadNext /\ UNCHANGED <<lines, txn, disk>>
     \/ caller = "refresh" /\ RefreshNext /\ UNCHANGED <<c, database, load>>

MCSpec == MCInit /\ [][MCNext]_<<loadVars, refreshVars, caller>>
=============================================================================
