------------------------------ MODULE MainLoop ------------------------------
(***************************************************************************)
(* What the models of main.c have in common: runs of the program one after *)
(* the other, each with a loop over the iterations.                        *)
(*                                                                         *)
(* Faults: "sql" - a statement fails (out of memory, disk full, I/O);      *)
(* "nofile" - a file cannot be opened; "rm" - a database file cannot be    *)
(* removed; "kill" - the program is stopped at any point.                  *)
(***************************************************************************)
EXTENDS Naturals, Sequences, FiniteSets

CONSTANTS Iterations,  \* 17 on bare metal and Nanos, 50 on Docker
          MaxRuns,
          FaultModels  \* the sets of faults to consider

FaultNames == {"sql", "nofile", "rm", "kill"}

ASSUME MainLoopAssumption ==
  Iterations \in Nat \ {0} /\ MaxRuns \in Nat /\ FaultModels \subseteq SUBSET FaultNames

VARIABLES pc, run,
          faults,      \* the faults this environment shows
          itr          \* the loop counter
=============================================================================
