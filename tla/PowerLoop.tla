----------------------------- MODULE PowerLoop ------------------------------
(***************************************************************************)
(* What the scripts of both power tests have in common: invocations one    *)
(* after the other, each a loop over the iterations, and a guest that      *)
(* executes the statements of the query files in order.                    *)
(***************************************************************************)
EXTENDS PowerReport

CONSTANTS Iterations, MaxRuns,
          FaultModels  \* the sets of faults to consider

FaultNames == {"crash", "kill"}

ASSUME PowerLoopAssumption ==
  Iterations \in Nat \ {0} /\ MaxRuns \in Nat /\ FaultModels \subseteq SUBSET FaultNames

VARIABLES pc,
          faults,  \* the faults this environment shows
          gq, gk   \* the guest's next statement

Tags == [run : Nat, itr : Nat, q : Nat, k : Nat]
=============================================================================
