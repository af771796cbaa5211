-------------------------- MODULE MCUnikraftPower ---------------------------
(* Four queries, the second one with three statements, as in MCOsvPower.     *)
EXTENDS UnikraftPower

MCFaults == {{}, {"crash"}}
=============================================================================
