----------------------------- MODULE MCOsvPower -----------------------------
(* Four queries, the second one with three statements: a query before the    *)
(* view query, and two after it, whose lines an off-by-one would take.       *)
EXTENDS OsvPower

MCFaults == {{}, {"crash"}, {"crash", "kill"}}
=============================================================================
