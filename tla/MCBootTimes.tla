---------------------------- MODULE MCBootTimes -----------------------------
(* Two measured boots after the two warm-up boots.                           *)
EXTENDS BootTimes

MCFaults == {{}, {"crash"}, {"crash", "kill"}}
=============================================================================
