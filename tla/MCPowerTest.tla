---------------------------- MODULE MCPowerTest -----------------------------
(* Three queries around the view query.                                      *)
EXTENDS PowerTest

MCFaults == {{}, {"kill"}, {"sql", "kill"}, {"sql", "nofile", "kill"}}
=============================================================================
