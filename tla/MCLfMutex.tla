----------------------------- MODULE MCLfMutex ------------------------------
(* Three threads: one that unlocks, one on its way to lock() and a third one *)
(* that takes the handoff between them.                                      *)
EXTENDS LfMutex
=============================================================================
