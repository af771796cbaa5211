------------------------------ MODULE MCRwLock ------------------------------
(* Four threads: two readers or writers that hold or wait, one that is woken *)
(* and one that comes between.                                               *)
EXTENDS RwLock
=============================================================================
