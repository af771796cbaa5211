------------------------------- MODULE Mutex --------------------------------
(***************************************************************************)
(* What a mutex promises: one holder at a time, and the lock is free       *)
(* between two of them.                                                    *)
(***************************************************************************)
CONSTANTS Threads, None

VARIABLE holder

MutexInit  == holder = None
Acquire(t) == holder = None /\ holder' = t
Release    == holder # None /\ holder' = None
MutexNext  == Release \/ \E t \in Threads : Acquire(t)
MutexSpec  == MutexInit /\ [][MutexNext]_holder
=============================================================================
