----------------------------- MODULE MCCondvar ------------------------------
(* Three threads that share a mutex, so that wake_all may have three records *)
(* to send, and one that waits with another mutex when nobody else waits.    *)
EXTENDS Condvar
CONSTANTS t1, t2, t3, t4, m1, m2

MCThreads == {t1, t2, t3, t4}
MCUses    == [t \in MCThreads |-> IF t = t4 THEN {m2} ELSE {m1}]
=============================================================================
