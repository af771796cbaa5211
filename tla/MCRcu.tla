------------------------------- MODULE MCRcu --------------------------------
(* The callbacks are deferred on CPU 1, but for k3, which is CPU 2's.         *)
(*                                                                            *)
(* Rcu.cfg: two callbacks on CPU 1, whose buffer has room for one, the third  *)
(* on CPU 2, and CPU 3 with none: two rcu threads ask for generations, one    *)
(* only serves.  RcuOrder.cfg: three callbacks on CPU 1, whose buffer has     *)
(* room for two, so that a batch holds two and a third finds it full.         *)
EXTENDS Rcu
CONSTANT k3

MCHome == [k \in Callbacks |-> IF k = k3 THEN 2 ELSE 1]
=============================================================================
