---------------------------- MODULE RwLockProofs ----------------------------
(***************************************************************************)
(* Proofs about module RwLock, for any threads, any depth of a writer's    *)
(* recursion, any number of calls and of early wake-ups.                   *)
(*                                                                         *)
(* Every operation turns the fields of the rwlock into a state x while it  *)
(* has the mutex, and releases the mutex with x.  So the invariant is      *)
(* stated of a state (Placed, Served, Writing, Awaited), the bodies of the *)
(* operations are shown to keep it (WakeLockKeeps to RunlockKeeps), and    *)
(* the two ways out of the mutex, Return and sleep, to carry it over       *)
(* (Released, Returned, Slept).                                            *)
(*                                                                         *)
(* wake_all and downgrade() loop.  What their loops compute is proved by   *)
(* induction on the number of rounds (SetInduction, Loop).                 *)
(***************************************************************************)
EXTENDS RwLock, SequenceTheorems, FiniteSetTheorems, WellFoundedInduction, TLAPS

State == [readers: Nat, wowner: Threads \cup {None}, wrecurse: Nat, rq: Queue, wq: Queue,
          queue: Seq(Threads \X {"lock", "cond"}), sent: SUBSET Threads, woken: SUBSET Threads]
Modes == [Threads -> [read: 0..1, write: 0..MaxDepth]]

(* The threads inside wait() of a waitqueue.                                  *)
Sleeping == {t \in Threads : pc[t] \in {"asleep", "awake"}}

(* The threads whose record a waker put into the queue of the mutex; a record *)
(* is there once, while a thread that was woken early may ask for the mutex   *)
(* beside it.                                                                 *)
Sent(x) == {t \in Threads : <<t, "cond">> \in ToSet(x.queue)}
CondOnce(q) == \A i, j \in DOMAIN q : q[i] = q[j] /\ q[i][2] = "cond" => i = j

(* The records of x are those of the threads in U, each in one place.         *)
Placed(x, U) ==
  /\ IsInjective(x.rq) /\ IsInjective(x.wq) /\ CondOnce(x.queue)
  /\ ToSet(x.rq) \cap ToSet(x.wq) = {} /\ ToSet(x.rq) \cap Sent(x) = {} /\ ToSet(x.rq) \cap x.woken = {}
  /\ ToSet(x.wq) \cap Sent(x) = {} /\ ToSet(x.wq) \cap x.woken = {} /\ Sent(x) \cap x.woken = {}
  /\ ToSet(x.rq) \cup ToSet(x.wq) \cup Sent(x) \cup x.woken = U

(* Everybody but t, who has the mutex, is in its queue when it wants it, and  *)
(* no sleeper has been woken without being given the mutex.                   *)
Served(x, t) == \A u \in Threads \ {t} :
  /\ pc[u] \in {"enter", "awake"} => <<u, "lock">> \in ToSet(x.queue)
  /\ pc[u] = "asleep" => u \notin x.woken

Writing(x) == \A w \in ToSet(x.wq) : op[w] = "wlock"

(* A writer other than t that is going to look at the lock: it waits for the  *)
(* mutex, or it has been taken off its waitqueue.                             *)
Comes(x, w) ==
  /\ op[w] = "wlock"
  /\ pc[w] = "enter" \/ (w \in Sleeping /\ w \notin ToSet(x.rq) /\ w \notin ToSet(x.wq))
Coming(x, t) == \E w \in Threads \ {t} : Comes(x, w)

(* There is somebody who will wake the sleepers of x: who holds the lock, or  *)
(* a writer on its way to it.                                                 *)
Awaited(x, t) ==
  /\ x.rq # <<>> => x.wowner # None \/ x.wq # <<>> \/ Coming(x, t)
  /\ x.wq # <<>> => x.wowner # None \/ x.readers > 0 \/ Coming(x, t)

(* A thread in a call makes one that is legal with what it holds.             *)
OpOK(t) ==
  /\ pc[t] = "idle" => op[t] \in {"none", "downgrade"}
  /\ pc[t] # "idle" => op[t] # "none" /\ Legal(t, op[t])
  /\ pc[t] = "idle" /\ op[t] = "downgrade" => Holds(t) = 0
  /\ t \in Sleeping => op[t] \in {"rlock", "wlock"}
OpInv == \A t \in Threads : OpOK(t)

(* ReadersWriters in a form that speaks of one thread at a time.              *)
HoldInv ==
  /\ s.readers = Cardinality(Readers)
  /\ s.wowner # None => Readers = {}
  /\ s.wowner = None => s.wrecurse = 0
  /\ \A t \in Threads : mode[t].write = IF s.wowner = t THEN s.wrecurse + 1 ELSE 0

MutexInv == (owner = None => s.queue = <<>>) /\ Served(s, owner)
PlaceInv == Placed(s, Sleeping)
WaitInv  == Writing(s) /\ Awaited(s, None)

(* The inductive invariant.                                                   *)
IInv == TypeOK /\ OpInv /\ HoldInv /\ PlaceInv /\ MutexInv /\ WaitInv
-----------------------------------------------------------------------------
(* The oldest record of a queue is its first.                                 *)
LEMMA HeadIsFirst ==
  ASSUME NEW S, NEW q \in Seq(S), q # <<>>
  PROVE  Head(q) = q[1]
OBVIOUS

(* Taking the oldest record off a waitqueue takes only that one.              *)
LEMMA InjectiveTail ==
  ASSUME NEW S, NEW q \in Seq(S), q # <<>>, IsInjective(q)
  PROVE  IsInjective(Tail(q)) /\ ToSet(Tail(q)) = ToSet(q) \ {Head(q)} /\ Head(q) \in ToSet(q)
<1> DEFINE r == Tail(q)
<1>1. /\ r \in Seq(S) /\ Len(r) = Len(q) - 1 /\ \A i \in 1..Len(r) : r[i] = q[i + 1]
      /\ Len(q) \in Nat \ {0} /\ Head(q) = q[1]
  BY HeadTailProperties, LenProperties, EmptySeq, HeadIsFirst
<1>2. DOMAIN q = 1..Len(q) /\ DOMAIN r = 1..Len(r) BY <1>1, LenProperties
<1> HIDE DEF r
<1>3. ASSUME NEW i \in DOMAIN r, NEW j \in DOMAIN r, r[i] = r[j] PROVE i = j
  <2>1. i + 1 \in DOMAIN q /\ j + 1 \in DOMAIN q BY <1>1, <1>2
  <2>2. q[i + 1] = q[j + 1] BY <1>1, <1>2, <1>3
  <2>3. i + 1 = j + 1 BY <2>1, <2>2 DEF IsInjective
  <2> QED BY <1>1, <1>2, <2>3
<1>4. IsInjective(r) BY <1>3 DEF IsInjective
<1>5. 1 \in DOMAIN q BY <1>1, <1>2
<1>6. ASSUME NEW x \in ToSet(r) PROVE x \in ToSet(q) /\ x # Head(q)
  <2>1. PICK i \in DOMAIN r : x = r[i] BY DEF ToSet
  <2>2. i + 1 \in DOMAIN q /\ i + 1 # 1 /\ x = q[i + 1] BY <1>1, <1>2, <2>1
  <2> QED BY <1>1, <1>5, <2>2 DEF ToSet, IsInjective
<1>7. ASSUME NEW x \in ToSet(q), x # Head(q) PROVE x \in ToSet(r)
  <2>1. PICK i \in DOMAIN q : x = q[i] BY DEF ToSet
  <2>2. i # 1 BY <1>1, <1>7, <2>1
  <2>3. i - 1 \in DOMAIN r /\ r[i - 1] = q[i] BY <1>1, <1>2, <2>1, <2>2
  <2> QED BY <2>1, <2>3 DEF ToSet
<1>8. Head(q) \in ToSet(q) BY <1>1, <1>5 DEF ToSet
<1> QED BY <1>4, <1>6, <1>7, <1>8 DEF r

(* A record is added at the end of a queue.                                   *)
LEMMA SetOfAppend ==
  ASSUME NEW S, NEW q \in Seq(S), NEW e \in S
  PROVE  ToSet(Append(q, e)) = ToSet(q) \cup {e}
<1> DEFINE r == Append(q, e)
<1>1. /\ r \in Seq(S) /\ Len(r) = Len(q) + 1 /\ r[Len(q) + 1] = e /\ \A i \in 1..Len(q) : r[i] = q[i]
      /\ Len(q) \in Nat
  BY AppendProperties, LenProperties
<1>2. DOMAIN q = 1..Len(q) /\ DOMAIN r = 1..(Len(q) + 1) BY <1>1, LenProperties
<1> HIDE DEF r
<1>3. DOMAIN r = DOMAIN q \cup {Len(q) + 1} BY <1>1, <1>2
<1>4. ToSet(r) = ToSet(q) \cup {e} BY <1>1, <1>2, <1>3 DEF ToSet
<1> QED BY <1>4 DEF r

(* Who is not in a waitqueue is in it once afterwards.                        *)
LEMMA InjectiveAppend ==
  ASSUME NEW S, NEW q \in Seq(S), NEW e \in S, IsInjective(q), e \notin ToSet(q)
  PROVE  IsInjective(Append(q, e))
<1> DEFINE r == Append(q, e)
<1>1. /\ r \in Seq(S) /\ Len(r) = Len(q) + 1 /\ r[Len(q) + 1] = e /\ \A i \in 1..Len(q) : r[i] = q[i]
      /\ Len(q) \in Nat
  BY AppendProperties, LenProperties
<1>2. DOMAIN q = 1..Len(q) /\ DOMAIN r = 1..(Len(q) + 1) BY <1>1, LenProperties
<1> HIDE DEF r
<1>3. \A i \in 1..Len(q) : q[i] # e BY <1>2 DEF ToSet
<1>4. ASSUME NEW i \in DOMAIN r, NEW j \in DOMAIN r, r[i] = r[j] PROVE i = j
  <2>1. \A h \in DOMAIN r : h \in 1..Len(q) \/ h = Len(q) + 1 BY <1>1, <1>2
  <2> QED BY <1>1, <1>2, <1>3, <1>4, <2>1 DEF IsInjective
<1> QED BY <1>4 DEF IsInjective, r

(* The same of the records that wakers put into the queue of the mutex.       *)
LEMMA OnceAppend ==
  ASSUME NEW S, NEW q \in Seq(S), NEW e \in S, CondOnce(q), e[2] = "cond" => e \notin ToSet(q)
  PROVE  CondOnce(Append(q, e))
<1> DEFINE r == Append(q, e)
<1>1. /\ r \in Seq(S) /\ Len(r) = Len(q) + 1 /\ r[Len(q) + 1] = e /\ \A i \in 1..Len(q) : r[i] = q[i]
      /\ Len(q) \in Nat
  BY AppendProperties, LenProperties
<1>2. DOMAIN q = 1..Len(q) /\ DOMAIN r = 1..(Len(q) + 1) BY <1>1, LenProperties
<1> HIDE DEF r
<1>3. e[2] = "cond" => \A i \in 1..Len(q) : q[i] # e BY <1>2 DEF ToSet
<1>4. ASSUME NEW i \in DOMAIN r, NEW j \in DOMAIN r, r[i] = r[j], r[i][2] = "cond" PROVE i = j
  <2>1. \A h \in DOMAIN r : h \in 1..Len(q) \/ h = Len(q) + 1 BY <1>1, <1>2
  <2> QED BY <1>1, <1>2, <1>3, <1>4, <2>1 DEF CondOnce
<1> QED BY <1>4 DEF CondOnce, r

(* Releasing the mutex takes one record off its queue.                        *)
LEMMA OnceTail ==
  ASSUME NEW S, NEW q \in Seq(S), q # <<>>, CondOnce(q)
  PROVE  /\ CondOnce(Tail(q)) /\ ToSet(Tail(q)) \subseteq ToSet(q) /\ ToSet(q) \subseteq ToSet(Tail(q)) \cup {Head(q)}
         /\ Head(q) \in ToSet(q) /\ (Head(q)[2] = "cond" => Head(q) \notin ToSet(Tail(q)))
<1> DEFINE r == Tail(q)
<1>1. /\ r \in Seq(S) /\ Len(r) = Len(q) - 1 /\ \A i \in 1..Len(r) : r[i] = q[i + 1]
      /\ Len(q) \in Nat \ {0} /\ Head(q) = q[1]
  BY HeadTailProperties, LenProperties, EmptySeq, HeadIsFirst
<1>2. DOMAIN q = 1..Len(q) /\ DOMAIN r = 1..Len(r) BY <1>1, LenProperties
<1> HIDE DEF r
<1>3. ASSUME NEW i \in DOMAIN r, NEW j \in DOMAIN r, r[i] = r[j], r[i][2] = "cond" PROVE i = j
  <2>1. i + 1 \in DOMAIN q /\ j + 1 \in DOMAIN q BY <1>1, <1>2
  <2>2. q[i + 1] = q[j + 1] /\ q[i + 1][2] = "cond" BY <1>1, <1>2, <1>3
  <2>3. i + 1 = j + 1 BY <2>1, <2>2 DEF CondOnce
  <2> QED BY <1>1, <1>2, <2>3
<1>4. CondOnce(r) BY <1>3 DEF CondOnce
<1>5. 1 \in DOMAIN q BY <1>1, <1>2
<1>6. ASSUME NEW x \in ToSet(r) PROVE x \in ToSet(q) /\ (x[2] = "cond" => x # Head(q))
  <2>1. PICK i \in DOMAIN r : x = r[i] BY DEF ToSet
  <2>2. i + 1 \in DOMAIN q /\ i + 1 # 1 /\ x = q[i + 1] BY <1>1, <1>2, <2>1
  <2> QED BY <1>1, <1>5, <2>2 DEF ToSet, CondOnce
<1>7. ASSUME NEW x \in ToSet(q), x # Head(q) PROVE x \in ToSet(r)
  <2>1. PICK i \in DOMAIN q : x = q[i] BY DEF ToSet
  <2>2. i # 1 BY <1>1, <1>7, <2>1
  <2>3. i - 1 \in DOMAIN r /\ r[i - 1] = q[i] BY <1>1, <1>2, <2>1, <2>2
  <2> QED BY <2>1, <2>3 DEF ToSet
<1>8. Head(q) \in ToSet(q) BY <1>1, <1>5 DEF ToSet
<1> QED BY <1>4, <1>6, <1>7, <1>8 DEF r
-----------------------------------------------------------------------------
(* Induction on the natural numbers, for a set of them.                       *)
LEMMA SetInduction ==
  ASSUME NEW T \in SUBSET Nat, 0 \in T, \A n \in T : n + 1 \in T
  PROVE  T = Nat
<1> DEFINE R == OpToRel(<, Nat)
<1>1. SUFFICES ASSUME Nat \ T # {} PROVE FALSE OBVIOUS
<1>2. IsWellFoundedOn(R, Nat) BY NatLessThanWellFounded
<1> HIDE DEF R
<1>3. PICK x \in Nat \ T : \A y \in Nat \ T : ~(<<y, x>> \in R) BY <1>1, <1>2, WFMin
<1>4. x # 0 /\ x - 1 \in Nat /\ x - 1 < x /\ (x - 1) + 1 = x BY <1>3
<1>5. x - 1 \notin T BY <1>4
<1>6. <<x - 1, x>> \in R BY <1>4 DEF R, OpToRel
<1> QED BY <1>3, <1>4, <1>5, <1>6

(* G[1] to G[N] are the bodies of a loop on states of S, and f[n] is the state *)
(* after its first n rounds.                                                  *)
IsBody(G, N, S) == G \in [1..N -> [S -> S]]
IsLoop(f, G, x, N, S) == f \in [0..N -> S] /\ f[0] = x /\ \A n \in 1..N : f[n] = G[n][f[n - 1]]

(* A loop that runs N times from x, with the bodies G, has a run: the         *)
(* recursive functions of the model are defined.                              *)
LEMMA Loop ==
  ASSUME NEW S, NEW N \in Nat, NEW x \in S, NEW G, IsBody(G, N, S)
  PROVE  \E f : IsLoop(f, G, x, N, S)
<1>0. G \in [1..N -> [S -> S]] BY DEF IsBody
<1> DEFINE Ok(m) == \E f \in [0..m -> S] : f[0] = x /\ \A n \in 1..m : f[n] = G[n][f[n - 1]]
           T == {m \in Nat : m <= N => Ok(m)}
<1>1. 0 \in T
  <2> DEFINE f == [i \in 0..0 |-> x]
  <2>1. f \in [0..0 -> S] /\ f[0] = x /\ \A n \in 1..0 : f[n] = G[n][f[n - 1]] OBVIOUS
  <2> QED BY <2>1
<1>2. ASSUME NEW m \in T PROVE m + 1 \in T
  <2>1. SUFFICES ASSUME m + 1 <= N PROVE Ok(m + 1) OBVIOUS
  <2>2. m \in Nat /\ Ok(m) BY <2>1
  <2>3. PICK f \in [0..m -> S] : f[0] = x /\ \A n \in 1..m : f[n] = G[n][f[n - 1]] BY <2>2
  <2> DEFINE h == [i \in 0..(m + 1) |-> IF i = m + 1 THEN G[m + 1][f[m]] ELSE f[i]]
  <2>4. G[m + 1][f[m]] \in S
    <3>1. m + 1 \in 1..N /\ f[m] \in S BY <2>1, <2>2, <2>3
    <3> QED BY <1>0, <3>1
  <2>5. h \in [0..(m + 1) -> S] BY <2>2, <2>3, <2>4
  <2>6. h[0] = x BY <2>2, <2>3
  <2>7. ASSUME NEW n \in 1..(m + 1) PROVE h[n] = G[n][h[n - 1]]
    <3>1. CASE n = m + 1
      <4>1. n - 1 = m /\ m \in 0..(m + 1) /\ m # m + 1 /\ n \in 0..(m + 1) BY <2>2, <3>1
      <4>2. h[n - 1] = f[m] BY <4>1
      <4>3. h[n] = G[m + 1][f[m]] BY <3>1, <4>1
      <4> QED BY <3>1, <4>2, <4>3
    <3>2. CASE n # m + 1
      <4>1. n \in 1..m /\ n - 1 \in 0..m /\ n - 1 # m + 1 /\ n \in 0..(m + 1) /\ n - 1 \in 0..(m + 1) BY <2>2, <3>2
      <4>2. h[n] = f[n] /\ h[n - 1] = f[n - 1] BY <3>2, <4>1
      <4> QED BY <2>3, <4>1, <4>2
    <3> QED BY <3>1, <3>2
  <2> HIDE DEF h
  <2> QED BY <2>5, <2>6, <2>7
<1> HIDE DEF Ok
<1>3. T = Nat BY <1>1, <1>2, SetInduction
<1>4. Ok(N) BY <1>3
<1> QED BY <1>4 DEF Ok, IsLoop

-----------------------------------------------------------------------------
SameLock(x, y) == y.readers = x.readers /\ y.wowner = x.wowner /\ y.wrecurse = x.wrecurse

(* wake_lock gives the record of a sleeper, which is nowhere yet, one place:  *)
(* the queue of the mutex, or woken.                                          *)
LEMMA WakeLockKeeps ==
  ASSUME NEW x \in State, NEW U, NEW u \in Sleeping \ U, NEW t, Placed(x, U), Served(x, t)
  PROVE  /\ WakeLock(x, u) \in State /\ Placed(WakeLock(x, u), U \cup {u}) /\ Served(WakeLock(x, u), t)
         /\ SameLock(x, WakeLock(x, u)) /\ WakeLock(x, u).rq = x.rq /\ WakeLock(x, u).wq = x.wq
<1> DEFINE y == WakeLock(x, u)
           r == <<u, "cond">>
           q == Append(x.queue, r)
<1>0. /\ u \in Threads /\ pc[u] \in {"asleep", "awake"} /\ r \in Threads \X {"lock", "cond"}
      /\ x.queue \in Seq(Threads \X {"lock", "cond"}) /\ x.woken \in SUBSET Threads
  BY DEF Sleeping, State
<1>u. u \notin ToSet(x.rq) /\ u \notin ToSet(x.wq) /\ u \notin Sent(x) /\ u \notin x.woken
  BY DEF Placed
<1>1. CASE pc[u] = "asleep"
  <2>1. y = [x EXCEPT !.queue = q, !.sent = x.sent \cup {u}] BY <1>1 DEF WakeLock
  <2>2. q \in Seq(Threads \X {"lock", "cond"}) /\ ToSet(q) = ToSet(x.queue) \cup {r}
    BY <1>0, SetOfAppend, AppendProperties
  <2>3. CondOnce(q)
    <3>1. r \notin ToSet(x.queue) BY <1>0, <1>u DEF Sent
    <3> QED BY <1>0, <3>1, OnceAppend DEF Placed
  <2> DEFINE v == x.sent \cup {u}
  <2>a. v \in SUBSET Threads BY <1>0 DEF State
  <2> HIDE DEF q, y, v
  <2>b. y = [x EXCEPT !.queue = q, !.sent = v] BY <2>1 DEF v
  <2>c. y \in State BY <2>a, <2>b, <2>2 DEF State
  <2>4. /\ y \in State /\ y.queue = q /\ y.woken = x.woken /\ y.rq = x.rq /\ y.wq = x.wq
        /\ SameLock(x, y)
    BY <2>b, <2>c DEF State, SameLock
  <2>5. Sent(y) = Sent(x) \cup {u} BY <1>0, <2>2, <2>4 DEF Sent
  <2>6. Placed(y, U \cup {u}) BY <1>u, <2>3, <2>4, <2>5 DEF Placed
  <2>7. Served(y, t) BY <2>2, <2>4 DEF Served
  <2> QED BY <2>4, <2>6, <2>7 DEF y
<1>2. CASE pc[u] = "awake"
  <2>1. y = [x EXCEPT !.woken = x.woken \cup {u}] BY <1>2 DEF WakeLock
  <2>4. /\ y \in State /\ y.queue = x.queue /\ y.woken = x.woken \cup {u} /\ y.rq = x.rq /\ y.wq = x.wq
        /\ SameLock(x, y)
    BY <1>0, <2>1 DEF State, SameLock
  <2> HIDE DEF y
  <2>5. Sent(y) = Sent(x) BY <2>4 DEF Sent
  <2>6. Placed(y, U \cup {u}) BY <1>u, <2>4, <2>5 DEF Placed
  <2>7. Served(y, t) BY <1>2, <2>4 DEF Served
  <2> QED BY <2>4, <2>6, <2>7 DEF y
<1> QED BY <1>0, <1>1, <1>2

(* wake_one moves the record of the oldest writer.                            *)
LEMMA WakeOneWriterKeeps ==
  ASSUME NEW x \in State, NEW t, Placed(x, Sleeping), Served(x, t)
  PROVE  /\ WakeOneWriter(x) \in State /\ Placed(WakeOneWriter(x), Sleeping) /\ Served(WakeOneWriter(x), t)
         /\ SameLock(x, WakeOneWriter(x)) /\ WakeOneWriter(x).rq = x.rq
         /\ WakeOneWriter(x).wq = IF x.wq = <<>> THEN <<>> ELSE Tail(x.wq)
<1>1. CASE x.wq = <<>> BY <1>1 DEF WakeOneWriter, SameLock
<1>2. CASE x.wq # <<>>
  <2> DEFINE u == Head(x.wq)
             z == [x EXCEPT !.wq = Tail(x.wq)]
  <2>0. x.wq \in Seq(Threads) BY DEF State, Queue
  <2>1. /\ Tail(x.wq) \in Seq(Threads) /\ IsInjective(Tail(x.wq))
        /\ ToSet(Tail(x.wq)) = ToSet(x.wq) \ {u} /\ u \in ToSet(x.wq)
    BY <1>2, <2>0, HeadTailProperties, InjectiveTail DEF Placed
  <2>2. WakeOneWriter(x) = WakeLock(z, u) BY <1>2 DEF WakeOneWriter
  <2>3. /\ z \in State /\ z.queue = x.queue /\ z.woken = x.woken /\ z.rq = x.rq /\ z.wq = Tail(x.wq)
        /\ SameLock(x, z)
    BY <2>1 DEF State, Queue, SameLock
  <2> HIDE DEF u, z
  <2>4. Sent(z) = Sent(x) BY <2>3 DEF Sent
  <2>5. Placed(z, Sleeping \ {u}) BY <2>1, <2>3, <2>4 DEF Placed
  <2>6. Served(z, t) BY <2>3 DEF Served
  <2>7. u \in Sleeping \ (Sleeping \ {u}) /\ (Sleeping \ {u}) \cup {u} = Sleeping BY <2>1 DEF Placed
  <2>8. /\ WakeLock(z, u) \in State /\ Placed(WakeLock(z, u), (Sleeping \ {u}) \cup {u}) /\ Served(WakeLock(z, u), t)
        /\ SameLock(z, WakeLock(z, u)) /\ WakeLock(z, u).rq = z.rq /\ WakeLock(z, u).wq = z.wq
    BY <2>3, <2>5, <2>6, <2>7, WakeLockKeeps
  <2> QED BY <1>2, <2>2, <2>3, <2>7, <2>8 DEF SameLock
<1> QED BY <1>1, <1>2

(* wake_lock changes a state into a state.                                    *)
LEMMA WakeLockType ==
  ASSUME NEW x \in State, NEW u \in Threads
  PROVE  WakeLock(x, u) \in State
<1> DEFINE q == Append(x.queue, <<u, "cond">>)
           v == x.sent \cup {u}
           w == x.woken \cup {u}
<1>1. q \in Seq(Threads \X {"lock", "cond"})
  <2>1. x.queue \in Seq(Threads \X {"lock", "cond"}) /\ <<u, "cond">> \in Threads \X {"lock", "cond"} BY DEF State
  <2> QED BY <2>1, AppendProperties
<1>2. v \in SUBSET Threads /\ w \in SUBSET Threads BY DEF State
<1>3. WakeLock(x, u) = IF pc[u] = "asleep" THEN [x EXCEPT !.queue = q, !.sent = v] ELSE [x EXCEPT !.woken = w]
  BY DEF WakeLock
<1> HIDE DEF q, v, w
<1>4. [x EXCEPT !.queue = q, !.sent = v] \in State BY <1>1, <1>2 DEF State
<1>5. [x EXCEPT !.woken = w] \in State BY <1>1, <1>2 DEF State
<1> QED BY <1>3, <1>4, <1>5

(* The loop of wake_all, round by round.                                      *)
LEMMA WakeReadersDef ==
  ASSUME NEW x \in State, NEW z \in State, z = [x EXCEPT !.rq = <<>>]
  PROVE  /\ WakeReaders(x)[0] = z
         /\ \A n \in 1..Len(x.rq) : WakeReaders(x)[n] = WakeLock(WakeReaders(x)[n - 1], x.rq[n])
<1> DEFINE N == Len(x.rq)
           a == x.rq
           G == [n \in 1..N |-> [y \in State |-> WakeLock(y, a[n])]]
           D(f) == [n \in 0..N |-> IF n = 0 THEN z ELSE WakeLock(f[n - 1], a[n])]
<1>0. WakeReaders(x) = CHOOSE h : h = D(h) BY DEF WakeReaders
<1>2. N \in Nat /\ \A n \in 1..N : a[n] \in Threads BY LenProperties, ElementOfSeq DEF State, Queue
<1> HIDE DEF N, a
<1>1. G \in [1..N -> [State -> State]]
  <2>1. \A n \in 1..N : [y \in State |-> WakeLock(y, a[n])] \in [State -> State] BY <1>2, WakeLockType
  <2> QED BY <2>1
<1> HIDE DEF G
<1>3. PICK f : IsLoop(f, G, z, N, State)
  <2>1. IsBody(G, N, State) BY <1>1 DEF IsBody
  <2> QED BY <2>1, <1>2, Loop
<1>9. f \in [0..N -> State] /\ f[0] = z /\ \A n \in 1..N : f[n] = G[n][f[n - 1]] BY <1>3 DEF IsLoop
<1>4. ASSUME NEW n \in 1..N PROVE f[n] = WakeLock(f[n - 1], a[n])
  <2>1. n - 1 \in 0..N /\ f[n - 1] \in State BY <1>2, <1>9
  <2>2. G[n][f[n - 1]] = WakeLock(f[n - 1], a[n]) BY <2>1 DEF G
  <2> QED BY <1>9, <2>2
<1>5. f = D(f)
  <2>1. \A n \in 0..N : n = 0 \/ n \in 1..N BY <1>2
  <2>2. \A n \in 0..N : f[n] = D(f)[n] BY <1>9, <1>4, <2>1
  <2> QED BY <2>2, <1>9
<1> HIDE DEF D
<1>7. WakeReaders(x) = D(WakeReaders(x)) BY <1>5, <1>0
<1> DEFINE g == WakeReaders(x)
<1> HIDE DEF g
<1>8. g = D(g) BY <1>7 DEF g
<1>10. 0 \in 0..N /\ \A n \in 1..N : n \in 0..N /\ n # 0 BY <1>2
<1>11. g[0] = z BY <1>8, <1>10 DEF D
<1>12. \A n \in 1..N : g[n] = WakeLock(g[n - 1], a[n]) BY <1>8, <1>10 DEF D
<1> QED BY <1>11, <1>12 DEF g, N, a

(* wake_all leaves no reader in the waitqueue, and every record it took off   *)
(* has one place.                                                             *)
LEMMA WakeAllKeeps ==
  ASSUME NEW x \in State, NEW t, Placed(x, Sleeping), Served(x, t)
  PROVE  LET y == WakeAllReaders(x) IN
         y \in State /\ Placed(y, Sleeping) /\ Served(y, t) /\ SameLock(x, y) /\ y.rq = <<>> /\ y.wq = x.wq
<1> DEFINE a == x.rq
           N == Len(a)
           g == WakeReaders(x)
           z == [x EXCEPT !.rq = <<>>]
           Later(n) == {a[i] : i \in (n + 1)..N}
           Good(n) == /\ g[n] \in State /\ Placed(g[n], Sleeping \ Later(n)) /\ Served(g[n], t)
                      /\ SameLock(x, g[n]) /\ g[n].rq = <<>> /\ g[n].wq = x.wq
           T == {n \in Nat : n <= N => Good(n)}
<1>1. /\ a \in Seq(Threads) /\ N \in Nat /\ DOMAIN a = 1..N /\ \A i \in 1..N : a[i] \in Threads
  BY LenProperties, ElementOfSeq DEF State, Queue
<1>2. IsInjective(a) /\ ToSet(a) \subseteq Sleeping BY DEF Placed
<1>3. /\ z \in State /\ z.queue = x.queue /\ z.woken = x.woken /\ z.rq = <<>> /\ z.wq = x.wq
      /\ SameLock(x, z)
  <2>1. <<>> \in Seq(Threads) BY EmptySeq
  <2>2. z \in State BY <2>1 DEF State, Queue
  <2> QED BY <2>2 DEF State, SameLock
<1>4. g[0] = z /\ \A n \in 1..N : g[n] = WakeLock(g[n - 1], a[n])
  BY <1>3, WakeReadersDef
<1>x. WakeAllReaders(x) = g[N] BY DEF WakeAllReaders
<1>t. Placed(x, Sleeping) /\ Served(x, t) /\ a = x.rq OBVIOUS
<1> HIDE DEF a, N, g, z
<1>5. Later(0) = ToSet(a) BY <1>1 DEF ToSet
<1>6. Later(N) = {} BY <1>1
<1>7. ASSUME NEW n \in Nat, n + 1 <= N
      PROVE  a[n + 1] \in Later(n) /\ a[n + 1] \notin Later(n + 1) /\ Later(n) = Later(n + 1) \cup {a[n + 1]} /\ Later(n) \subseteq Sleeping
  <2>1. n + 1 \in (n + 1)..N /\ (n + 1)..N = (n + 2)..N \cup {n + 1} /\ (n + 1)..N \subseteq 1..N /\ n + 1 \notin (n + 2)..N
    BY <1>1, <1>7
  <2>2. (n + 1) + 1 = n + 2 OBVIOUS
  <2>3. \A i \in (n + 2)..N : a[i] # a[n + 1] BY <1>1, <1>2, <2>1 DEF IsInjective
  <2>4. \A i \in 1..N : a[i] \in Sleeping BY <1>1, <1>2 DEF ToSet
  <2> QED BY <2>1, <2>2, <2>3, <2>4
<1>8. 0 \in T
  <2>1. Sent(z) = Sent(x) BY <1>3 DEF Sent
  <2>2. IsInjective(z.rq) /\ ToSet(z.rq) = {} BY <1>3 DEF IsInjective, ToSet
  <2>3. Placed(z, Sleeping \ ToSet(a)) BY <1>3, <1>t, <2>1, <2>2 DEF Placed
  <2>4. Served(z, t) BY <1>3, <1>t DEF Served
  <2> QED BY <1>3, <1>4, <1>5, <2>3, <2>4
<1>9. ASSUME NEW n \in T PROVE n + 1 \in T
  <2>1. SUFFICES ASSUME n + 1 <= N PROVE Good(n + 1) OBVIOUS
  <2>2. n \in Nat /\ Good(n) BY <1>1, <2>1
  <2>3. n + 1 \in 1..N /\ (n + 1) - 1 = n BY <1>1, <2>1, <2>2
  <2>4. g[n + 1] = WakeLock(g[n], a[n + 1]) BY <1>4, <2>3
  <2> DEFINE u == a[n + 1]
             U == Sleeping \ Later(n)
  <2>5. u \in Sleeping \ U /\ U \cup {u} = Sleeping \ Later(n + 1) BY <1>7, <2>1, <2>2
  <2> HIDE DEF u, Later
  <2>6. g[n] \in State /\ Placed(g[n], U) /\ Served(g[n], t) BY <2>2
  <2> HIDE DEF U
  <2>7. /\ WakeLock(g[n], u) \in State /\ Placed(WakeLock(g[n], u), U \cup {u}) /\ Served(WakeLock(g[n], u), t)
        /\ SameLock(g[n], WakeLock(g[n], u)) /\ WakeLock(g[n], u).rq = g[n].rq /\ WakeLock(g[n], u).wq = g[n].wq
    BY <2>5, <2>6, WakeLockKeeps
  <2>8. g[n + 1] = WakeLock(g[n], u) BY <2>4 DEF u
  <2> QED BY <2>2, <2>5, <2>7, <2>8 DEF SameLock
<1>10. N \in T
  <2> HIDE DEF Good
  <2> QED BY <1>1, <1>8, <1>9, SetInduction
<1>11. Good(N) BY <1>1, <1>10
<1> QED BY <1>x, <1>11, <1>6

(* A writer has been called, or nobody sleeps in a waitqueue.                 *)
Calm(x, t) == Coming(x, t) \/ (x.rq = <<>> /\ x.wq = <<>>)

(* wunlock() gives up one level of the lock and calls a writer, or else every *)
(* reader.                                                                    *)
LEMMA WunlockKeeps ==
  ASSUME NEW x \in State, NEW t \in Threads \ Sleeping, Placed(x, Sleeping), Served(x, t), Writing(x)
  PROVE  LET y == Wunlock(x) IN
         /\ y \in State /\ Placed(y, Sleeping) /\ Served(y, t) /\ Writing(y) /\ Calm(y, t)
         /\ ToSet(y.wq) \subseteq ToSet(x.wq) /\ y.readers = x.readers
         /\ x.wrecurse > 0 => y.wrecurse = x.wrecurse - 1 /\ y.wowner = x.wowner
         /\ x.wrecurse = 0 => y.wrecurse = 0 /\ y.wowner = None
<1> DEFINE z == IF x.wrecurse > 0 THEN [x EXCEPT !.wrecurse = @ - 1] ELSE [x EXCEPT !.wowner = None]
<1>1. /\ z \in State /\ z.queue = x.queue /\ z.woken = x.woken /\ z.rq = x.rq /\ z.wq = x.wq
      /\ z.readers = x.readers
      /\ x.wrecurse > 0 => z.wrecurse = x.wrecurse - 1 /\ z.wowner = x.wowner
      /\ x.wrecurse = 0 => z.wrecurse = 0 /\ z.wowner = None
  <2>1. x.wrecurse \in Nat BY DEF State
  <2>2. CASE x.wrecurse > 0
    <3> DEFINE d == x.wrecurse - 1
    <3>1. d \in Nat /\ z = [x EXCEPT !.wrecurse = d] BY <2>1, <2>2
    <3>4. ~(x.wrecurse = 0) BY <2>1, <2>2
    <3> HIDE DEF d, z
    <3>2. z \in State BY <3>1 DEF State
    <3>3. /\ z.queue = x.queue /\ z.woken = x.woken /\ z.rq = x.rq /\ z.wq = x.wq /\ z.readers = x.readers
          /\ z.wrecurse = d /\ z.wowner = x.wowner
      BY <3>1 DEF State
    <3> QED BY <3>2, <3>3, <3>4 DEF d
  <2>3. CASE ~(x.wrecurse > 0)
    <3>1. x.wrecurse = 0 /\ z = [x EXCEPT !.wowner = None] BY <2>1, <2>3
    <3>2. z \in State BY <3>1 DEF State
    <3> QED BY <2>3, <3>1, <3>2 DEF State
  <2> QED BY <2>2, <2>3
<1>2. Wunlock(x) = IF z.wq # <<>> THEN WakeOneWriter(z) ELSE WakeAllReaders(z) BY DEF Wunlock
<1> HIDE DEF z
<1>3. Sent(z) = Sent(x) BY <1>1 DEF Sent
<1>4. Placed(z, Sleeping) /\ Served(z, t) BY <1>1, <1>3 DEF Placed, Served
<1> DEFINE y == Wunlock(x)
<1>5. CASE z.wq # <<>>
  <2> DEFINE u == Head(z.wq)
  <2>0. z.wq \in Seq(Threads) /\ IsInjective(z.wq) BY <1>1, <1>4 DEF State, Queue, Placed
  <2>1. ToSet(Tail(z.wq)) = ToSet(z.wq) \ {u} /\ u \in ToSet(z.wq) BY <1>5, <2>0, InjectiveTail
  <2>2. /\ y \in State /\ Placed(y, Sleeping) /\ Served(y, t) /\ SameLock(z, y) /\ y.rq = z.rq /\ y.wq = Tail(z.wq)
    BY <1>1, <1>2, <1>4, <1>5, WakeOneWriterKeeps
  <2> HIDE DEF u, y
  <2>3. u \in Sleeping /\ u \in Threads /\ op[u] = "wlock" BY <1>1, <2>1, <1>4 DEF Placed, Writing, Sleeping
  <2>4. u # t /\ u \notin ToSet(y.wq) /\ u \notin ToSet(y.rq) BY <1>4, <2>1, <2>2, <2>3 DEF Placed
  <2>5. Coming(y, t) BY <2>3, <2>4 DEF Coming, Comes
  <2>6. ToSet(y.wq) \subseteq ToSet(x.wq) /\ Writing(y) BY <1>1, <2>1, <2>2 DEF Writing
  <2> QED BY <1>1, <2>2, <2>5, <2>6 DEF y, SameLock, Calm
<1>6. CASE z.wq = <<>>
  <2>2. /\ y \in State /\ Placed(y, Sleeping) /\ Served(y, t) /\ SameLock(z, y) /\ y.rq = <<>> /\ y.wq = z.wq
    BY <1>1, <1>2, <1>4, <1>6, WakeAllKeeps
  <2> HIDE DEF y
  <2> QED BY <1>1, <1>6, <2>2 DEF y, SameLock, Calm, Writing
<1> QED BY <1>5, <1>6

(* The states of the rwlock while t has the mutex and is in a call.           *)
Held(t) == {x \in State : Placed(x, Sleeping) /\ Served(x, t) /\ Writing(x)}

(* The loop of downgrade(), round by round.                                   *)
LEMMA WunlocksDef ==
  ASSUME NEW t \in Threads \ Sleeping, NEW x \in Held(t)
  PROVE  /\ Wunlocks(x)[0] = x
         /\ \A n \in 1..(x.wrecurse + 1) : Wunlocks(x)[n] = Wunlock(Wunlocks(x)[n - 1])
         /\ \A n \in 0..(x.wrecurse + 1) : Wunlocks(x)[n] \in Held(t)
<1> DEFINE N == x.wrecurse + 1
           G == [n \in 1..N |-> [y \in Held(t) |-> Wunlock(y)]]
           D(f) == [n \in 0..N |-> IF n = 0 THEN x ELSE Wunlock(f[n - 1])]
<1>0. Wunlocks(x) = CHOOSE h : h = D(h) BY DEF Wunlocks
<1>2. N \in Nat BY DEF State, Held
<1> HIDE DEF N
<1>1. G \in [1..N -> [Held(t) -> Held(t)]]
  <2>1. ASSUME NEW y \in Held(t) PROVE Wunlock(y) \in Held(t)
    BY WunlockKeeps DEF Held
  <2>2. [y \in Held(t) |-> Wunlock(y)] \in [Held(t) -> Held(t)] BY <2>1
  <2> QED BY <2>2
<1> HIDE DEF G
<1>3. PICK f : IsLoop(f, G, x, N, Held(t))
  <2>1. IsBody(G, N, Held(t)) BY <1>1 DEF IsBody
  <2> QED BY <2>1, <1>2, Loop
<1>9. f \in [0..N -> Held(t)] /\ f[0] = x /\ \A n \in 1..N : f[n] = G[n][f[n - 1]] BY <1>3 DEF IsLoop
<1>4. ASSUME NEW n \in 1..N PROVE f[n] = Wunlock(f[n - 1])
  <2>1. n - 1 \in 0..N /\ f[n - 1] \in Held(t) BY <1>2, <1>9
  <2>2. G[n][f[n - 1]] = Wunlock(f[n - 1]) BY <2>1 DEF G
  <2> QED BY <1>9, <2>2
<1>5. f = D(f)
  <2>1. \A n \in 0..N : n = 0 \/ n \in 1..N BY <1>2
  <2>2. \A n \in 0..N : f[n] = D(f)[n] BY <1>9, <1>4, <2>1
  <2> QED BY <2>2, <1>9
<1> HIDE DEF D
<1> DEFINE g == Wunlocks(x)
<1>7. g = D(g) BY <1>5, <1>0
<1> HIDE DEF g
<1>10. 0 \in 0..N /\ \A n \in 1..N : n \in 0..N /\ n # 0 BY <1>2
<1>11. g[0] = x BY <1>7, <1>10 DEF D
<1>12. \A n \in 1..N : g[n] = Wunlock(g[n - 1]) BY <1>7, <1>10 DEF D
<1>13. \A n \in 0..N : g[n] \in Held(t)
  <2> DEFINE T == {n \in Nat : n <= N => g[n] \in Held(t)}
  <2>1. 0 \in T BY <1>11
  <2>2. ASSUME NEW n \in T PROVE n + 1 \in T
    <3>1. SUFFICES ASSUME n + 1 <= N PROVE g[n + 1] \in Held(t) OBVIOUS
    <3>2. n \in Nat /\ g[n] \in Held(t) /\ n + 1 \in 1..N /\ (n + 1) - 1 = n BY <1>2, <3>1
    <3>3. g[n + 1] = Wunlock(g[n]) BY <1>12, <3>2
    <3> QED BY <3>2, <3>3, WunlockKeeps DEF Held
  <2>3. T = Nat BY <2>1, <2>2, SetInduction
  <2> QED BY <1>2, <2>3
<1> QED BY <1>11, <1>12, <1>13 DEF g, N

(* downgrade() gives up the write lock however deep its owner has taken it.   *)
LEMMA WunlockAllKeeps ==
  ASSUME NEW t \in Threads \ Sleeping, NEW x \in Held(t)
  PROVE  LET y == WunlockAll(x) IN
         /\ y \in Held(t) /\ Calm(y, t) /\ y.readers = x.readers
         /\ y.wrecurse = 0 /\ y.wowner = None
<1> DEFINE W == x.wrecurse
           g == Wunlocks(x)
           T == {n \in Nat : n <= W => g[n].wrecurse = W - n /\ g[n].readers = x.readers}
<1>1. W \in Nat BY DEF State, Held
<1>2. /\ g[0] = x /\ \A n \in 1..(W + 1) : g[n] = Wunlock(g[n - 1])
      /\ \A n \in 0..(W + 1) : g[n] \in Held(t)
  BY WunlocksDef
<1>3. WunlockAll(x) = g[W + 1] BY DEF WunlockAll
<1>4. W - 0 = W /\ x.wrecurse = W BY <1>1
<1> HIDE DEF W, g
<1>5. 0 \in T BY <1>2, <1>4
<1>6. ASSUME NEW n \in T PROVE n + 1 \in T
  <2>1. SUFFICES ASSUME n + 1 <= W PROVE g[n + 1].wrecurse = W - (n + 1) /\ g[n + 1].readers = x.readers OBVIOUS
  <2>2. n \in Nat /\ n \in 0..(W + 1) /\ n + 1 \in 1..(W + 1) /\ (n + 1) - 1 = n /\ W - n > 0
    BY <1>1, <2>1
  <2>3. g[n].wrecurse = W - n /\ g[n].readers = x.readers BY <1>1, <2>1, <2>2
  <2>4. g[n + 1] = Wunlock(g[n]) /\ g[n] \in Held(t) BY <1>2, <2>2
  <2>5. g[n + 1].wrecurse = (W - n) - 1 /\ g[n + 1].readers = x.readers
    BY <2>2, <2>3, <2>4, WunlockKeeps DEF Held
  <2> QED BY <1>1, <2>2, <2>5
<1>7. T = Nat BY <1>5, <1>6, SetInduction
<1>8. g[W].wrecurse = 0 /\ g[W].readers = x.readers
  <2>1. W \in T BY <1>1, <1>7
  <2>2. g[W].wrecurse = W - W /\ g[W].readers = x.readers BY <1>1, <2>1
  <2> QED BY <1>1, <2>2
<1>9. W \in 0..(W + 1) /\ W + 1 \in 1..(W + 1) /\ (W + 1) - 1 = W /\ W + 1 \in 0..(W + 1) BY <1>1
<1>10. g[W] \in Held(t) /\ g[W + 1] \in Held(t) /\ g[W + 1] = Wunlock(g[W]) BY <1>2, <1>9
<1>11. Calm(g[W + 1], t) /\ g[W + 1].readers = x.readers /\ g[W + 1].wrecurse = 0 /\ g[W + 1].wowner = None
  BY <1>8, <1>10, WunlockKeeps DEF Held
<1> QED BY <1>3, <1>10, <1>11

(* runlock(): the last reader calls a writer when one sleeps.                 *)
LEMMA RunlockKeeps ==
  ASSUME NEW t \in Threads \ Sleeping, NEW x \in Held(t), x.readers > 0, Awaited(x, t)
  PROVE  LET y == Runlock(x) IN
         /\ y \in Held(t) /\ Awaited(y, t)
         /\ y.readers = x.readers - 1 /\ y.wrecurse = x.wrecurse /\ y.wowner = x.wowner
<1> DEFINE z == [x EXCEPT !.readers = x.readers - 1]
           y == Runlock(x)
<1>1. /\ z \in State /\ z.queue = x.queue /\ z.woken = x.woken /\ z.rq = x.rq /\ z.wq = x.wq
      /\ z.readers = x.readers - 1 /\ z.wrecurse = x.wrecurse /\ z.wowner = x.wowner /\ z.readers \in Nat
  <2>1. x \in State /\ x.readers - 1 \in Nat BY DEF Held, State
  <2>2. z \in State BY <2>1 DEF State
  <2> QED BY <2>1, <2>2 DEF State
<1>2. y = IF z.readers = 0 THEN WakeOneWriter(z) ELSE z BY DEF Runlock
<1> HIDE DEF z, y
<1>3. Sent(z) = Sent(x) BY <1>1 DEF Sent
<1>4. Placed(z, Sleeping) /\ Served(z, t) /\ Writing(z) BY <1>1, <1>3 DEF Placed, Served, Held, Writing
<1>a. Coming(x, t) => Coming(z, t) BY <1>1 DEF Coming, Comes
<1>5. CASE z.readers # 0
  <2>1. y = z BY <1>2, <1>5
  <2>0. z.readers > 0
    <3>1. z.readers \in Nat BY <1>1
    <3> QED BY <3>1, <1>5
  <2>2. Awaited(z, t) BY <1>1, <1>a, <2>0 DEF Awaited
  <2> QED BY <1>1, <1>4, <2>1, <2>2 DEF y, Held
<1>6. CASE z.readers = 0 /\ z.wq = <<>>
  <2>1. y = z BY <1>2, <1>6 DEF WakeOneWriter
  <2>2. Awaited(z, t) BY <1>1, <1>a, <1>6 DEF Awaited
  <2> QED BY <1>1, <1>4, <2>1, <2>2 DEF y, Held
<1>7. CASE z.readers = 0 /\ z.wq # <<>>
  <2> DEFINE u == Head(z.wq)
  <2>0. z.wq \in Seq(Threads) /\ IsInjective(z.wq) BY <1>1, <1>4 DEF State, Queue, Placed
  <2>1. ToSet(Tail(z.wq)) = ToSet(z.wq) \ {u} /\ u \in ToSet(z.wq) BY <1>7, <2>0, InjectiveTail
  <2>2. /\ y \in State /\ Placed(y, Sleeping) /\ Served(y, t) /\ SameLock(z, y) /\ y.rq = z.rq /\ y.wq = Tail(z.wq)
    BY <1>1, <1>2, <1>4, <1>7, WakeOneWriterKeeps
  <2> HIDE DEF u
  <2>3. u \in Sleeping /\ u \in Threads /\ op[u] = "wlock" BY <1>1, <2>1, <1>4 DEF Placed, Writing, Sleeping
  <2>4. u # t /\ u \notin ToSet(y.wq) /\ u \notin ToSet(y.rq) BY <1>4, <2>1, <2>2, <2>3 DEF Placed
  <2>5. Coming(y, t) BY <2>3, <2>4 DEF Coming, Comes
  <2>6. Writing(y) BY <1>4, <2>1, <2>2 DEF Writing
  <2>7. Awaited(y, t) BY <2>5 DEF Awaited
  <2> QED BY <1>1, <2>2, <2>6, <2>7 DEF y, SameLock, Held
<1> QED BY <1>5, <1>6, <1>7
-----------------------------------------------------------------------------
(* Releasing the mutex hands it to the oldest record of its queue, which      *)
(* changes no field of the rwlock, and a record that a waker had put there    *)
(* becomes woken.                                                             *)
LEMMA Released ==
  ASSUME NEW x \in State, NEW U, Placed(x, U), Release(x),
         \A u \in Threads : /\ pc'[u] \in {"enter", "awake"} => <<u, "lock">> \in ToSet(x.queue)
                            /\ pc'[u] = "asleep" => u \notin x.woken
  PROVE  /\ s' \in State /\ owner' \in Threads \cup {None} /\ Placed(s', U) /\ MutexInv'
         /\ SameLock(x, s') /\ s'.rq = x.rq /\ s'.wq = x.wq
<1>1. CASE x.queue = <<>>
  <2>1. owner' = None /\ s' = x BY <1>1 DEF Release
  <2>2. MutexInv' BY <1>1, <2>1 DEF MutexInv, Served
  <2> QED BY <2>1, <2>2 DEF SameLock
<1>2. CASE x.queue # <<>>
  <2> DEFINE r == Head(x.queue)
             q == Tail(x.queue)
             v == IF r[2] = "cond" THEN x.woken \cup {r[1]} ELSE x.woken
  <2>0. x.queue \in Seq(Threads \X {"lock", "cond"}) /\ CondOnce(x.queue) BY DEF State, Placed
  <2>1. /\ r \in Threads \X {"lock", "cond"} /\ q \in Seq(Threads \X {"lock", "cond"})
        /\ CondOnce(q) /\ ToSet(q) \subseteq ToSet(x.queue) /\ ToSet(x.queue) \subseteq ToSet(q) \cup {r}
        /\ r \in ToSet(x.queue) /\ (r[2] = "cond" => r \notin ToSet(q))
    BY <1>2, <2>0, OnceTail, HeadTailProperties
  <2>2. owner' = r[1] /\ s' = [x EXCEPT !.queue = q, !.woken = v] BY <1>2 DEF Release
  <2> HIDE DEF q, r
  <2>3. PICK h \in Threads, k \in {"lock", "cond"} : r = <<h, k>> BY <2>1
  <2>4. r[1] = h /\ r[2] = k BY <2>3
  <2>5. v \in SUBSET Threads /\ v = IF k = "cond" THEN x.woken \cup {h} ELSE x.woken BY <2>4 DEF State
  <2> HIDE DEF v
  <2>6. /\ s' \in State /\ s'.queue = q /\ s'.woken = v /\ s'.rq = x.rq /\ s'.wq = x.wq /\ SameLock(x, s')
    <3>1. s' \in State BY <2>1, <2>2, <2>5 DEF State
    <3> QED BY <2>2, <3>1 DEF State, SameLock
  <2>7. Placed(s', U)
    <3>1. CASE k = "cond"
      <4>1. h \in Sent(x) BY <2>1, <2>3, <3>1 DEF Sent
      <4>2. Sent(s') = Sent(x) \ {h}
        <5>1. \A u \in Threads : u # h => (<<u, "cond">> \in ToSet(q) <=> <<u, "cond">> \in ToSet(x.queue))
          BY <2>1, <2>3
        <5>2. <<h, "cond">> \notin ToSet(q) BY <2>1, <2>3, <2>4, <3>1
        <5> QED BY <2>6, <5>1, <5>2 DEF Sent
      <4>3. s'.woken = x.woken \cup {h} BY <2>5, <2>6, <3>1
      <4> QED BY <2>1, <2>6, <4>1, <4>2, <4>3 DEF Placed
    <3>2. CASE k = "lock"
      <4>1. Sent(s') = Sent(x)
        <5>1. \A u \in Threads : <<u, "cond">> \in ToSet(q) <=> <<u, "cond">> \in ToSet(x.queue)
          BY <2>1, <2>3, <3>2
        <5> QED BY <2>6, <5>1 DEF Sent
      <4>2. s'.woken = x.woken BY <2>5, <2>6, <3>2
      <4> QED BY <2>1, <2>6, <4>1, <4>2 DEF Placed
    <3> QED BY <3>1, <3>2
  <2>8. MutexInv'
    <3>1. owner' = h /\ h # None BY <2>2, <2>4, RwLockAssumption
    <3>2. ASSUME NEW u \in Threads \ {h}
          PROVE  /\ pc'[u] \in {"enter", "awake"} => <<u, "lock">> \in ToSet(s'.queue)
                 /\ pc'[u] = "asleep" => u \notin s'.woken
      <4>1. <<u, "lock">> # r BY <2>3
      <4>2. <<u, "lock">> \in ToSet(x.queue) => <<u, "lock">> \in ToSet(s'.queue) BY <2>1, <2>6, <4>1
      <4>3. u \notin x.woken => u \notin s'.woken BY <2>5, <2>6
      <4> QED BY <4>2, <4>3
    <3> QED BY <3>1, <3>2 DEF MutexInv, Served
  <2> QED BY <2>2, <2>3, <2>4, <2>6, <2>7, <2>8
<1> QED BY <1>1, <1>2

(* A thread gets the mutex or enters its queue.                               *)
LEMMA Asked ==
  ASSUME NEW t \in Threads, NEW l \in {"enter", "awake"}, s \in State, owner \in Threads \cup {None},
         pc \in [Threads -> Labels], MutexInv, PlaceInv, Ask(t), Goto(t, l)
  PROVE  /\ s' \in State /\ owner' \in Threads \cup {None} /\ Placed(s', Sleeping) /\ MutexInv'
         /\ SameLock(s, s') /\ s'.rq = s.rq /\ s'.wq = s.wq
<1>0. /\ pc'[t] = l /\ \A u \in Threads \ {t} : pc'[u] = pc[u] BY DEF Goto
<1>1. CASE owner = None
  <2>1. owner' = t /\ s' = s BY <1>1 DEF Ask
  <2>2. t # None /\ None \notin Threads BY RwLockAssumption
  <2>3. MutexInv' BY <1>0, <1>1, <2>1, <2>2 DEF MutexInv, Served
  <2> QED BY <2>1, <2>3 DEF SameLock, PlaceInv
<1>2. CASE owner # None
  <2> DEFINE r == <<t, "lock">>
             q == Append(s.queue, r)
  <2>0. s.queue \in Seq(Threads \X {"lock", "cond"}) /\ CondOnce(s.queue) /\ r \in Threads \X {"lock", "cond"}
    BY DEF State, Placed, PlaceInv
  <2>1. q \in Seq(Threads \X {"lock", "cond"}) /\ ToSet(q) = ToSet(s.queue) \cup {r} /\ CondOnce(q)
    <3>1. r[2] = "lock" OBVIOUS
    <3> QED BY <2>0, <3>1, OnceAppend, SetOfAppend, AppendProperties
  <2>2. s' = [s EXCEPT !.queue = q] /\ owner' = owner BY <1>2 DEF Ask
  <2> HIDE DEF q
  <2>6. /\ s' \in State /\ s'.queue = q /\ s'.woken = s.woken /\ s'.rq = s.rq /\ s'.wq = s.wq /\ SameLock(s, s')
    <3>1. s' \in State BY <2>1, <2>2 DEF State
    <3> QED BY <2>2, <3>1 DEF State, SameLock
  <2>7. Sent(s') = Sent(s) BY <2>1, <2>6 DEF Sent
  <2>8. Placed(s', Sleeping) BY <2>1, <2>6, <2>7 DEF Placed, PlaceInv
  <2>9. MutexInv'
    <3>1. owner' # None BY <1>2, <2>2
    <3>2. Served(s, owner)' BY <1>0, <2>1, <2>2, <2>6 DEF MutexInv, Served
    <3> QED BY <3>1, <3>2 DEF MutexInv
  <2> QED BY <2>2, <2>6, <2>8, <2>9
<1> QED BY <1>1, <1>2

(* A thread returns from its call, or leaves it for the rlock() of            *)
(* downgrade(), with the rwlock in state x.                                   *)
LEMMA Returned ==
  ASSUME NEW t \in Threads, NEW x \in Held(t), NEW o \in {"none", "downgrade"},
         pc \in [Threads -> Labels], op \in [Threads -> Takes \cup Releases \cup {"none"}],
         pc[t] = "enter", Awaited(x, t), Release(x), Goto(t, "idle"), op' = [op EXCEPT ![t] = o]
  PROVE  /\ s' \in State /\ owner' \in Threads \cup {None} /\ SameLock(x, s')
         /\ pc' \in [Threads -> Labels] /\ op' \in [Threads -> Takes \cup Releases \cup {"none"}]
         /\ pc'[t] = "idle" /\ op'[t] = o /\ \A u \in Threads \ {t} : pc'[u] = pc[u] /\ op'[u] = op[u]
         /\ PlaceInv' /\ MutexInv' /\ WaitInv'
<1>1. /\ pc' \in [Threads -> Labels] /\ op' \in [Threads -> Takes \cup Releases \cup {"none"}]
      /\ pc'[t] = "idle" /\ op'[t] = o /\ \A u \in Threads \ {t} : pc'[u] = pc[u] /\ op'[u] = op[u]
  BY DEF Goto, Labels, Releases
<1>2. Sleeping' = Sleeping /\ t \notin Sleeping BY <1>1 DEF Sleeping
<1>3. x \in State /\ Placed(x, Sleeping) /\ Served(x, t) /\ Writing(x) BY DEF Held
<1>4. ASSUME NEW u \in Threads
      PROVE  /\ pc'[u] \in {"enter", "awake"} => <<u, "lock">> \in ToSet(x.queue)
             /\ pc'[u] = "asleep" => u \notin x.woken
  BY <1>1, <1>3 DEF Served
<1>5. /\ s' \in State /\ owner' \in Threads \cup {None} /\ Placed(s', Sleeping) /\ MutexInv'
      /\ SameLock(x, s') /\ s'.rq = x.rq /\ s'.wq = x.wq
  BY <1>3, <1>4, Released
<1>6. PlaceInv' BY <1>2, <1>5 DEF PlaceInv
<1>7. WaitInv'
  <2>1. t \notin ToSet(x.wq) /\ ToSet(x.wq) \subseteq Threads BY <1>2, <1>3 DEF Placed, Sleeping
  <2>2. Writing(s)' BY <1>1, <1>3, <1>5, <2>1 DEF Writing
  <2>3. ASSUME Coming(x, t) PROVE Coming(s, None)'
    <3>1. PICK w \in Threads \ {t} : Comes(x, w) BY <2>3 DEF Coming
    <3>2. Comes(s, w)' BY <1>1, <1>2, <1>5, <3>1 DEF Comes
    <3>3. w # None BY RwLockAssumption
    <3> QED BY <3>2, <3>3 DEF Coming
  <2>4. Awaited(s, None)' BY <1>5, <2>3 DEF Awaited, SameLock
  <2> QED BY <2>2, <2>4 DEF WaitInv
<1> QED BY <1>1, <1>5, <1>6, <1>7

(* A thread goes to sleep in a waitqueue in which x has its record.           *)
LEMMA Slept ==
  ASSUME NEW t \in Threads, NEW x \in State,
         pc \in [Threads -> Labels], pc[t] = "enter", op[t] \in {"rlock", "wlock"},
         t \notin x.woken,
         Placed(x, Sleeping \cup {t}), Served(x, t), Writing(x), Awaited(x, t),
         Release(x), Goto(t, "asleep"), op' = op
  PROVE  /\ s' \in State /\ owner' \in Threads \cup {None} /\ SameLock(x, s')
         /\ pc' \in [Threads -> Labels]
         /\ pc'[t] = "asleep" /\ \A u \in Threads \ {t} : pc'[u] = pc[u]
         /\ PlaceInv' /\ MutexInv' /\ WaitInv'
<1>1. /\ pc' \in [Threads -> Labels]
      /\ pc'[t] = "asleep" /\ \A u \in Threads \ {t} : pc'[u] = pc[u]
  BY DEF Goto, Labels
<1>2. Sleeping' = Sleeping \cup {t} BY <1>1 DEF Sleeping
<1>4. ASSUME NEW u \in Threads
      PROVE  /\ pc'[u] \in {"enter", "awake"} => <<u, "lock">> \in ToSet(x.queue)
             /\ pc'[u] = "asleep" => u \notin x.woken
  BY <1>1 DEF Served
<1>5. /\ s' \in State /\ owner' \in Threads \cup {None} /\ Placed(s', Sleeping \cup {t}) /\ MutexInv'
      /\ SameLock(x, s') /\ s'.rq = x.rq /\ s'.wq = x.wq
  BY <1>4, Released
<1>6. PlaceInv' BY <1>2, <1>5 DEF PlaceInv
<1>7. WaitInv'
  <2>2. Writing(s)' BY <1>5 DEF Writing
  <2>3. ASSUME Coming(x, t) PROVE Coming(s, None)'
    <3>1. PICK w \in Threads \ {t} : Comes(x, w) BY <2>3 DEF Coming
    <3>2. Comes(s, w)' BY <1>1, <1>2, <1>5, <3>1 DEF Comes
    <3>3. w # None BY RwLockAssumption
    <3> QED BY <3>2, <3>3 DEF Coming
  <2>4. Awaited(s, None)' BY <1>5, <2>3 DEF Awaited, SameLock
  <2> QED BY <2>2, <2>4 DEF WaitInv
<1> QED BY <1>1, <1>5, <1>6, <1>7
-----------------------------------------------------------------------------
(* The parts of the type invariant.                                           *)
LEMMA TypeParts ==
  TypeOK <=> /\ s \in State /\ owner \in Threads \cup {None} /\ pc \in [Threads -> Labels]
             /\ op \in [Threads -> Takes \cup Releases \cup {"none"}] /\ mode \in Modes
             /\ ops \in 0..MaxOps /\ wakes \in 0..MaxSpurious
BY DEF TypeOK, State, Modes

(* The parts of the type invariant in the next state.                         *)
LEMMA Typed ==
  ASSUME s' \in State, owner' \in Threads \cup {None}, pc' \in [Threads -> Labels],
         op' \in [Threads -> Takes \cup Releases \cup {"none"}], mode' \in Modes,
         ops' \in 0..MaxOps, wakes' \in 0..MaxSpurious
  PROVE  TypeOK'
BY DEF TypeOK, State, Modes

(* What the owner of the mutex finds when its call starts, or looks at the    *)
(* lock again.                                                                *)
LEMMA Actor ==
  ASSUME IInv, NEW t \in Threads, owner = t, pc[t] = "enter"
  PROVE  /\ s \in Held(t) /\ t \notin Sleeping /\ Legal(t, op[t])
         /\ op[t] # "wlock" => Awaited(s, t)
<1>1. s \in Held(t) BY TypeParts DEF IInv, PlaceInv, MutexInv, WaitInv, Held
<1>2. t \notin Sleeping BY DEF Sleeping
<1>3. Legal(t, op[t]) BY DEF IInv, OpInv, OpOK
<1>4. ASSUME op[t] # "wlock", Coming(s, None) PROVE Coming(s, t) BY <1>4 DEF Coming, Comes
<1>5. op[t] # "wlock" => Awaited(s, t) BY <1>4 DEF IInv, WaitInv, Awaited
<1> QED BY <1>1, <1>2, <1>3, <1>5

(* A step of t leaves what concerns the calls of the others.                  *)
LEMMA OpKept ==
  ASSUME OpInv, NEW t \in Threads, OpOK(t)',
         \A u \in Threads \ {t} : pc'[u] = pc[u] /\ op'[u] = op[u] /\ mode'[u] = mode[u]
  PROVE  OpInv'
<1>1. ASSUME NEW u \in Threads, u # t PROVE OpOK(u)'
  <2>1. pc'[u] = pc[u] /\ op'[u] = op[u] /\ mode'[u] = mode[u] BY <1>1
  <2>2. OpOK(u) BY DEF OpInv
  <2>3. Legal(u, op[u])' <=> Legal(u, op[u]) BY <2>1 DEF Legal, Holds
  <2>4. Holds(u)' = Holds(u) BY <2>1 DEF Holds
  <2>5. (u \in Sleeping)' <=> u \in Sleeping BY <2>1 DEF Sleeping
  <2> QED BY <2>1, <2>2, <2>3, <2>4, <2>5 DEF OpOK
<1> QED BY <1>1 DEF OpInv

(* Who has returned may call again.                                           *)
LEMMA Returning ==
  ASSUME NEW t \in Threads, pc'[t] = "idle", op'[t] = "none"
  PROVE  OpOK(t)'
BY DEF OpOK, Sleeping

(* A step that changes neither the fields of the lock nor what a client       *)
(* holds.                                                                     *)
LEMMA HoldSame ==
  ASSUME HoldInv, SameLock(s, s'), mode' = mode
  PROVE  HoldInv'
<1>1. Readers' = Readers BY DEF Readers
<1> QED BY <1>1 DEF HoldInv, SameLock

(* There are finitely many readers to count.                                  *)
LEMMA FiniteReaders == IsFiniteSet(Readers)
<1>1. Readers \subseteq Threads BY DEF Readers
<1> QED BY <1>1, RwLockAssumption, FS_Subset

(* A change of the fields that count holders moves no record.                 *)
LEMMA HeldFields ==
  ASSUME NEW t, NEW x \in Held(t), NEW y \in State,
         y.rq = x.rq, y.wq = x.wq, y.queue = x.queue, y.woken = x.woken
  PROVE  y \in Held(t) /\ (Coming(x, t) => Coming(y, t))
<1>1. Sent(y) = Sent(x) BY DEF Sent
<1>2. Placed(y, Sleeping) BY <1>1 DEF Held, Placed
<1>3. Served(y, t) /\ Writing(y) BY DEF Held, Served, Writing
<1>4. Coming(x, t) => Coming(y, t) BY DEF Coming, Comes
<1> QED BY <1>2, <1>3, <1>4 DEF Held

(* A thread returns with the lock in state x.                                 *)
LEMMA Granted ==
  ASSUME IInv, NEW t \in Threads, pc[t] = "enter", NEW x \in Held(t), Awaited(x, t),
         Release(x), Return(t), mode' \in Modes, \A u \in Threads \ {t} : mode'[u] = mode[u],
         ops' = ops, wakes' = wakes
  PROVE  SameLock(x, s') /\ (HoldInv' => IInv')
<1>1. /\ pc \in [Threads -> Labels] /\ op \in [Threads -> Takes \cup Releases \cup {"none"}]
      /\ ops \in 0..MaxOps /\ wakes \in 0..MaxSpurious /\ OpInv
  BY TypeParts DEF IInv
<1>2. Goto(t, "idle") /\ op' = [op EXCEPT ![t] = "none"] BY DEF Return, Become
<1>3. /\ s' \in State /\ owner' \in Threads \cup {None} /\ SameLock(x, s')
      /\ pc' \in [Threads -> Labels] /\ op' \in [Threads -> Takes \cup Releases \cup {"none"}]
      /\ pc'[t] = "idle" /\ op'[t] = "none" /\ \A u \in Threads \ {t} : pc'[u] = pc[u] /\ op'[u] = op[u]
      /\ PlaceInv' /\ MutexInv' /\ WaitInv'
  BY <1>1, <1>2, Returned
<1>4. OpInv' BY <1>1, <1>3, Returning, OpKept
<1>5. TypeOK' BY <1>1, <1>3, Typed
<1> QED BY <1>3, <1>4, <1>5 DEF IInv

(* A thread returns without the lock: a try that failed.                      *)
LEMMA Refused ==
  ASSUME IInv, NEW t \in Threads, owner = t, pc[t] = "enter", op[t] # "wlock",
         Release(s), Return(t), mode' = mode, ops' = ops, wakes' = wakes
  PROVE  IInv'
<1>1. mode \in Modes /\ HoldInv BY TypeParts DEF IInv
<1>2. s \in Held(t) /\ Awaited(s, t) BY Actor
<1>3. SameLock(s, s') /\ (HoldInv' => IInv') BY <1>1, <1>2, Granted
<1> QED BY <1>1, <1>3, HoldSame

(* rlock and try_rlock, and the reader that looks at the lock again.          *)
LEMMA EnterReadKeeps ==
  ASSUME IInv, NEW t \in Threads, EnterRead(t)
  PROVE  IInv'
<1>0. /\ owner = t /\ pc[t] = "enter" /\ op[t] \in {"rlock", "try_rlock"} /\ ops' = ops /\ wakes' = wakes
  BY DEF EnterRead, In
<1>1. /\ s \in State /\ pc \in [Threads -> Labels] /\ op \in [Threads -> Takes \cup Releases \cup {"none"}]
      /\ mode \in Modes /\ ops \in 0..MaxOps /\ wakes \in 0..MaxSpurious /\ HoldInv /\ OpInv
  BY TypeParts DEF IInv
<1>2. s \in Held(t) /\ t \notin Sleeping /\ Legal(t, op[t]) /\ Awaited(s, t) BY <1>0, Actor
<1>3. mode[t].read = 0 /\ mode[t].write = 0
  <2>1. Holds(t) = 0 BY <1>0, <1>2 DEF Legal
  <2>2. mode[t].read \in 0..1 /\ mode[t].write \in 0..MaxDepth /\ MaxDepth \in Nat BY <1>1, RwLockAssumption DEF Modes
  <2> QED BY <2>1, <2>2 DEF Holds
<1>4. CASE ReadLockable(s) /\ Release([s EXCEPT !.readers = @ + 1]) /\ Return(t) /\ mode' = [mode EXCEPT ![t].read = 1]
  <2> DEFINE x == [s EXCEPT !.readers = s.readers + 1]
  <2>1. /\ x \in State /\ x.rq = s.rq /\ x.wq = s.wq /\ x.queue = s.queue /\ x.woken = s.woken
        /\ x.wowner = s.wowner /\ x.wrecurse = s.wrecurse /\ x.readers = s.readers + 1
    <3>1. s.readers + 1 \in Nat BY <1>1 DEF State
    <3>2. x \in State BY <1>1, <3>1 DEF State
    <3> QED BY <3>2, <1>1 DEF State
  <2>2. Release(x) BY <1>4
  <2> HIDE DEF x
  <2>3. x \in Held(t) /\ (Coming(s, t) => Coming(x, t)) BY <1>2, <2>1, HeldFields
  <2>4. Awaited(x, t) BY <1>2, <1>4, <2>1, <2>3 DEF Awaited, ReadLockable
  <2>5. /\ mode' \in Modes /\ mode'[t].read = 1 /\ mode'[t].write = mode[t].write
        /\ \A u \in Threads \ {t} : mode'[u] = mode[u]
    BY <1>1, <1>4 DEF Modes
  <2>6. SameLock(x, s') /\ (HoldInv' => IInv') BY <1>0, <1>4, <2>2, <2>3, <2>4, <2>5, Granted
  <2>7. HoldInv'
    <3>1. t \notin Readers /\ Readers' = Readers \cup {t} BY <1>3, <2>5 DEF Readers
    <3>2. Cardinality(Readers') = Cardinality(Readers) + 1 BY <3>1, FiniteReaders, FS_AddElement
    <3>3. s'.readers = Cardinality(Readers') /\ s'.wowner = s.wowner /\ s'.wrecurse = s.wrecurse /\ s.wowner = None
      BY <1>1, <1>4, <2>1, <2>6, <3>2 DEF HoldInv, SameLock, ReadLockable
    <3>4. \A u \in Threads : mode'[u].write = mode[u].write BY <2>5
    <3> QED BY <1>1, <3>3, <3>4 DEF HoldInv
  <2> QED BY <2>6, <2>7
<1>5. CASE ~ReadLockable(s) /\ op[t] = "try_rlock" /\ Release(s) /\ Return(t) /\ mode' = mode
  BY <1>0, <1>5, Refused
<1>6. CASE ~ReadLockable(s) /\ op[t] = "rlock" /\ Release([s EXCEPT !.rq = Append(@, t)]) /\ Goto(t, "asleep") /\ op' = op /\ mode' = mode
  <2> DEFINE q == Append(s.rq, t)
             x == [s EXCEPT !.rq = q]
  <2>a. s.rq \in Seq(Threads) /\ IsInjective(s.rq) /\ t \notin ToSet(s.rq) /\ t \notin s.woken /\ t \notin Sent(s) /\ t \notin ToSet(s.wq)
    BY <1>1, <1>2 DEF State, Queue, Held, Placed
  <2>b. q \in Seq(Threads) /\ IsInjective(q) /\ ToSet(q) = ToSet(s.rq) \cup {t}
    BY <2>a, AppendProperties, SetOfAppend, InjectiveAppend
  <2>2. Release(x) BY <1>6
  <2> HIDE DEF q
  <2>1. /\ x \in State /\ x.rq = q /\ x.wq = s.wq /\ x.queue = s.queue /\ x.woken = s.woken
        /\ x.wowner = s.wowner /\ x.wrecurse = s.wrecurse /\ x.readers = s.readers
    <3>2. x \in State BY <1>1, <2>b DEF State, Queue
    <3> QED BY <3>2, <1>1 DEF State
  <2> HIDE DEF x
  <2>3. Sent(x) = Sent(s) BY <2>1 DEF Sent
  <2>c. /\ Placed(s, Sleeping) /\ Served(s, t) /\ Writing(s) BY <1>2 DEF Held
  <2>4. Placed(x, Sleeping \cup {t})
    BY <2>a, <2>b, <2>1, <2>3, <2>c DEF Placed
  <2>5. Served(x, t) /\ Writing(x) BY <2>1, <2>c DEF Served, Writing
  <2>6. Coming(s, t) => Coming(x, t) BY <2>b, <2>1 DEF Coming, Comes
  <2>7. Awaited(x, t) BY <1>2, <1>6, <2>1, <2>6 DEF Awaited, ReadLockable
  <2>8. /\ s' \in State /\ owner' \in Threads \cup {None} /\ SameLock(x, s')
        /\ pc' \in [Threads -> Labels]
        /\ pc'[t] = "asleep" /\ \A u \in Threads \ {t} : pc'[u] = pc[u]
        /\ PlaceInv' /\ MutexInv' /\ WaitInv'
    BY <1>0, <1>1, <1>6, <2>a, <2>1, <2>2, <2>4, <2>5, <2>7, Slept
  <2>9. OpOK(t)' BY <1>0, <1>2, <1>6, <2>8 DEF OpOK, Legal, Holds
  <2>10. OpInv' BY <1>1, <1>6, <2>8, <2>9, OpKept
  <2>11. HoldInv'
    <3>1. SameLock(s, s') BY <2>1, <2>8 DEF SameLock
    <3> QED BY <1>1, <1>6, <3>1, HoldSame
  <2>12. TypeOK' BY <1>0, <1>1, <1>6, <2>8, Typed
  <2> QED BY <2>8, <2>10, <2>11, <2>12 DEF IInv
<1> QED BY <1>4, <1>5, <1>6 DEF EnterRead

(* wlock and try_wlock, and the writer that looks at the lock again.          *)
LEMMA EnterWriteKeeps ==
  ASSUME IInv, NEW t \in Threads, EnterWrite(t)
  PROVE  IInv'
<1>0. /\ owner = t /\ pc[t] = "enter" /\ op[t] \in {"wlock", "try_wlock"} /\ ops' = ops /\ wakes' = wakes
      /\ t # None
  BY RwLockAssumption DEF EnterWrite, In
<1>1. /\ s \in State /\ pc \in [Threads -> Labels] /\ op \in [Threads -> Takes \cup Releases \cup {"none"}]
      /\ mode \in Modes /\ ops \in 0..MaxOps /\ wakes \in 0..MaxSpurious /\ HoldInv /\ OpInv
  BY TypeParts DEF IInv
<1>2. s \in Held(t) /\ t \notin Sleeping /\ Legal(t, op[t]) BY <1>0, Actor
<1>3. mode[t].read = 0 /\ mode[t].write < MaxDepth BY <1>0, <1>2 DEF Legal
<1>4. CASE WriteLockable(s, t) /\ Release(TakeWrite(s, t)) /\ Return(t) /\ mode' = [mode EXCEPT ![t].write = @ + 1]
  <2> DEFINE d == IF s.wowner = t THEN s.wrecurse + 1 ELSE s.wrecurse
             x == [s EXCEPT !.wrecurse = d, !.wowner = t]
  <2>0. x = TakeWrite(s, t) BY DEF TakeWrite
  <2>2. Release(x) BY <1>4, <2>0
  <2>d. d \in Nat BY <1>1 DEF State
  <2> HIDE DEF d
  <2>1. /\ x \in State /\ x.rq = s.rq /\ x.wq = s.wq /\ x.queue = s.queue /\ x.woken = s.woken
        /\ x.wowner = t /\ x.wrecurse = d /\ x.readers = s.readers
    <3>2. x \in State BY <1>1, <2>d DEF State
    <3> QED BY <3>2, <1>1 DEF State
  <2> HIDE DEF x
  <2>3. x \in Held(t) BY <1>2, <2>1, HeldFields
  <2>4. Awaited(x, t) BY <1>0, <2>1 DEF Awaited
  <2>5. /\ mode' \in Modes /\ mode'[t].read = 0 /\ mode'[t].write = mode[t].write + 1
        /\ \A u \in Threads \ {t} : mode'[u] = mode[u]
    <3>1. mode[t].write + 1 \in 0..MaxDepth BY <1>1, <1>3, RwLockAssumption DEF Modes
    <3>2. mode' = [mode EXCEPT ![t] = [mode[t] EXCEPT !.write = mode[t].write + 1]] BY <1>4
    <3>3. mode[t] \in [read: 0..1, write: 0..MaxDepth] BY <1>1 DEF Modes
    <3> DEFINE m == [mode[t] EXCEPT !.write = mode[t].write + 1]
    <3>4. m \in [read: 0..1, write: 0..MaxDepth] /\ m.read = mode[t].read /\ m.write = mode[t].write + 1
      BY <3>1, <3>3
    <3> HIDE DEF m
    <3>5. mode' = [mode EXCEPT ![t] = m] BY <3>2 DEF m
    <3> QED BY <1>1, <1>3, <3>4, <3>5 DEF Modes
  <2>6. SameLock(x, s') /\ (HoldInv' => IInv') BY <1>0, <1>4, <2>2, <2>3, <2>4, <2>5, Granted
  <2>7. HoldInv'
    <3>0. s'.wowner = t /\ s'.wrecurse = d /\ s'.readers = s.readers BY <2>1, <2>6 DEF SameLock
    <3>1. Readers' = Readers BY <1>3, <2>5 DEF Readers
    <3>2. CASE s.wowner = t
      <4>1. mode'[t].write = d + 1 /\ d = s.wrecurse + 1 /\ Readers = {} BY <1>0, <1>1, <2>5, <3>2 DEF HoldInv, d
      <4>2. \A u \in Threads \ {t} : mode'[u].write = 0 BY <1>1, <2>5, <3>2 DEF HoldInv
      <4> QED BY <1>0, <1>1, <3>0, <3>1, <4>1, <4>2 DEF HoldInv
    <3>3. CASE s.wowner # t
      <4>0. s.wowner = None /\ s.readers = 0 BY <1>4, <3>3 DEF WriteLockable
      <4>1. d = 0 /\ mode'[t].write = d + 1 BY <1>0, <1>1, <2>5, <3>3, <4>0 DEF HoldInv, d
      <4>2. \A u \in Threads \ {t} : mode'[u].write = 0 BY <1>1, <2>5, <4>0, RwLockAssumption DEF HoldInv
      <4>3. Readers = {} BY <1>1, <4>0, FiniteReaders, FS_EmptySet DEF HoldInv
      <4> QED BY <1>0, <1>1, <3>0, <3>1, <4>1, <4>2, <4>3 DEF HoldInv
    <3> QED BY <3>2, <3>3
  <2> QED BY <2>6, <2>7
<1>5. CASE ~WriteLockable(s, t) /\ op[t] = "try_wlock" /\ Release(s) /\ Return(t) /\ mode' = mode
  BY <1>0, <1>5, Refused
<1>6. CASE ~WriteLockable(s, t) /\ op[t] = "wlock" /\ Release([s EXCEPT !.wq = Append(@, t)]) /\ Goto(t, "asleep") /\ op' = op /\ mode' = mode
  <2> DEFINE q == Append(s.wq, t)
             x == [s EXCEPT !.wq = q]
  <2>a. s.wq \in Seq(Threads) /\ IsInjective(s.wq) /\ t \notin ToSet(s.rq) /\ t \notin s.woken /\ t \notin Sent(s) /\ t \notin ToSet(s.wq)
    BY <1>1, <1>2 DEF State, Queue, Held, Placed
  <2>b. q \in Seq(Threads) /\ IsInjective(q) /\ ToSet(q) = ToSet(s.wq) \cup {t}
    BY <2>a, AppendProperties, SetOfAppend, InjectiveAppend
  <2>2. Release(x) BY <1>6
  <2> HIDE DEF q
  <2>1. /\ x \in State /\ x.rq = s.rq /\ x.wq = q /\ x.queue = s.queue /\ x.woken = s.woken
        /\ x.wowner = s.wowner /\ x.wrecurse = s.wrecurse /\ x.readers = s.readers
    <3>2. x \in State BY <1>1, <2>b DEF State, Queue
    <3> QED BY <3>2, <1>1 DEF State
  <2> HIDE DEF x
  <2>3. Sent(x) = Sent(s) BY <2>1 DEF Sent
  <2>c. /\ Placed(s, Sleeping) /\ Served(s, t) /\ Writing(s) BY <1>2 DEF Held
  <2>4. Placed(x, Sleeping \cup {t})
    BY <2>a, <2>b, <2>1, <2>3, <2>c DEF Placed
  <2>5. Served(x, t) /\ Writing(x) BY <1>6, <2>b, <2>1, <2>c DEF Served, Writing
  <2>7. Awaited(x, t)
    <3>1. x.wowner # None \/ x.readers > 0
      <4>1. s.readers \in Nat /\ (s.readers # 0 \/ s.wowner # None) BY <1>1, <1>6 DEF WriteLockable, State
      <4> QED BY <2>1, <4>1
    <3>2. x.wq # <<>>
      <4>1. t \in ToSet(q) BY <2>b
      <4>2. ToSet(<<>>) = {} BY DEF ToSet
      <4> QED BY <2>1, <4>1, <4>2
    <3> QED BY <3>1, <3>2 DEF Awaited
  <2>8. /\ s' \in State /\ owner' \in Threads \cup {None} /\ SameLock(x, s')
        /\ pc' \in [Threads -> Labels]
        /\ pc'[t] = "asleep" /\ \A u \in Threads \ {t} : pc'[u] = pc[u]
        /\ PlaceInv' /\ MutexInv' /\ WaitInv'
    BY <1>0, <1>1, <1>6, <2>a, <2>1, <2>2, <2>4, <2>5, <2>7, Slept
  <2>9. OpOK(t)' BY <1>0, <1>2, <1>6, <2>8 DEF OpOK, Legal, Holds
  <2>10. OpInv' BY <1>1, <1>6, <2>8, <2>9, OpKept
  <2>11. HoldInv'
    <3>1. SameLock(s, s') BY <2>1, <2>8 DEF SameLock
    <3> QED BY <1>1, <1>6, <3>1, HoldSame
  <2>12. TypeOK' BY <1>0, <1>1, <1>6, <2>8, Typed
  <2> QED BY <2>8, <2>10, <2>11, <2>12 DEF IInv
<1> QED BY <1>4, <1>5, <1>6 DEF EnterWrite

(* try_upgrade: the only reader becomes the writer.                           *)
LEMMA EnterUpgradeKeeps ==
  ASSUME IInv, NEW t \in Threads, EnterUpgrade(t)
  PROVE  IInv'
<1>0. /\ owner = t /\ pc[t] = "enter" /\ op[t] = "try_upgrade" /\ ops' = ops /\ wakes' = wakes
      /\ t # None /\ Return(t)
  BY RwLockAssumption DEF EnterUpgrade, In
<1>1. s \in State /\ mode \in Modes /\ HoldInv BY TypeParts DEF IInv
<1>2. s \in Held(t) /\ Legal(t, op[t]) BY <1>0, Actor
<1>3. t \in Readers BY <1>0, <1>2 DEF Legal, Readers
<1>4. CASE s.readers = 1 /\ s.wq = <<>>
  <2> DEFINE x == [s EXCEPT !.readers = 0, !.wowner = t]
  <2>1. /\ x \in State /\ x.rq = s.rq /\ x.wq = s.wq /\ x.queue = s.queue /\ x.woken = s.woken
        /\ x.wowner = t /\ x.wrecurse = s.wrecurse /\ x.readers = 0
    <3>2. x \in State BY <1>1 DEF State
    <3> QED BY <3>2, <1>1 DEF State
  <2>2. Release(x) /\ mode' = [mode EXCEPT ![t] = [read |-> 0, write |-> 1]] BY <1>4 DEF EnterUpgrade
  <2> HIDE DEF x
  <2>3. x \in Held(t) BY <1>2, <2>1, HeldFields
  <2>4. Awaited(x, t) BY <1>0, <2>1 DEF Awaited
  <2>5. /\ mode' \in Modes /\ mode'[t].read = 0 /\ mode'[t].write = 1
        /\ \A u \in Threads \ {t} : mode'[u] = mode[u]
    BY <1>1, <2>2, RwLockAssumption DEF Modes
  <2>6. SameLock(x, s') /\ (HoldInv' => IInv') BY <1>0, <2>2, <2>3, <2>4, <2>5, Granted
  <2>7. HoldInv'
    <3>0. s'.wowner = t /\ s'.wrecurse = s.wrecurse /\ s'.readers = 0 BY <2>1, <2>6 DEF SameLock
    <3>1. s.wowner = None /\ s.wrecurse = 0 BY <1>1, <1>3 DEF HoldInv
    <3>2. Readers = {t}
      <4>1. Cardinality(Readers) = 1 BY <1>1, <1>4 DEF HoldInv
      <4>2. PICK v : Readers = {v} BY <4>1, FiniteReaders, FS_Singleton
      <4> QED BY <1>3, <4>2
    <3>3. Readers' = {} BY <2>5, <3>2 DEF Readers
    <3>4. Cardinality(Readers') = 0 BY <3>3, FS_EmptySet
    <3>5. \A u \in Threads \ {t} : mode'[u].write = 0 BY <1>1, <2>5, <3>1, RwLockAssumption DEF HoldInv
    <3> QED BY <1>0, <2>5, <3>0, <3>1, <3>3, <3>4, <3>5 DEF HoldInv
  <2> QED BY <2>6, <2>7
<1>5. CASE ~(s.readers = 1 /\ s.wq = <<>>)
  <2>1. Release(s) /\ mode' = mode BY <1>5 DEF EnterUpgrade
  <2> QED BY <1>0, <2>1, Refused
<1> QED BY <1>4, <1>5

(* runlock.                                                                   *)
LEMMA EnterRunlockKeeps ==
  ASSUME IInv, NEW t \in Threads, EnterRunlock(t)
  PROVE  IInv'
<1>0. /\ owner = t /\ pc[t] = "enter" /\ op[t] = "runlock" /\ ops' = ops /\ wakes' = wakes
      /\ Return(t) /\ Release(Runlock(s)) /\ mode' = [mode EXCEPT ![t].read = 0]
  BY DEF EnterRunlock, In
<1>1. s \in State /\ mode \in Modes /\ HoldInv BY TypeParts DEF IInv
<1>2. s \in Held(t) /\ Legal(t, op[t]) /\ Awaited(s, t) /\ t \in Threads \ Sleeping BY <1>0, Actor
<1>3. t \in Readers BY <1>0, <1>2 DEF Legal, Readers
<1> DEFINE x == Runlock(s)
<1>4. /\ Readers' = Readers \ {t} /\ Cardinality(Readers') = Cardinality(Readers) - 1 /\ Cardinality(Readers) \in Nat
      /\ mode' \in Modes /\ \A u \in Threads : mode'[u].write = mode[u].write
      /\ \A u \in Threads \ {t} : mode'[u] = mode[u]
  <2>1. /\ mode' \in Modes /\ mode'[t].read = 0 /\ mode'[t].write = mode[t].write
        /\ \A u \in Threads \ {t} : mode'[u] = mode[u]
    BY <1>0, <1>1 DEF Modes
  <2>2. Readers' = Readers \ {t} BY <2>1 DEF Readers
  <2>3. Cardinality(Readers \ {t}) = Cardinality(Readers) - 1 BY <1>3, FiniteReaders, FS_RemoveElement
  <2>4. Cardinality(Readers) \in Nat BY FiniteReaders, FS_CardinalityType
  <2> QED BY <2>1, <2>2, <2>3, <2>4
<1>5. s.readers > 0
  <2>1. Cardinality(Readers) # 0 BY <1>3, FiniteReaders, FS_EmptySet
  <2> QED BY <1>1, <1>4, <2>1 DEF HoldInv
<1>6. /\ x \in Held(t) /\ Awaited(x, t)
      /\ x.readers = s.readers - 1 /\ x.wrecurse = s.wrecurse /\ x.wowner = s.wowner
  BY <1>2, <1>5, RunlockKeeps
<1> HIDE DEF x
<1>7. Release(x) BY <1>0 DEF x
<1>8. SameLock(x, s') /\ (HoldInv' => IInv') BY <1>0, <1>4, <1>6, <1>7, Granted
<1>9. s'.readers = s.readers - 1 /\ s'.wrecurse = s.wrecurse /\ s'.wowner = s.wowner BY <1>6, <1>8 DEF SameLock
<1>10. HoldInv' BY <1>1, <1>4, <1>9 DEF HoldInv
<1> QED BY <1>8, <1>10

(* wunlock, of a recursive writer too.                                        *)
LEMMA EnterWunlockKeeps ==
  ASSUME IInv, NEW t \in Threads, EnterWunlock(t)
  PROVE  IInv'
<1>0. /\ owner = t /\ pc[t] = "enter" /\ op[t] = "wunlock" /\ ops' = ops /\ wakes' = wakes /\ t # None
      /\ Return(t) /\ Release(Wunlock(s)) /\ mode' = [mode EXCEPT ![t].write = @ - 1]
  BY RwLockAssumption DEF EnterWunlock, In
<1>1. s \in State /\ mode \in Modes /\ HoldInv BY TypeParts DEF IInv
<1>2. s \in Held(t) /\ Legal(t, op[t]) /\ t \in Threads \ Sleeping BY <1>0, Actor
<1>3. /\ mode[t].write > 0 /\ s.wowner = t /\ mode[t].write = s.wrecurse + 1 /\ s.wrecurse \in Nat /\ Readers = {}
      /\ \A u \in Threads \ {t} : mode[u].write = 0
  <2>1. mode[t].write > 0 BY <1>0, <1>2 DEF Legal
  <2>2. s.wowner = t BY <1>1, <2>1 DEF HoldInv
  <2> QED BY <1>0, <1>1, <2>1, <2>2 DEF HoldInv, State
<1> DEFINE x == Wunlock(s)
<1>4. /\ mode' \in Modes /\ mode'[t].read = mode[t].read /\ mode'[t].write = mode[t].write - 1
      /\ \A u \in Threads \ {t} : mode'[u] = mode[u]
  <2>1. mode[t].write - 1 \in 0..MaxDepth BY <1>1, <1>3, RwLockAssumption DEF Modes
  <2>3. mode[t] \in [read: 0..1, write: 0..MaxDepth] BY <1>1 DEF Modes
  <2> DEFINE m == [mode[t] EXCEPT !.write = mode[t].write - 1]
  <2>4. m \in [read: 0..1, write: 0..MaxDepth] /\ m.read = mode[t].read /\ m.write = mode[t].write - 1
    BY <2>1, <2>3
  <2>5. mode' = [mode EXCEPT ![t] = m] BY <1>0
  <2> HIDE DEF m
  <2> QED BY <1>1, <2>4, <2>5 DEF Modes
<1>5. /\ x \in Held(t) /\ Calm(x, t) /\ x.readers = s.readers
      /\ s.wrecurse > 0 => x.wrecurse = s.wrecurse - 1 /\ x.wowner = s.wowner
      /\ s.wrecurse = 0 => x.wrecurse = 0 /\ x.wowner = None
  BY <1>2, WunlockKeeps DEF Held
<1> HIDE DEF x
<1>6. Awaited(x, t) BY <1>5 DEF Awaited, Calm
<1>7. Release(x) BY <1>0 DEF x
<1>8. SameLock(x, s') /\ (HoldInv' => IInv') BY <1>0, <1>4, <1>5, <1>6, <1>7, Granted
<1>9. Readers' = Readers BY <1>4 DEF Readers
<1>10. CASE s.wrecurse > 0
  <2>1. s'.readers = s.readers /\ s'.wrecurse = s.wrecurse - 1 /\ s'.wowner = t BY <1>3, <1>5, <1>8, <1>10 DEF SameLock
  <2>2. ASSUME NEW u \in Threads PROVE mode'[u].write = IF s'.wowner = u THEN s'.wrecurse + 1 ELSE 0
    <3>1. CASE u = t
      <4>1. mode'[t].write = s'.wrecurse + 1 BY <1>3, <1>4, <2>1
      <4> QED BY <2>1, <3>1, <4>1
    <3>2. CASE u # t BY <1>3, <1>4, <2>1, <3>2
    <3> QED BY <3>1, <3>2
  <2>3. HoldInv' BY <1>0, <1>1, <1>3, <1>9, <2>1, <2>2 DEF HoldInv
  <2> QED BY <1>8, <2>3
<1>11. CASE s.wrecurse = 0
  <2>1. s'.readers = s.readers /\ s'.wrecurse = 0 /\ s'.wowner = None BY <1>3, <1>5, <1>8, <1>11 DEF SameLock
  <2>2. HoldInv' BY <1>0, <1>1, <1>3, <1>4, <1>9, <1>11, <2>1, RwLockAssumption DEF HoldInv
  <2> QED BY <1>8, <2>2
<1> QED BY <1>3, <1>10, <1>11

(* downgrade() up to its rlock().                                             *)
LEMMA EnterDowngradeKeeps ==
  ASSUME IInv, NEW t \in Threads, EnterDowngrade(t)
  PROVE  IInv'
<1>0. /\ owner = t /\ pc[t] = "enter" /\ op[t] = "downgrade" /\ ops' = ops /\ wakes' = wakes /\ t # None
      /\ Goto(t, "idle") /\ op' = op /\ Release(WunlockAll(s)) /\ mode' = [mode EXCEPT ![t].write = 0]
  BY RwLockAssumption DEF EnterDowngrade, In
<1>1. /\ s \in State /\ pc \in [Threads -> Labels] /\ op \in [Threads -> Takes \cup Releases \cup {"none"}]
      /\ mode \in Modes /\ ops \in 0..MaxOps /\ wakes \in 0..MaxSpurious /\ HoldInv /\ OpInv
  BY TypeParts DEF IInv
<1>2. s \in Held(t) /\ Legal(t, op[t]) /\ t \in Threads \ Sleeping BY <1>0, Actor
<1>3. /\ s.wowner = t /\ Readers = {} /\ \A u \in Threads \ {t} : mode[u].write = 0
  <2>0. "downgrade" \notin {"rlock", "try_rlock"} /\ "downgrade" \notin {"wlock", "try_wlock"}
        /\ "downgrade" \notin {"runlock", "try_upgrade"}
    OBVIOUS
  <2>1. mode[t].write > 0 BY <1>0, <1>2, <2>0 DEF Legal
  <2>2. s.wowner = t BY <1>1, <2>1 DEF HoldInv
  <2> QED BY <1>0, <1>1, <2>2 DEF HoldInv
<1> DEFINE x == WunlockAll(s)
<1>4. /\ mode' \in Modes /\ mode'[t].read = mode[t].read /\ mode'[t].write = 0
      /\ \A u \in Threads \ {t} : mode'[u] = mode[u]
  BY <1>0, <1>1, RwLockAssumption DEF Modes
<1>5. /\ x \in Held(t) /\ Calm(x, t) /\ x.readers = s.readers /\ x.wrecurse = 0 /\ x.wowner = None
  BY <1>2, WunlockAllKeeps
<1> HIDE DEF x
<1>6. Awaited(x, t) BY <1>5 DEF Awaited, Calm
<1>7. Release(x) /\ op' = [op EXCEPT ![t] = "downgrade"]
  <2>1. [op EXCEPT ![t] = "downgrade"] = op BY <1>0, <1>1
  <2> QED BY <1>0, <2>1 DEF x
<1>8. /\ s' \in State /\ owner' \in Threads \cup {None} /\ SameLock(x, s')
      /\ pc' \in [Threads -> Labels] /\ op' \in [Threads -> Takes \cup Releases \cup {"none"}]
      /\ pc'[t] = "idle" /\ op'[t] = "downgrade" /\ \A u \in Threads \ {t} : pc'[u] = pc[u] /\ op'[u] = op[u]
      /\ PlaceInv' /\ MutexInv' /\ WaitInv'
  BY <1>0, <1>1, <1>5, <1>6, <1>7, Returned
<1>9. mode'[t].read = 0
  <2>1. mode[t].read \in 0..1 /\ t \notin Readers BY <1>1, <1>3 DEF Modes
  <2> QED BY <1>4, <2>1 DEF Readers
<1>10. OpOK(t)' BY <1>4, <1>8, <1>9 DEF OpOK, Holds, Sleeping
<1>11. OpInv' BY <1>1, <1>4, <1>8, <1>10, OpKept
<1>12. HoldInv'
  <2>1. Readers' = Readers BY <1>4 DEF Readers
  <2>2. s'.readers = s.readers /\ s'.wrecurse = 0 /\ s'.wowner = None BY <1>5, <1>8 DEF SameLock
  <2> QED BY <1>1, <1>3, <1>4, <2>1, <2>2, RwLockAssumption DEF HoldInv
<1>13. TypeOK' BY <1>0, <1>1, <1>4, <1>8, Typed
<1> QED BY <1>8, <1>11, <1>12, <1>13 DEF IInv

(* A thread starts a call, or is woken early, and asks for the mutex.         *)
LEMMA AskKeeps ==
  ASSUME IInv, NEW t \in Threads, NEW l \in {"enter", "awake"}, Ask(t), Goto(t, l), mode' = mode,
         ops' \in 0..MaxOps, wakes' \in 0..MaxSpurious,
         op' \in [Threads -> Takes \cup Releases \cup {"none"}], \A u \in Threads \ {t} : op'[u] = op[u],
         \/ l = "enter" /\ pc[t] = "idle" /\ op'[t] # "none" /\ Legal(t, op'[t])
         \/ l = "awake" /\ pc[t] = "asleep" /\ op'[t] = op[t]
  PROVE  IInv'
<1>1. /\ s \in State /\ owner \in Threads \cup {None} /\ pc \in [Threads -> Labels] /\ mode \in Modes
      /\ HoldInv /\ OpInv /\ MutexInv /\ PlaceInv /\ WaitInv
  BY TypeParts DEF IInv
<1>2. /\ s' \in State /\ owner' \in Threads \cup {None} /\ Placed(s', Sleeping) /\ MutexInv'
      /\ SameLock(s, s') /\ s'.rq = s.rq /\ s'.wq = s.wq
  BY <1>1, Asked
<1>3. pc' \in [Threads -> Labels] /\ pc'[t] = l /\ \A u \in Threads \ {t} : pc'[u] = pc[u]
  BY <1>1 DEF Goto, Labels
<1>4. Sleeping' = Sleeping BY <1>3 DEF Sleeping
<1>5. PlaceInv' BY <1>2, <1>4 DEF PlaceInv
<1>6. HoldInv' BY <1>1, <1>2, HoldSame
<1>7. TypeOK' BY <1>1, <1>2, <1>3, Typed
<1>8. OpInv'
  <2>1. OpOK(t)'
    <3>1. CASE l = "enter" /\ pc[t] = "idle" /\ op'[t] # "none" /\ Legal(t, op'[t])
      <4>1. Legal(t, op[t])' BY <3>1 DEF Legal, Holds
      <4> QED BY <1>3, <3>1, <4>1 DEF OpOK, Sleeping
    <3>2. CASE l = "awake" /\ pc[t] = "asleep" /\ op'[t] = op[t]
      <4>1. OpOK(t) BY <1>1 DEF OpInv
      <4>2. t \in Sleeping BY <3>2 DEF Sleeping
      <4>3. op[t] # "none" /\ Legal(t, op[t]) /\ op[t] \in {"rlock", "wlock"} BY <3>2, <4>1, <4>2 DEF OpOK
      <4>4. Legal(t, op[t])' BY <3>2, <4>3 DEF Legal, Holds
      <4> QED BY <1>3, <3>2, <4>3, <4>4 DEF OpOK
    <3> QED BY <3>1, <3>2
  <2> QED BY <1>1, <1>3, <2>1, OpKept
<1>9. WaitInv'
  <2>1. ToSet(s.wq) \subseteq Sleeping BY <1>1 DEF PlaceInv, Placed
  <2>2. \A u \in Sleeping : op'[u] = op[u] BY DEF Sleeping
  <2>3. Writing(s)' BY <1>1, <1>2, <2>1, <2>2 DEF WaitInv, Writing
  <2>4. ASSUME Coming(s, None) PROVE Coming(s, None)'
    <3>1. PICK w \in Threads \ {None} : Comes(s, w) BY <2>4 DEF Coming
    <3>2. CASE w = t
      <4>1. w \in Sleeping BY <3>1, <3>2 DEF Comes
      <4>2. op'[w] = op[w] BY <2>2, <4>1
      <4>3. Comes(s, w)' BY <1>2, <1>4, <3>1, <3>2, <4>1, <4>2 DEF Comes
      <4> QED BY <4>3 DEF Coming
    <3>3. CASE w # t
      <4>1. Comes(s, w)' BY <1>2, <1>3, <1>4, <3>1, <3>3 DEF Comes
      <4> QED BY <4>1 DEF Coming
    <3> QED BY <3>2, <3>3
  <2>5. Awaited(s, None)' BY <1>1, <1>2, <2>4 DEF WaitInv, Awaited, SameLock
  <2> QED BY <2>3, <2>5 DEF WaitInv
<1> QED BY <1>2, <1>5, <1>6, <1>7, <1>8, <1>9 DEF IInv

(* A client makes a call.                                                     *)
LEMMA CallKeeps ==
  ASSUME IInv, NEW t \in Threads, NEW o \in Takes \cup Releases, Call(t, o)
  PROVE  IInv'
<1>1. op \in [Threads -> Takes \cup Releases \cup {"none"}] /\ ops \in 0..MaxOps /\ wakes \in 0..MaxSpurious
  BY TypeParts DEF IInv
<1>2. op' = [op EXCEPT ![t] = o] BY DEF Call, Become
<1>3. /\ op' \in [Threads -> Takes \cup Releases \cup {"none"}] /\ op'[t] = o /\ o # "none"
      /\ \A u \in Threads \ {t} : op'[u] = op[u]
  BY <1>1, <1>2 DEF Takes, Releases
<1>4. ops' \in 0..MaxOps /\ wakes' \in 0..MaxSpurious BY <1>1, RwLockAssumption DEF Call
<1>5. Ask(t) /\ Goto(t, "enter") /\ mode' = mode /\ pc[t] = "idle" /\ Legal(t, o) BY DEF Call
<1> QED BY <1>3, <1>4, <1>5, AskKeeps

(* The rlock() of downgrade().                                                *)
LEMMA DowngradeRlockKeeps ==
  ASSUME IInv, NEW t \in Threads, DowngradeRlock(t)
  PROVE  IInv'
<1>1. /\ op \in [Threads -> Takes \cup Releases \cup {"none"}] /\ ops \in 0..MaxOps /\ wakes \in 0..MaxSpurious
      /\ OpOK(t)
  BY TypeParts DEF IInv, OpInv
<1>2. op' = [op EXCEPT ![t] = "rlock"] BY DEF DowngradeRlock, Become
<1>3. /\ op' \in [Threads -> Takes \cup Releases \cup {"none"}] /\ op'[t] = "rlock"
      /\ \A u \in Threads \ {t} : op'[u] = op[u]
  BY <1>1, <1>2 DEF Takes
<1>4. ops' \in 0..MaxOps /\ wakes' \in 0..MaxSpurious BY <1>1 DEF DowngradeRlock
<1>5. Ask(t) /\ Goto(t, "enter") /\ mode' = mode /\ pc[t] = "idle" /\ op[t] = "downgrade" BY DEF DowngradeRlock
<1>6. Legal(t, "rlock") BY <1>1, <1>5 DEF OpOK, Legal
<1> QED BY <1>3, <1>4, <1>5, <1>6, AskKeeps

(* thread::wake() by anyone.                                                  *)
LEMMA WakeEarlyKeeps ==
  ASSUME IInv, NEW t \in Threads, WakeEarly(t)
  PROVE  IInv'
<1>1. op \in [Threads -> Takes \cup Releases \cup {"none"}] /\ ops \in 0..MaxOps /\ wakes \in 0..MaxSpurious
  BY TypeParts DEF IInv
<1>2. op' = op /\ ops' = ops /\ mode' = mode /\ Ask(t) /\ Goto(t, "awake") /\ pc[t] = "asleep" BY DEF WakeEarly
<1>3. wakes' \in 0..MaxSpurious BY <1>1, RwLockAssumption DEF WakeEarly
<1> QED BY <1>1, <1>2, <1>3, AskKeeps

(* wait() returns, or sleeps on.                                              *)
LEMMA ResumeKeeps ==
  ASSUME IInv, NEW t \in Threads, Resume(t)
  PROVE  IInv'
<1>0. owner = t /\ pc[t] \in {"asleep", "awake"} /\ op' = op /\ mode' = mode /\ ops' = ops /\ wakes' = wakes /\ t # None
  BY RwLockAssumption DEF Resume
<1>1. /\ s \in State /\ owner \in Threads \cup {None} /\ pc \in [Threads -> Labels] /\ mode \in Modes
      /\ op \in [Threads -> Takes \cup Releases \cup {"none"}] /\ ops \in 0..MaxOps /\ wakes \in 0..MaxSpurious
      /\ HoldInv /\ OpInv /\ MutexInv /\ PlaceInv /\ WaitInv
  BY TypeParts DEF IInv
<1>2. t \in Sleeping /\ op[t] \in {"rlock", "wlock"} /\ Legal(t, op[t]) BY <1>0, <1>1 DEF Sleeping, OpInv, OpOK
<1>3. CASE t \in s.woken
  <2> DEFINE v == s.woken \ {t}
             w == s.sent \ {t}
  <2>1. s' = [s EXCEPT !.woken = v, !.sent = w] /\ Goto(t, "enter") /\ owner' = owner BY <1>3 DEF Resume
  <2>2. v \in SUBSET Threads /\ w \in SUBSET Threads BY <1>1 DEF State
  <2> HIDE DEF v, w
  <2>3. /\ s' \in State /\ s'.rq = s.rq /\ s'.wq = s.wq /\ s'.queue = s.queue /\ s'.woken = v /\ SameLock(s, s')
    <3>1. s' \in State BY <1>1, <2>1, <2>2 DEF State
    <3> QED BY <1>1, <2>1, <3>1 DEF State, SameLock
  <2>4. pc' \in [Threads -> Labels] /\ pc'[t] = "enter" /\ \A u \in Threads \ {t} : pc'[u] = pc[u]
    BY <1>1, <2>1 DEF Goto, Labels
  <2>5. Sleeping' = Sleeping \ {t} BY <2>4 DEF Sleeping
  <2>6. PlaceInv'
    <3>1. Sent(s') = Sent(s) BY <2>3 DEF Sent
    <3>2. Placed(s, Sleeping) /\ v = s.woken \ {t} BY <1>1 DEF PlaceInv, v
    <3>3. Placed(s', Sleeping \ {t}) BY <1>3, <2>3, <3>1, <3>2 DEF Placed
    <3> QED BY <2>5, <3>3 DEF PlaceInv
  <2>7. MutexInv' BY <1>0, <1>1, <2>1, <2>3, <2>4 DEF MutexInv, Served, v
  <2>8. WaitInv'
    <3>1. Writing(s)' BY <1>0, <1>1, <2>3 DEF WaitInv, Writing
    <3>2. ASSUME Coming(s, None) PROVE Coming(s, None)'
      <4>1. PICK u \in Threads \ {None} : Comes(s, u) BY <3>2 DEF Coming
      <4>2. Comes(s, u)' BY <1>0, <2>3, <2>4, <2>5, <4>1 DEF Comes
      <4> QED BY <4>2 DEF Coming
    <3>3. Awaited(s, None)' BY <1>1, <2>3, <3>2 DEF WaitInv, Awaited, SameLock
    <3> QED BY <3>1, <3>3 DEF WaitInv
  <2>9. OpOK(t)'
    <3>1. Legal(t, op[t])' BY <1>0, <1>2 DEF Legal, Holds
    <3> QED BY <1>0, <1>2, <2>4, <3>1 DEF OpOK
  <2>10. OpInv' BY <1>0, <1>1, <2>4, <2>9, OpKept
  <2>11. HoldInv' BY <1>0, <1>1, <2>3, HoldSame
  <2>12. TypeOK' BY <1>0, <1>1, <2>1, <2>3, <2>4, Typed
  <2> QED BY <2>6, <2>7, <2>8, <2>10, <2>11, <2>12 DEF IInv
<1>4. CASE t \notin s.woken
  <2>1. Release(s) /\ Goto(t, "asleep") BY <1>4 DEF Resume
  <2>4. pc' \in [Threads -> Labels] /\ pc'[t] = "asleep" /\ \A u \in Threads \ {t} : pc'[u] = pc[u]
    BY <1>1, <2>1 DEF Goto, Labels
  <2>5. Sleeping' = Sleeping BY <1>0, <2>4 DEF Sleeping
  <2>6. ASSUME NEW u \in Threads
        PROVE  /\ pc'[u] \in {"enter", "awake"} => <<u, "lock">> \in ToSet(s.queue)
               /\ pc'[u] = "asleep" => u \notin s.woken
    BY <1>0, <1>1, <1>4, <2>4 DEF MutexInv, Served
  <2>7. /\ s' \in State /\ owner' \in Threads \cup {None} /\ Placed(s', Sleeping) /\ MutexInv'
        /\ SameLock(s, s') /\ s'.rq = s.rq /\ s'.wq = s.wq
    <3>1. Placed(s, Sleeping) BY <1>1 DEF PlaceInv
    <3> QED BY <1>1, <2>1, <2>6, <3>1, Released
  <2>8. PlaceInv' BY <2>5, <2>7 DEF PlaceInv
  <2>9. WaitInv'
    <3>1. Writing(s)' BY <1>0, <1>1, <2>7 DEF WaitInv, Writing
    <3>2. ASSUME Coming(s, None) PROVE Coming(s, None)'
      <4>1. PICK u \in Threads \ {None} : Comes(s, u) BY <3>2 DEF Coming
      <4>2. Comes(s, u)' BY <1>0, <2>4, <2>5, <2>7, <4>1 DEF Comes
      <4> QED BY <4>2 DEF Coming
    <3>3. Awaited(s, None)' BY <1>1, <2>7, <3>2 DEF WaitInv, Awaited, SameLock
    <3> QED BY <3>1, <3>3 DEF WaitInv
  <2>10. OpOK(t)'
    <3>1. Legal(t, op[t])' BY <1>0, <1>2 DEF Legal, Holds
    <3> QED BY <1>0, <1>2, <2>4, <3>1 DEF OpOK
  <2>11. OpInv' BY <1>0, <1>1, <2>4, <2>10, OpKept
  <2>12. HoldInv' BY <1>0, <1>1, <2>7, HoldSame
  <2>13. TypeOK' BY <1>0, <1>1, <2>4, <2>7, Typed
  <2> QED BY <2>7, <2>8, <2>9, <2>11, <2>12, <2>13 DEF IInv
<1> QED BY <1>3, <1>4
-----------------------------------------------------------------------------
(* The new rwlock.                                                            *)
LEMMA Starts == Init => IInv
<1> SUFFICES ASSUME Init PROVE IInv OBVIOUS
<1>1. <<>> \in Seq(Threads) /\ <<>> \in Seq(Threads \X {"lock", "cond"}) BY EmptySeq
<1>2. /\ s.readers = 0 /\ s.wowner = None /\ s.wrecurse = 0 /\ s.rq = <<>> /\ s.wq = <<>>
      /\ s.queue = <<>> /\ s.sent = {} /\ s.woken = {} /\ s \in State
  <2>1. s \in State BY <1>1 DEF Init, State, Queue
  <2> QED BY <2>1 DEF Init
<1>3. /\ \A t \in Threads : pc[t] = "idle" /\ op[t] = "none" /\ mode[t].read = 0 /\ mode[t].write = 0
      /\ owner = None
  BY DEF Init
<1>4. TypeOK
  <2>1. /\ pc \in [Threads -> Labels] /\ op \in [Threads -> Takes \cup Releases \cup {"none"}]
    BY DEF Init, Labels
  <2>2. mode \in Modes BY RwLockAssumption DEF Init, Modes
  <2>3. ops \in 0..MaxOps /\ wakes \in 0..MaxSpurious BY RwLockAssumption DEF Init
  <2> QED BY <1>2, <1>3, <2>1, <2>2, <2>3, TypeParts
<1>5. Sleeping = {} /\ Readers = {} BY <1>3 DEF Sleeping, Readers
<1>6. OpInv BY <1>3 DEF OpInv, OpOK, Sleeping
<1>7. HoldInv BY <1>2, <1>3, <1>5, RwLockAssumption, FS_EmptySet DEF HoldInv
<1>8. ToSet(<<>>) = {} /\ IsInjective(<<>>) /\ CondOnce(<<>>) BY DEF ToSet, IsInjective, CondOnce
<1>9. PlaceInv
  <2>1. Sent(s) = {} BY <1>2, <1>8 DEF Sent
  <2> QED BY <1>2, <1>5, <1>8, <2>1 DEF PlaceInv, Placed
<1>10. MutexInv BY <1>2, <1>3 DEF MutexInv, Served
<1>11. WaitInv BY <1>2, <1>8 DEF WaitInv, Writing, Awaited
<1> QED BY <1>4, <1>6, <1>7, <1>9, <1>10, <1>11 DEF IInv

(* A step of others.                                                          *)
LEMMA Stutters == IInv /\ UNCHANGED vars => IInv'
<1> SUFFICES ASSUME IInv, UNCHANGED vars PROVE IInv' OBVIOUS
<1>1. owner' = owner /\ s' = s /\ pc' = pc /\ op' = op /\ mode' = mode /\ ops' = ops /\ wakes' = wakes
  BY DEF vars
<1>2. TypeOK' BY <1>1 DEF IInv, TypeOK
<1>3. OpInv' BY <1>1 DEF IInv, OpInv, OpOK, Legal, Holds, Sleeping
<1>4. HoldInv' BY <1>1 DEF IInv, HoldInv, Readers
<1>5. PlaceInv' /\ MutexInv' BY <1>1 DEF IInv, PlaceInv, MutexInv, Served, Sleeping
<1>6. WaitInv' BY <1>1 DEF IInv, WaitInv, Writing, Awaited, Coming, Comes, Sleeping
<1> QED BY <1>2, <1>3, <1>4, <1>5, <1>6 DEF IInv

(* Every step keeps the invariant.                                            *)
LEMMA Inductive == IInv /\ [Next]_vars => IInv'
<1> SUFFICES ASSUME IInv, [Next]_vars PROVE IInv' OBVIOUS
<1>1. ASSUME NEW t \in Threads, Step(t) PROVE IInv'
  BY <1>1, EnterReadKeeps, EnterWriteKeeps, EnterUpgradeKeeps, EnterRunlockKeeps, EnterWunlockKeeps,
     EnterDowngradeKeeps, DowngradeRlockKeeps, ResumeKeeps DEF Step
<1>2. ASSUME NEW t \in Threads, WakeEarly(t) PROVE IInv' BY <1>2, WakeEarlyKeeps
<1>3. ASSUME NEW t \in Threads, NEW o \in Takes \cup Releases, Call(t, o) PROVE IInv' BY <1>3, CallKeeps
<1>4. CASE UNCHANGED vars BY <1>4, Stutters
<1> QED BY <1>1, <1>2, <1>3, <1>4 DEF Next

(* The invariant holds in every state.                                        *)
LEMMA Always == Spec => []IInv
BY Starts, Inductive, PTL DEF Spec

(* The fields of rwlock, of its waitqueues and of its mutex keep their types: *)
(* no count goes below zero.                                                  *)
THEOREM TypeCorrect == Spec => []TypeOK
<1>1. IInv => TypeOK BY DEF IInv
<1> QED BY <1>1, Always, PTL

(* rwlock.cc: a writer is alone, and _readers, _wowner and _wrecurse count    *)
(* the holders, whatever threads use the lock and however deep a writer has   *)
(* taken it. The assertions of runlock, wunlock and try_upgrade rest on it.   *)
THEOREM Exclusion == Spec => []ReadersWriters
<1>1. ASSUME IInv PROVE ReadersWriters
  <2>0. HoldInv /\ mode \in Modes /\ s \in State BY <1>1, TypeParts DEF IInv
  <2>1. \A t \in Threads : mode[t].write > 0 <=> s.wowner = t BY <2>0 DEF HoldInv, State
  <2>2. CASE s.wowner = None
    <3>1. Writers = {} BY <2>1, <2>2, RwLockAssumption DEF Writers
    <3>2. Cardinality(Writers) = 0 BY <3>1, FS_EmptySet
    <3> QED BY <2>0, <2>2, <3>1, <3>2 DEF HoldInv, ReadersWriters
  <2>3. CASE s.wowner # None
    <3>1. s.wowner \in Threads BY <2>0, <2>3 DEF State
    <3>2. Writers = {s.wowner} BY <2>1, <3>1 DEF Writers
    <3>3. Cardinality(Writers) = 1 BY <3>2, FS_Singleton
    <3>4. mode[s.wowner].write = s.wrecurse + 1 BY <2>0, <3>1 DEF HoldInv
    <3> QED BY <2>0, <2>3, <3>2, <3>3, <3>4 DEF HoldInv, ReadersWriters
  <2> QED BY <2>2, <2>3
<1> QED BY <1>1, Always, PTL

(* waitqueue.cc: the wait record on the stack of a sleeper is in one place,   *)
(* and in none once the sleeper is awake for good.                            *)
THEOREM RecordsPlaced == Spec => []NoDangling
<1>1. ASSUME IInv, NEW t \in Threads
      PROVE  LET places == <<Contains(s.rq, t), Contains(s.wq, t),
                             Contains(s.queue, <<t, "cond">>), t \in s.woken>> IN
             Cardinality({i \in 1..4 : places[i]}) = IF pc[t] \in {"asleep", "awake"} THEN 1 ELSE 0
  <2> DEFINE A == Contains(s.rq, t)
             B == Contains(s.wq, t)
             C == Contains(s.queue, <<t, "cond">>)
             W == t \in s.woken
             P == {i \in 1..4 : <<A, B, C, W>>[i]}
  <2>0. s \in State /\ Placed(s, Sleeping) BY <1>1, TypeParts DEF IInv, PlaceInv
  <2>1. A <=> t \in ToSet(s.rq) BY DEF Contains, ToSet
  <2>2. B <=> t \in ToSet(s.wq) BY DEF Contains, ToSet
  <2>3. C <=> t \in Sent(s)
    <3> DEFINE r == <<t, "cond">>
    <3>1. t \in Sent(s) <=> r \in ToSet(s.queue) BY DEF Sent
    <3>2. C <=> Contains(s.queue, r) OBVIOUS
    <3> HIDE DEF r, C
    <3>3. Contains(s.queue, r) <=> r \in ToSet(s.queue) BY DEF Contains, ToSet
    <3> QED BY <3>1, <3>2, <3>3
  <2>4. A \in BOOLEAN /\ B \in BOOLEAN /\ C \in BOOLEAN /\ W \in BOOLEAN BY DEF Contains
  <2>5. /\ ~(A /\ B) /\ ~(A /\ C) /\ ~(A /\ W) /\ ~(B /\ C) /\ ~(B /\ W) /\ ~(C /\ W)
        /\ (A \/ B \/ C \/ W) <=> t \in Sleeping
    BY <2>0, <2>1, <2>2, <2>3 DEF Placed
  <2> HIDE DEF A, B, C, W
  <2>6. \A i : i \in P <=> (i = 1 /\ A) \/ (i = 2 /\ B) \/ (i = 3 /\ C) \/ (i = 4 /\ W)
    <3>1. 1..4 = {1, 2, 3, 4} OBVIOUS
    <3> QED BY <2>4, <3>1
  <2> HIDE DEF P
  <2>7. CASE t \in Sleeping
    <3>1. \E i \in 1..4 : P = {i} BY <2>5, <2>6, <2>7
    <3>2. Cardinality(P) = 1 BY <3>1, FS_Singleton
    <3> QED BY <2>7, <3>2 DEF Sleeping, P, A, B, C, W
  <2>8. CASE t \notin Sleeping
    <3>1. P = {} BY <2>5, <2>6, <2>8
    <3>2. Cardinality(P) = 0 BY <3>1, FS_EmptySet
    <3> QED BY <2>8, <3>2 DEF Sleeping, P, A, B, C, W
  <2> QED BY <2>7, <2>8
<1>2. IInv => NoDangling BY <1>1 DEF NoDangling
<1> QED BY <1>2, Always, PTL

(* rwlock.cc: when the lock is free and nobody has the mutex, no record is    *)
(* left in a waitqueue, so no wake-up was lost.                               *)
THEOREM NoneStranded == Spec => []NobodyStranded
<1>1. ASSUME IInv, owner = None, s.readers = 0, s.wowner = None PROVE s.rq = <<>> /\ s.wq = <<>>
  <2>0. Placed(s, Sleeping) /\ s.queue = <<>> /\ Served(s, None) /\ Awaited(s, None) /\ OpInv
        /\ pc \in [Threads -> Labels]
    BY <1>1, TypeParts DEF IInv, PlaceInv, MutexInv, WaitInv
  <2>1. ToSet(s.queue) = {} BY <2>0 DEF ToSet
  <2>2. \A u \in Threads : pc[u] \notin {"enter", "awake"} /\ (pc[u] = "asleep" => u \notin s.woken)
    BY <2>0, <2>1, RwLockAssumption DEF Served
  <2>3. Sent(s) = {} BY <2>1 DEF Sent
  <2>4. ASSUME NEW w \in Threads PROVE ~Comes(s, w)
    <3>1. SUFFICES ASSUME Comes(s, w) PROVE FALSE OBVIOUS
    <3>2. w \in Sleeping /\ w \notin ToSet(s.wq) /\ w \notin ToSet(s.rq) BY <2>2, <3>1 DEF Comes
    <3>3. w \notin s.woken BY <2>2, <3>2 DEF Sleeping
    <3> QED BY <2>0, <2>3, <3>2, <3>3 DEF Placed
  <2>5. ~Coming(s, None) BY <2>4 DEF Coming
  <2> QED BY <1>1, <2>0, <2>5 DEF Awaited
<1>2. IInv => NobodyStranded BY <1>1 DEF NobodyStranded
<1> QED BY <1>2, Always, PTL
=============================================================================
