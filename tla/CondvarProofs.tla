---------------------------- MODULE CondvarProofs ---------------------------
(***************************************************************************)
(* Proofs about module Condvar, for any threads and mutexes and any number *)
(* of waits, timeouts, wake_one and wake_all.                              *)
(*                                                                         *)
(* A waiter's record is in the fifo, in the list of a wake_all, in the     *)
(* queue of the mutex, or woken (Apart): the invariant says that it is in  *)
(* one of them exactly while wait() runs, and in each of them with the     *)
(* waiter's own mutex beside it (MtxInv, OwnInv).  AskKeeps and GiveKeeps  *)
(* show what the mutex does to it, Assemble what is left to show of a step *)
(* of one thread, and one lemma follows for each action.                   *)
(***************************************************************************)
EXTENDS Condvar, SequenceTheorems, TLAPS

(* The records of a mutex: of a thread in lock(), or of a condvar waiter.     *)
Records == Threads \X {"lock", "cond"}

(* The waiters whose record is in use.                                        *)
Asleep == {t \in Threads : pc[t] \in {"sleep", "expired", "rewait"}}

(* The waiters whose record a waker put into the queue of mutex m, where a    *)
(* record of a waiter is once.                                                *)
Queued(m) == {t \in Threads : <<t, "cond">> \in ToSet(queue[m])}
CondOnce(q) == \A i, j \in DOMAIN q : q[i] = q[j] /\ q[i][2] = "cond" => i = j

(* The waiters whose record is in the fifo, in the list of a wake_all, and in *)
(* the queue of a mutex.                                                      *)
Fifo    == ToSet(fifo)
Sending == {t \in Threads : \E u \in Threads : t \in ToSet(batch[u].list)}
Sent    == {t \in Threads : \E m \in Mutexes : t \in Queued(m)}

(* No record is twice in a queue or a list, or in two lists.                  *)
Single ==
  /\ IsInjective(fifo)
  /\ \A u \in Threads : IsInjective(batch[u].list)
  /\ \A u, v \in Threads : u # v => ToSet(batch[u].list) \cap ToSet(batch[v].list) = {}
  /\ \A m \in Mutexes : CondOnce(queue[m])

(* A record is in one of its four places, exactly while wait() needs it.      *)
Apart ==
  /\ Fifo \cap Sending = {} /\ Fifo \cap (Sent \cup woken) = {} /\ Sending \cap (Sent \cup woken) = {}
  /\ Sent \cap woken = {}
  /\ Fifo \cup Sending \cup Sent \cup woken = Asleep

(* Where a thread is; inside wake_one and wake_all, where it called them.     *)
Home(t) == IF pc[t] \in {"one", "all", "send"} THEN batch[t].home ELSE pc[t]

(* What a thread at each label has: a list only while it sends, a mutex when  *)
(* it is not idle, no result before its wait returns, and a record out of the *)
(* fifo when it waits for the waker that took it.                             *)
CtlOK(t) ==
  /\ batch[t].list # <<>> => pc[t] = "send"
  /\ pc[t] = "send" => batch[t].list # <<>>
  /\ Home(t) # "idle" => mtx[t] \in Mutexes
  /\ t \in Asleep => ret[t] # "ETIMEDOUT"
  /\ pc[t] = "rewait" => t \notin Fifo
CtlInv == \A t \in Threads : CtlOK(t)

(* Who holds a mutex, or was woken, owns it.                                  *)
OwnInv ==
  /\ \A t \in Threads : Home(t) = "held" => owner[mtx[t]] = t
  /\ \A t \in woken : owner[mtx[t]] = t

(* _user_mutex, the mutex of a wake_all, and the queue a record is in are the *)
(* mutex of every waiter they stand for.                                      *)
MtxInv ==
  /\ \A t \in Fifo : saved = mtx[t]
  /\ \A u \in Threads : \A t \in ToSet(batch[u].list) : batch[u].mutex = mtx[t]
  /\ \A m \in Mutexes : \A t \in Queued(m) : mtx[t] = m

(* The history variable: a record was taken when it left the fifo for a       *)
(* waker.                                                                     *)
TakenInv == taken = Sending \cup Sent \cup woken

(* The inductive invariant.                                                   *)
IInv == TypeOK /\ CtlInv /\ Single /\ Apart /\ OwnInv /\ MtxInv /\ TakenInv
-----------------------------------------------------------------------------
(* The oldest record of a queue is its first.                                 *)
LEMMA HeadIsFirst ==
  ASSUME NEW S, NEW q \in Seq(S), q # <<>>
  PROVE  Head(q) = q[1]
OBVIOUS

(* Taking the oldest record off a waitqueue takes only that one.              *)
LEMMA InjectiveTail ==
  ASSUME NEW S, NEW q \in Seq(S), q # <<>>, IsInjective(q)
  PROVE  IsInjective(Tail(q)) /\ ToSet(Tail(q)) = ToSet(q) \ {Head(q)} /\ Head(q) \in ToSet(q)
<1> DEFINE r == Tail(q)
<1>1. /\ r \in Seq(S) /\ Len(r) = Len(q) - 1 /\ \A i \in 1..Len(r) : r[i] = q[i + 1]
      /\ Len(q) \in Nat \ {0} /\ Head(q) = q[1]
  BY HeadTailProperties, LenProperties, EmptySeq, HeadIsFirst
<1>2. DOMAIN q = 1..Len(q) /\ DOMAIN r = 1..Len(r) BY <1>1, LenProperties
<1> HIDE DEF r
<1>3. ASSUME NEW i \in DOMAIN r, NEW j \in DOMAIN r, r[i] = r[j] PROVE i = j
  <2>1. i + 1 \in DOMAIN q /\ j + 1 \in DOMAIN q BY <1>1, <1>2
  <2>2. q[i + 1] = q[j + 1] BY <1>1, <1>2, <1>3
  <2>3. i + 1 = j + 1 BY <2>1, <2>2 DEF IsInjective
  <2> QED BY <1>1, <1>2, <2>3
<1>4. IsInjective(r) BY <1>3 DEF IsInjective
<1>5. 1 \in DOMAIN q BY <1>1, <1>2
<1>6. ASSUME NEW x \in ToSet(r) PROVE x \in ToSet(q) /\ x # Head(q)
  <2>1. PICK i \in DOMAIN r : x = r[i] BY DEF ToSet
  <2>2. i + 1 \in DOMAIN q /\ i + 1 # 1 /\ x = q[i + 1] BY <1>1, <1>2, <2>1
  <2> QED BY <1>1, <1>5, <2>2 DEF ToSet, IsInjective
<1>7. ASSUME NEW x \in ToSet(q), x # Head(q) PROVE x \in ToSet(r)
  <2>1. PICK i \in DOMAIN q : x = q[i] BY DEF ToSet
  <2>2. i # 1 BY <1>1, <1>7, <2>1
  <2>3. i - 1 \in DOMAIN r /\ r[i - 1] = q[i] BY <1>1, <1>2, <2>1, <2>2
  <2> QED BY <2>1, <2>3 DEF ToSet
<1>8. Head(q) \in ToSet(q) BY <1>1, <1>5 DEF ToSet
<1> QED BY <1>4, <1>6, <1>7, <1>8 DEF r

(* A record is added at the end of a queue.                                   *)
LEMMA SetOfAppend ==
  ASSUME NEW S, NEW q \in Seq(S), NEW e \in S
  PROVE  ToSet(Append(q, e)) = ToSet(q) \cup {e}
<1> DEFINE r == Append(q, e)
<1>1. /\ r \in Seq(S) /\ Len(r) = Len(q) + 1 /\ r[Len(q) + 1] = e /\ \A i \in 1..Len(q) : r[i] = q[i]
      /\ Len(q) \in Nat
  BY AppendProperties, LenProperties
<1>2. DOMAIN q = 1..Len(q) /\ DOMAIN r = 1..(Len(q) + 1) BY <1>1, LenProperties
<1> HIDE DEF r
<1>3. DOMAIN r = DOMAIN q \cup {Len(q) + 1} BY <1>1, <1>2
<1>4. ToSet(r) = ToSet(q) \cup {e} BY <1>1, <1>2, <1>3 DEF ToSet
<1> QED BY <1>4 DEF r

(* Who is not in a waitqueue is in it once afterwards.                        *)
LEMMA InjectiveAppend ==
  ASSUME NEW S, NEW q \in Seq(S), NEW e \in S, IsInjective(q), e \notin ToSet(q)
  PROVE  IsInjective(Append(q, e))
<1> DEFINE r == Append(q, e)
<1>1. /\ r \in Seq(S) /\ Len(r) = Len(q) + 1 /\ r[Len(q) + 1] = e /\ \A i \in 1..Len(q) : r[i] = q[i]
      /\ Len(q) \in Nat
  BY AppendProperties, LenProperties
<1>2. DOMAIN q = 1..Len(q) /\ DOMAIN r = 1..(Len(q) + 1) BY <1>1, LenProperties
<1> HIDE DEF r
<1>3. \A i \in 1..Len(q) : q[i] # e BY <1>2 DEF ToSet
<1>4. ASSUME NEW i \in DOMAIN r, NEW j \in DOMAIN r, r[i] = r[j] PROVE i = j
  <2>1. \A h \in DOMAIN r : h \in 1..Len(q) \/ h = Len(q) + 1 BY <1>1, <1>2
  <2> QED BY <1>1, <1>2, <1>3, <1>4, <2>1 DEF IsInjective
<1> QED BY <1>4 DEF IsInjective, r

(* The same of the records that wakers put into the queue of the mutex.       *)
LEMMA OnceAppend ==
  ASSUME NEW S, NEW q \in Seq(S), NEW e \in S, CondOnce(q), e[2] = "cond" => e \notin ToSet(q)
  PROVE  CondOnce(Append(q, e))
<1> DEFINE r == Append(q, e)
<1>1. /\ r \in Seq(S) /\ Len(r) = Len(q) + 1 /\ r[Len(q) + 1] = e /\ \A i \in 1..Len(q) : r[i] = q[i]
      /\ Len(q) \in Nat
  BY AppendProperties, LenProperties
<1>2. DOMAIN q = 1..Len(q) /\ DOMAIN r = 1..(Len(q) + 1) BY <1>1, LenProperties
<1> HIDE DEF r
<1>3. e[2] = "cond" => \A i \in 1..Len(q) : q[i] # e BY <1>2 DEF ToSet
<1>4. ASSUME NEW i \in DOMAIN r, NEW j \in DOMAIN r, r[i] = r[j], r[i][2] = "cond" PROVE i = j
  <2>1. \A h \in DOMAIN r : h \in 1..Len(q) \/ h = Len(q) + 1 BY <1>1, <1>2
  <2> QED BY <1>1, <1>2, <1>3, <1>4, <2>1 DEF CondOnce
<1> QED BY <1>4 DEF CondOnce, r

(* Releasing the mutex takes one record off its queue.                        *)
LEMMA OnceTail ==
  ASSUME NEW S, NEW q \in Seq(S), q # <<>>, CondOnce(q)
  PROVE  /\ CondOnce(Tail(q)) /\ ToSet(Tail(q)) \subseteq ToSet(q) /\ ToSet(q) \subseteq ToSet(Tail(q)) \cup {Head(q)}
         /\ Head(q) \in ToSet(q) /\ (Head(q)[2] = "cond" => Head(q) \notin ToSet(Tail(q)))
<1> DEFINE r == Tail(q)
<1>1. /\ r \in Seq(S) /\ Len(r) = Len(q) - 1 /\ \A i \in 1..Len(r) : r[i] = q[i + 1]
      /\ Len(q) \in Nat \ {0} /\ Head(q) = q[1]
  BY HeadTailProperties, LenProperties, EmptySeq, HeadIsFirst
<1>2. DOMAIN q = 1..Len(q) /\ DOMAIN r = 1..Len(r) BY <1>1, LenProperties
<1> HIDE DEF r
<1>3. ASSUME NEW i \in DOMAIN r, NEW j \in DOMAIN r, r[i] = r[j], r[i][2] = "cond" PROVE i = j
  <2>1. i + 1 \in DOMAIN q /\ j + 1 \in DOMAIN q BY <1>1, <1>2
  <2>2. q[i + 1] = q[j + 1] /\ q[i + 1][2] = "cond" BY <1>1, <1>2, <1>3
  <2>3. i + 1 = j + 1 BY <2>1, <2>2 DEF CondOnce
  <2> QED BY <1>1, <1>2, <2>3
<1>4. CondOnce(r) BY <1>3 DEF CondOnce
<1>5. 1 \in DOMAIN q BY <1>1, <1>2
<1>6. ASSUME NEW x \in ToSet(r) PROVE x \in ToSet(q) /\ (x[2] = "cond" => x # Head(q))
  <2>1. PICK i \in DOMAIN r : x = r[i] BY DEF ToSet
  <2>2. i + 1 \in DOMAIN q /\ i + 1 # 1 /\ x = q[i + 1] BY <1>1, <1>2, <2>1
  <2> QED BY <1>1, <1>5, <2>2 DEF ToSet, CondOnce
<1>7. ASSUME NEW x \in ToSet(q), x # Head(q) PROVE x \in ToSet(r)
  <2>1. PICK i \in DOMAIN q : x = q[i] BY DEF ToSet
  <2>2. i # 1 BY <1>1, <1>7, <2>1
  <2>3. i - 1 \in DOMAIN r /\ r[i - 1] = q[i] BY <1>1, <1>2, <2>1, <2>2
  <2> QED BY <2>1, <2>3 DEF ToSet
<1>8. Head(q) \in ToSet(q) BY <1>1, <1>5 DEF ToSet
<1> QED BY <1>4, <1>6, <1>7, <1>8 DEF r

(* Where a record is once, it has one position.                               *)
LEMMA PositionsOnce ==
  ASSUME NEW S, NEW q \in Seq(S), NEW e, IsInjective(q)
  PROVE  (e \in ToSet(q) <=> Positions(q, e) # {}) /\ \A i, j \in Positions(q, e) : i = j
<1>1. DOMAIN q = 1..Len(q) BY LenProperties
<1> QED BY <1>1 DEF ToSet, Positions, IsInjective

LEMMA CondPositionsOnce ==
  ASSUME NEW S, NEW q \in Seq(S), NEW e, CondOnce(q), e[2] = "cond"
  PROVE  (e \in ToSet(q) <=> Positions(q, e) # {}) /\ \A i, j \in Positions(q, e) : i = j
<1>1. DOMAIN q = 1..Len(q) BY LenProperties
<1> QED BY <1>1 DEF ToSet, Positions, CondOnce

(* A record taken out of the middle of a list, by remove() or by wake_all, is *)
(* the only one that leaves it.                                               *)
LEMMA Removed ==
  ASSUME NEW S, NEW q \in Seq(S), NEW i \in 1..Len(q), IsInjective(q)
  PROVE  /\ RemoveAt(q, i) \in Seq(S) /\ IsInjective(RemoveAt(q, i))
         /\ ToSet(RemoveAt(q, i)) = ToSet(q) \ {q[i]} /\ q[i] \in ToSet(q)
         /\ RemoveAt(q, i) = <<>> <=> Len(q) = 1
<1> DEFINE a == SubSeq(q, 1, i - 1)
           b == SubSeq(q, i + 1, Len(q))
           r == a \o b
<1>1. Len(q) \in Nat /\ DOMAIN q = 1..Len(q) /\ \A j \in 1..Len(q) : q[j] \in S BY LenProperties, ElementOfSeq
<1>2. /\ a \in Seq(S) /\ Len(a) = i - 1 /\ \A j \in 1..(i - 1) : a[j] = q[j]
  BY <1>1, SubSeqProperties
<1>3. /\ b \in Seq(S) /\ Len(b) = Len(q) - i /\ \A j \in 1..(Len(q) - i) : b[j] = q[i + j]
  <2> DEFINE m == i + 1
             n == Len(q)
  <2>1. m \in Int /\ n \in Int /\ \A j \in m..n : q[j] \in S BY <1>1
  <2>2. /\ b \in Seq(S) /\ Len(b) = (IF m <= n THEN n - m + 1 ELSE 0)
        /\ \A j \in 1..(n - m + 1) : b[j] = q[m + j - 1]
    <3>1. b = SubSeq(q, m, n) OBVIOUS
    <3> HIDE DEF m, n, b
    <3> QED BY <2>1, <3>1, SubSeqProperties
  <2> HIDE DEF b
  <2>3. n - m + 1 = Len(q) - i /\ \A j \in 1..(Len(q) - i) : m + j - 1 = i + j BY <1>1
  <2>4. (IF m <= n THEN n - m + 1 ELSE 0) = Len(q) - i
    <3>1. n \in Nat /\ i \in Nat /\ i <= n /\ m = i + 1 /\ n = Len(q) BY <1>1
    <3> HIDE DEF m, n
    <3>2. CASE m <= n BY <3>1, <3>2
    <3>3. CASE ~(m <= n) BY <3>1, <3>3
    <3> QED BY <3>2, <3>3
  <2> QED BY <2>2, <2>3, <2>4
<1> HIDE DEF a, b
<1>4. /\ r \in Seq(S) /\ Len(r) = Len(a) + Len(b)
      /\ \A j \in 1..(Len(a) + Len(b)) : r[j] = IF j <= Len(a) THEN a[j] ELSE b[j - Len(a)]
  BY <1>2, <1>3, ConcatProperties
<1>5. RemoveAt(q, i) = r BY DEF RemoveAt, a, b
<1> HIDE DEF r
<1>6. Len(r) = Len(q) - 1 /\ DOMAIN r = 1..(Len(q) - 1) BY <1>1, <1>2, <1>3, <1>4, LenProperties
<1>7. ASSUME NEW j \in 1..(Len(q) - 1) PROVE r[j] = IF j < i THEN q[j] ELSE q[j + 1]
  <2>1. CASE j < i
    <3>1. j \in 1..(i - 1) /\ j <= Len(a) /\ j \in 1..(Len(a) + Len(b)) BY <1>1, <1>2, <1>3, <2>1
    <3> QED BY <1>2, <1>4, <2>1, <3>1
  <2>2. CASE ~(j < i)
    <3>1. ~(j <= Len(a)) /\ j \in 1..(Len(a) + Len(b)) /\ j - Len(a) \in 1..(Len(q) - i) /\ i + (j - Len(a)) = j + 1
      BY <1>1, <1>2, <1>3, <2>2
    <3>2. r[j] = b[j - Len(a)] BY <1>4, <3>1
    <3>3. b[j - Len(a)] = q[i + (j - Len(a))] BY <1>3, <3>1
    <3> QED BY <2>2, <3>1, <3>2, <3>3
  <2> QED BY <2>1, <2>2
<1> DEFINE k(j) == IF j < i THEN j ELSE j + 1
<1>8. \A j \in DOMAIN r : k(j) \in DOMAIN q /\ k(j) # i /\ r[j] = q[k(j)] BY <1>1, <1>6, <1>7
<1>9. \A j, h \in DOMAIN r : k(j) = k(h) => j = h BY <1>1, <1>6
<1>10. \A j \in DOMAIN q : j # i => \E h \in DOMAIN r : k(h) = j
  <2> SUFFICES ASSUME NEW j \in DOMAIN q, j # i PROVE \E h \in DOMAIN r : k(h) = j OBVIOUS
  <2>1. CASE j < i
    <3>1. j \in DOMAIN r /\ k(j) = j BY <1>1, <1>6, <2>1
    <3> QED BY <3>1
  <2>2. CASE ~(j < i)
    <3>1. j - 1 \in DOMAIN r /\ k(j - 1) = j BY <1>1, <1>6, <2>2
    <3> QED BY <3>1
  <2> QED BY <2>1, <2>2
<1> HIDE DEF k
<1>11. IsInjective(r) BY <1>8, <1>9 DEF IsInjective
<1>12. ToSet(r) = ToSet(q) \ {q[i]}
  <2>1. ASSUME NEW x \in ToSet(r) PROVE x \in ToSet(q) /\ x # q[i]
    <3>1. PICK j \in DOMAIN r : x = r[j] BY DEF ToSet
    <3> QED BY <1>1, <1>8, <3>1 DEF ToSet, IsInjective
  <2>2. ASSUME NEW x \in ToSet(q), x # q[i] PROVE x \in ToSet(r)
    <3>1. PICK j \in DOMAIN q : x = q[j] BY DEF ToSet
    <3>2. PICK h \in DOMAIN r : k(h) = j BY <1>10, <2>2, <3>1
    <3> QED BY <1>8, <3>1, <3>2 DEF ToSet
  <2> QED BY <2>1, <2>2
<1>13. q[i] \in ToSet(q) BY <1>1 DEF ToSet
<1>14. r = <<>> <=> Len(q) = 1
  <2>1. r = <<>> <=> Len(r) = 0 BY <1>4, EmptySeq
  <2>2. Len(r) = 0 <=> Len(q) = 1 BY <1>1, <1>6
  <2> QED BY <2>1, <2>2
<1> QED BY <1>4, <1>5, <1>11, <1>12, <1>13, <1>14
-----------------------------------------------------------------------------
(* The types and the queues of the mutexes.                                   *)
MutexType ==
  /\ owner \in [Mutexes -> Threads \cup {None}] /\ queue \in [Mutexes -> Seq(Records)]
  /\ woken \in SUBSET Threads
Queues == \A m \in Mutexes : CondOnce(queue[m])

(* The record of t, in lock() or sent by a waker, gets m or enters its queue. *)
LEMMA AskKeeps ==
  ASSUME MutexType, Queues, OwnInv, MtxInv, Sent \cap woken = {}, NEW m \in Mutexes, NEW t \in Threads,
         NEW k \in {"lock", "cond"}, Ask(m, <<t, k>>),
         k = "cond" => t \notin Sent \cup woken /\ mtx[t] = m
  PROVE  /\ MutexType' /\ Queues' /\ (Sent \cap woken = {})'
         /\ Sent' \cup woken' = Sent \cup woken \cup (IF k = "cond" THEN {t} ELSE {})
         /\ \A n \in Mutexes : \A u \in Queued(n)' : mtx[u] = n
         /\ \A u \in woken' : owner'[mtx[u]] = u
         /\ \A u \in Threads : Home(u) = "held" => owner'[mtx[u]] = u
<1> DEFINE r == <<t, k>>
<1>0. r \in Records /\ r[1] = t /\ r[2] = k /\ None \notin Threads BY CondvarAssumption DEF Records
<1>1. CASE owner[m] = None
  <2>1. /\ owner' = [owner EXCEPT ![m] = t] /\ queue' = queue
        /\ woken' = IF k = "cond" THEN woken \cup {t} ELSE woken
    BY <1>0, <1>1 DEF Ask
  <2>2. MutexType' BY <2>1 DEF MutexType
  <2>3. Queues' BY <2>1 DEF Queues
  <2>4. Sent' = Sent /\ \A n \in Mutexes : Queued(n)' = Queued(n) BY <2>1 DEF Sent, Queued
  <2>5. (Sent \cap woken = {})' BY <2>1, <2>4
  <2>6. Sent' \cup woken' = Sent \cup woken \cup (IF k = "cond" THEN {t} ELSE {}) BY <2>1, <2>4
  <2>7. \A n \in Mutexes : \A u \in Queued(n)' : mtx[u] = n BY <2>4 DEF MtxInv
  <2>8. ASSUME NEW u \in Threads, owner[mtx[u]] = u PROVE owner'[mtx[u]] = u
    <3>1. mtx[u] # m BY <1>0, <1>1, <2>8
    <3> QED BY <2>1, <2>8, <3>1 DEF MutexType
  <2>9. \A u \in woken' : owner'[mtx[u]] = u
    <3>1. owner'[m] = t BY <2>1 DEF MutexType
    <3>2. \A u \in woken : u \in Threads /\ owner[mtx[u]] = u BY DEF OwnInv, MutexType
    <3> QED BY <2>1, <2>8, <3>1, <3>2
  <2>10. \A u \in Threads : Home(u) = "held" => owner'[mtx[u]] = u BY <2>8 DEF OwnInv
  <2> QED BY <2>2, <2>3, <2>5, <2>6, <2>7, <2>9, <2>10
<1>2. CASE owner[m] # None
  <2> DEFINE q == Append(queue[m], r)
  <2>0. queue[m] \in Seq(Records) /\ CondOnce(queue[m]) BY DEF MutexType, Queues
  <2>1. queue' = [queue EXCEPT ![m] = q] /\ owner' = owner /\ woken' = woken BY <1>2 DEF Ask
  <2>a. q \in Seq(Records) /\ ToSet(q) = ToSet(queue[m]) \cup {r} BY <1>0, <2>0, AppendProperties, SetOfAppend
  <2>b. CondOnce(q)
    <3>1. k = "cond" => r \notin ToSet(queue[m]) BY DEF Sent, Queued
    <3> HIDE DEF r
    <3> QED BY <1>0, <2>0, <3>1, OnceAppend
  <2> HIDE DEF q
  <2>2. MutexType' BY <2>1, <2>a DEF MutexType
  <2>c. queue'[m] = q /\ \A n \in Mutexes \ {m} : queue'[n] = queue[n] BY <2>1 DEF MutexType
  <2>3. Queues' BY <2>c, <2>b DEF Queues
  <2>d. /\ Queued(m)' = Queued(m) \cup (IF k = "cond" THEN {t} ELSE {})
        /\ \A n \in Mutexes \ {m} : Queued(n)' = Queued(n)
    <3>1. \A u \in Threads : <<u, "cond">> = r <=> u = t /\ k = "cond" OBVIOUS
    <3> HIDE DEF r
    <3>2. \A u \in Threads : <<u, "cond">> \in ToSet(q) <=> <<u, "cond">> \in ToSet(queue[m]) \/ (u = t /\ k = "cond")
      BY <2>a, <3>1
    <3>3. Queued(m)' = Queued(m) \cup (IF k = "cond" THEN {t} ELSE {}) BY <2>c, <3>2 DEF Queued
    <3>4. \A n \in Mutexes \ {m} : Queued(n)' = Queued(n) BY <2>c DEF Queued
    <3> QED BY <3>3, <3>4
  <2>4. Sent' = Sent \cup (IF k = "cond" THEN {t} ELSE {}) BY <2>d DEF Sent
  <2>5. (Sent \cap woken = {})' BY <2>1, <2>4
  <2>6. Sent' \cup woken' = Sent \cup woken \cup (IF k = "cond" THEN {t} ELSE {}) BY <2>1, <2>4
  <2>7. \A n \in Mutexes : \A u \in Queued(n)' : mtx[u] = n BY <2>d DEF MtxInv
  <2>9. \A u \in woken' : owner'[mtx[u]] = u BY <2>1 DEF OwnInv
  <2>10. \A u \in Threads : Home(u) = "held" => owner'[mtx[u]] = u BY <2>1 DEF OwnInv
  <2> QED BY <2>2, <2>3, <2>5, <2>6, <2>7, <2>9, <2>10
<1> QED BY <1>1, <1>2

(* The owner t of m gives it to the oldest record.                            *)
LEMMA GiveKeeps ==
  ASSUME MutexType, Queues, OwnInv, MtxInv, Sent \cap woken = {}, NEW m \in Mutexes, NEW t \in Threads,
         owner[m] = t, t \notin woken, Give(m)
  PROVE  /\ MutexType' /\ Queues' /\ (Sent \cap woken = {})'
         /\ Sent' \cup woken' = Sent \cup woken
         /\ \A n \in Mutexes : \A u \in Queued(n)' : mtx[u] = n
         /\ \A u \in woken' : owner'[mtx[u]] = u
         /\ \A u \in Threads \ {t} : Home(u) = "held" => owner'[mtx[u]] = u
<1>8. ASSUME NEW u \in Threads \ {t}, owner[mtx[u]] = u, NEW o, owner' = [owner EXCEPT ![m] = o]
      PROVE  owner'[mtx[u]] = u
  <2>1. mtx[u] # m BY <1>8
  <2> QED BY <1>8, <2>1 DEF MutexType
<1>9. \A u \in woken : u \in Threads \ {t} /\ owner[mtx[u]] = u BY DEF OwnInv, MutexType
<1>1. CASE queue[m] = <<>>
  <2>1. owner' = [owner EXCEPT ![m] = None] /\ queue' = queue /\ woken' = woken BY <1>1 DEF Give
  <2>2. MutexType' BY <2>1 DEF MutexType
  <2>3. Queues' BY <2>1 DEF Queues
  <2>4. Sent' = Sent /\ \A n \in Mutexes : Queued(n)' = Queued(n) BY <2>1 DEF Sent, Queued
  <2>5. (Sent \cap woken = {})' BY <2>1, <2>4
  <2>6. Sent' \cup woken' = Sent \cup woken BY <2>1, <2>4
  <2>7. \A n \in Mutexes : \A u \in Queued(n)' : mtx[u] = n BY <2>4 DEF MtxInv
  <2>8. \A u \in woken' : owner'[mtx[u]] = u BY <1>8, <1>9, <2>1
  <2>9. \A u \in Threads \ {t} : Home(u) = "held" => owner'[mtx[u]] = u BY <1>8, <2>1 DEF OwnInv
  <2> QED BY <2>2, <2>3, <2>5, <2>6, <2>7, <2>8, <2>9
<1>2. CASE queue[m] # <<>>
  <2> DEFINE r == Head(queue[m])
             q == Tail(queue[m])
  <2>0. queue[m] \in Seq(Records) /\ CondOnce(queue[m]) BY DEF MutexType, Queues
  <2>1. /\ r \in Records /\ q \in Seq(Records)
        /\ CondOnce(q) /\ ToSet(q) \subseteq ToSet(queue[m]) /\ ToSet(queue[m]) \subseteq ToSet(q) \cup {r}
        /\ r \in ToSet(queue[m]) /\ (r[2] = "cond" => r \notin ToSet(q))
    BY <1>2, <2>0, OnceTail, HeadTailProperties
  <2>2. /\ owner' = [owner EXCEPT ![m] = r[1]] /\ queue' = [queue EXCEPT ![m] = q]
        /\ woken' = IF r[2] = "cond" THEN woken \cup {r[1]} ELSE woken
    BY <1>2 DEF Give
  <2> HIDE DEF q, r
  <2>3. PICK h \in Threads, k \in {"lock", "cond"} : r = <<h, k>> BY <2>1 DEF Records
  <2>4. r[1] = h /\ r[2] = k BY <2>3
  <2>5. /\ owner' = [owner EXCEPT ![m] = h] /\ woken' = IF k = "cond" THEN woken \cup {h} ELSE woken
    BY <2>2, <2>4
  <2>6. queue'[m] = q /\ \A n \in Mutexes \ {m} : queue'[n] = queue[n] BY <2>2 DEF MutexType
  <2>7. MutexType' BY <2>1, <2>2, <2>5 DEF MutexType
  <2>8. Queues' BY <2>1, <2>6 DEF Queues
  <2>9. /\ Queued(m)' = Queued(m) \ (IF k = "cond" THEN {h} ELSE {})
        /\ \A n \in Mutexes \ {m} : Queued(n)' = Queued(n)
        /\ k = "cond" => h \in Queued(m)
    <3>1. \A u \in Threads : <<u, "cond">> = r <=> u = h /\ k = "cond" BY <2>3
    <3>2. \A u \in Threads : <<u, "cond">> \in ToSet(q) <=> <<u, "cond">> \in ToSet(queue[m]) /\ ~(u = h /\ k = "cond")
      BY <2>1, <2>4, <3>1
    <3>3. Queued(m)' = Queued(m) \ (IF k = "cond" THEN {h} ELSE {}) BY <2>6, <3>2 DEF Queued
    <3>4. \A n \in Mutexes \ {m} : Queued(n)' = Queued(n) BY <2>6 DEF Queued
    <3>5. k = "cond" => h \in Queued(m) BY <2>1, <2>3 DEF Queued
    <3> QED BY <3>3, <3>4, <3>5
  <2>10. k = "cond" => mtx[h] = m /\ h \in Sent BY <2>9 DEF MtxInv, Sent
  <2>11. Sent' = Sent \ (IF k = "cond" THEN {h} ELSE {})
    <3>1. k = "cond" => \A n \in Mutexes \ {m} : h \notin Queued(n) BY <2>10 DEF MtxInv
    <3> QED BY <2>9, <3>1 DEF Sent
  <2>12. (Sent \cap woken = {})' BY <2>5, <2>11
  <2>13. Sent' \cup woken' = Sent \cup woken BY <2>5, <2>10, <2>11
  <2>14. \A n \in Mutexes : \A u \in Queued(n)' : mtx[u] = n BY <2>9 DEF MtxInv
  <2>15. \A u \in woken' : owner'[mtx[u]] = u
    <3>1. k = "cond" => owner'[mtx[h]] = h BY <2>5, <2>10 DEF MutexType
    <3> QED BY <1>8, <1>9, <2>5, <3>1
  <2>16. \A u \in Threads \ {t} : Home(u) = "held" => owner'[mtx[u]] = u BY <1>8, <2>5 DEF OwnInv
  <2> QED BY <2>7, <2>8, <2>12, <2>13, <2>14, <2>15, <2>16
<1> QED BY <1>1, <1>2
-----------------------------------------------------------------------------
(* TypeOK in parts: the locals of the threads, and the rest.                  *)
Batch == [list: Seq(Threads), from: Nat \ {0}, mutex: Mutexes \cup {None}, home: {"idle", "held"}]
ThreadType ==
  /\ pc \in [Threads -> Labels] /\ mtx \in [Threads -> Mutexes \cup {None}]
  /\ ret \in [Threads -> {"none", "ok", "ETIMEDOUT"}] /\ batch \in [Threads -> Batch]
RestType ==
  /\ fifo \in Seq(Threads) /\ saved \in Mutexes \cup {None} /\ timed \in SUBSET Threads
  /\ taken \in SUBSET Threads /\ ready \in SUBSET Mutexes /\ must \in SUBSET Threads
  /\ aborted \in BOOLEAN /\ ops \in 0..MaxOps

(* TypeOK is the conjunction of its parts.                                    *)
LEMMA TypeParts == TypeOK <=> MutexType /\ ThreadType /\ RestType
BY DEF TypeOK, MutexType, ThreadType, RestType, Batch, Records

(* The same of the next state.                                                *)
LEMMA TypeNext == MutexType' /\ ThreadType' /\ RestType' => TypeOK'
BY DEF TypeOK, MutexType, ThreadType, RestType, Batch, Records

(* What a step of t leaves alone, and does to the mutexes, the fifo and its   *)
(* own list.                                                                  *)
Others(t) == \A u \in Threads \ {t} :
  pc'[u] = pc[u] /\ mtx'[u] = mtx[u] /\ ret'[u] = ret[u] /\ batch'[u] = batch[u]
MutexStep(t) ==
  /\ MutexType' /\ Queues' /\ (Sent \cap woken = {})'
  /\ \A n \in Mutexes : \A u \in Queued(n)' : mtx[u] = n
  /\ \A u \in woken' : owner'[mtx[u]] = u
  /\ \A u \in Threads \ {t} : Home(u) = "held" => owner'[mtx[u]] = u
SameMutex(t) == mtx'[t] = mtx[t] \/ t \notin Asleep \cup Sent' \cup woken'
FifoStep(t) == IsInjective(fifo)' /\ (\A u \in Fifo' : saved' = mtx'[u]) /\ Fifo' \subseteq Fifo \cup {t}
BatchStep(t) ==
  /\ IsInjective(batch'[t].list)
  /\ \A u \in ToSet(batch'[t].list) : batch'[t].mutex = mtx'[u]
  /\ \A u \in Threads \ {t} : ToSet(batch'[t].list) \cap ToSet(batch[u].list) = {}

(* A step of one thread keeps the invariant when it does these.               *)
LEMMA Assemble ==
  ASSUME IInv, NEW t \in Threads, ThreadType', RestType', Others(t), MutexStep(t), SameMutex(t), FifoStep(t),
         BatchStep(t), CtlOK(t)', Home(t)' = "held" => owner'[mtx'[t]] = t, Apart', TakenInv'
  PROVE  IInv'
<1>0. MutexType /\ ThreadType /\ RestType BY TypeParts DEF IInv
<1>1. TypeOK' BY TypeNext DEF MutexStep
<1>2. CtlInv'
  <2>1. ASSUME NEW u \in Threads, u # t PROVE CtlOK(u)'
    <3>1. pc'[u] = pc[u] /\ mtx'[u] = mtx[u] /\ ret'[u] = ret[u] /\ batch'[u] = batch[u] BY <2>1 DEF Others
    <3>2. CtlOK(u) BY DEF IInv, CtlInv
    <3>3. u \in Fifo' => u \in Fifo BY <2>1 DEF FifoStep
    <3>4. (Home(u))' = Home(u) BY <3>1 DEF Home
    <3>5. (u \in Asleep)' <=> u \in Asleep BY <3>1 DEF Asleep
    <3> QED BY <3>1, <3>2, <3>3, <3>4, <3>5 DEF CtlOK
  <2> QED BY <2>1 DEF CtlInv
<1>3. Single'
  <2>1. \A u \in Threads : IsInjective(batch'[u].list) BY DEF IInv, Single, Others, BatchStep
  <2>2. ASSUME NEW u \in Threads, NEW v \in Threads, u # v
        PROVE  ToSet(batch'[u].list) \cap ToSet(batch'[v].list) = {}
    <3>1. CASE u = t BY <2>2, <3>1 DEF Others, BatchStep
    <3>2. CASE v = t BY <2>2, <3>2 DEF Others, BatchStep
    <3>3. CASE u # t /\ v # t BY <2>2, <3>3 DEF Others, IInv, Single
    <3> QED BY <3>1, <3>2, <3>3
  <2>3. \A m \in Mutexes : CondOnce(queue'[m]) BY DEF MutexStep, Queues
  <2> QED BY <2>1, <2>2, <2>3 DEF Single, FifoStep
<1>4. \A u \in Threads : u \in Asleep \cup Sent' \cup woken' => mtx'[u] = mtx[u]
  BY DEF Others, SameMutex
<1>5. OwnInv'
  <2>1. ASSUME NEW u \in Threads, u # t, Home(u)' = "held" PROVE owner'[mtx'[u]] = u
    <3>1. pc'[u] = pc[u] /\ mtx'[u] = mtx[u] /\ batch'[u] = batch[u] BY <2>1 DEF Others
    <3>2. Home(u)' = Home(u) BY <3>1 DEF Home
    <3> QED BY <2>1, <3>1, <3>2 DEF MutexStep
  <2>2. \A u \in woken' : u \in Threads /\ mtx'[u] = mtx[u] BY <1>4 DEF MutexStep, MutexType
  <2> QED BY <2>1, <2>2 DEF OwnInv, MutexStep
<1>6. MtxInv'
  <2>1. ASSUME NEW u \in Threads, NEW w \in ToSet(batch'[u].list) PROVE batch'[u].mutex = mtx'[w]
    <3>1. CASE u = t BY <3>1 DEF BatchStep
    <3>2. CASE u # t
      <4>1. batch'[u] = batch[u] BY <3>2 DEF Others
      <4>2. w \in Threads
        <5>1. batch[u].list \in Seq(Threads) BY <1>0 DEF ThreadType, Batch
        <5> QED BY <4>1, <5>1 DEF ToSet
      <4>3. w \in Sending BY <4>1, <4>2 DEF Sending
      <4>4. w \in Asleep BY <4>3 DEF IInv, Apart
      <4> QED BY <1>4, <4>1, <4>2, <4>4 DEF IInv, MtxInv
    <3> QED BY <3>1, <3>2
  <2>2. ASSUME NEW n \in Mutexes, NEW w \in Queued(n)' PROVE mtx'[w] = n
    <3>1. w \in Threads /\ w \in Sent' BY DEF Sent, Queued
    <3> QED BY <1>4, <3>1 DEF MutexStep
  <2> QED BY <2>1, <2>2 DEF MtxInv, FifoStep
<1> QED BY <1>1, <1>2, <1>3, <1>5, <1>6 DEF IInv

(* The parts of the invariant.                                                *)
LEMMA Before ==
  ASSUME IInv
  PROVE  /\ MutexType /\ ThreadType /\ RestType /\ Queues /\ OwnInv /\ MtxInv /\ Sent \cap woken = {}
         /\ CtlInv /\ Single /\ Apart /\ TakenInv
BY TypeParts DEF IInv, Queues, Single, Apart

(* A step that leaves the mutexes alone.                                      *)
LEMMA SameRecords ==
  ASSUME IInv, queue' = queue, woken' = woken, owner' = owner
  PROVE  /\ Sent' = Sent /\ \A t \in Threads : MutexStep(t)
<1>1. Sent' = Sent /\ \A n \in Mutexes : Queued(n)' = Queued(n) BY DEF Sent, Queued
<1>2. MutexType' /\ Queues' BY Before DEF MutexType, Queues
<1> QED BY <1>1, <1>2, Before DEF MutexStep, MtxInv, OwnInv

(* A step that leaves the fifo alone.                                         *)
LEMMA SameFifo ==
  ASSUME IInv, fifo' = fifo, saved' = saved, NEW t \in Threads, Others(t), mtx'[t] = mtx[t] \/ t \notin Asleep
  PROVE  FifoStep(t) /\ Fifo' = Fifo
<1>1. Fifo' = Fifo /\ Fifo \subseteq Asleep BY DEF Fifo, IInv, Apart
<1>2. \A u \in Fifo : mtx'[u] = mtx[u] BY <1>1 DEF Others, Asleep
<1> QED BY <1>1, <1>2 DEF FifoStep, IInv, Single, MtxInv

(* A step that leaves the lists of wake_all alone.                            *)
LEMMA SameBatch ==
  ASSUME IInv, batch' = batch, NEW t \in Threads, Others(t), mtx'[t] = mtx[t] \/ t \notin Asleep
  PROVE  BatchStep(t) /\ Sending' = Sending
<1>1. Sending' = Sending BY DEF Sending
<1>2. ASSUME NEW u \in ToSet(batch[t].list) PROVE mtx'[u] = mtx[u]
  <2>1. u \in Threads
    <3>1. batch[t].list \in Seq(Threads) BY Before DEF ThreadType, Batch
    <3> QED BY <3>1 DEF ToSet
  <2>2. u \in Asleep BY <2>1 DEF IInv, Apart, Sending
  <2> QED BY <2>1, <2>2 DEF Others
<1> QED BY <1>1, <1>2 DEF BatchStep, IInv, Single, MtxInv

(* lock() of a user mutex.                                                    *)
LEMMA LockKeeps ==
  ASSUME IInv, NEW t \in Threads, NEW m \in Uses[t], Lock(t, m)
  PROVE  IInv'
<1>0. /\ pc[t] = "idle" /\ mtx' = [mtx EXCEPT ![t] = m] /\ Ask(m, <<t, "lock">>) /\ pc' = [pc EXCEPT ![t] = "locking"]
      /\ fifo' = fifo /\ saved' = saved /\ timed' = timed /\ ret' = ret /\ batch' = batch /\ taken' = taken
      /\ ready' = ready /\ must' = must /\ aborted' = aborted /\ ops > 0 /\ ops' = ops - 1
  BY DEF Lock, At, Goto, CountCall
<1>1. m \in Mutexes BY CondvarAssumption
<1>2. ThreadType /\ RestType /\ CtlOK(t) /\ Apart /\ TakenInv BY Before DEF CtlInv
<1>3. /\ ThreadType' /\ pc'[t] = "locking" /\ mtx'[t] = m
  BY <1>0, <1>1, <1>2 DEF ThreadType, Labels
<1>4. RestType' BY <1>0, <1>2, CondvarAssumption DEF RestType
<1>5. Others(t) BY <1>0, <1>2 DEF Others, ThreadType
<1>6. t \notin Asleep /\ Asleep' = Asleep BY <1>0, <1>2, <1>3, <1>5 DEF Asleep, Others
<1>7. MutexStep(t) /\ Sent' \cup woken' = Sent \cup woken
  <2>1. /\ MutexType' /\ Queues' /\ (Sent \cap woken = {})'
        /\ Sent' \cup woken' = Sent \cup woken \cup (IF "lock" = "cond" THEN {t} ELSE {})
        /\ \A n \in Mutexes : \A u \in Queued(n)' : mtx[u] = n
        /\ \A u \in woken' : owner'[mtx[u]] = u
        /\ \A u \in Threads : Home(u) = "held" => owner'[mtx[u]] = u
    BY <1>0, <1>1, Before, AskKeeps
  <2> QED BY <2>1 DEF MutexStep
<1>8. SameMutex(t)
  <2>1. t \notin Sent \cup woken BY <1>2, <1>6 DEF Apart
  <2> QED BY <1>6, <1>7, <2>1 DEF SameMutex
<1>9. FifoStep(t) /\ Fifo' = Fifo BY <1>0, <1>5, <1>6, SameFifo
<1>10. BatchStep(t) /\ Sending' = Sending BY <1>0, <1>5, <1>6, SameBatch
<1>11. Home(t)' = "locking" BY <1>3 DEF Home
<1>12. CtlOK(t)' BY <1>0, <1>1, <1>2, <1>3, <1>6, <1>11 DEF CtlOK
<1>13. Apart' BY <1>2, <1>6, <1>7, <1>9, <1>10 DEF Apart, MutexStep
<1>14. TakenInv' BY <1>0, <1>2, <1>7, <1>10 DEF TakenInv
<1> QED BY <1>3, <1>4, <1>5, <1>7, <1>8, <1>9, <1>10, <1>11, <1>12, <1>13, <1>14, Assemble

(* lock() after a timeout.                                                    *)
LEMMA RelockKeeps ==
  ASSUME IInv, NEW t \in Threads, Relock(t)
  PROVE  IInv'
<1>0. /\ pc[t] = "relock" /\ Ask(mtx[t], <<t, "lock">>) /\ pc' = [pc EXCEPT ![t] = "locking"] /\ mtx' = mtx
      /\ fifo' = fifo /\ saved' = saved /\ timed' = timed /\ ret' = ret /\ batch' = batch /\ taken' = taken
      /\ ready' = ready /\ must' = must /\ aborted' = aborted /\ ops' = ops
  BY DEF Relock, At, Goto
<1>2. ThreadType /\ RestType /\ CtlOK(t) /\ Apart /\ TakenInv BY Before DEF CtlInv
<1>1. mtx[t] \in Mutexes BY <1>0, <1>2 DEF CtlOK, Home
<1>3. ThreadType' /\ pc'[t] = "locking" BY <1>0, <1>2 DEF ThreadType, Labels
<1>4. RestType' BY <1>0, <1>2 DEF RestType
<1>5. Others(t) BY <1>0, <1>2 DEF Others, ThreadType
<1>6. t \notin Asleep /\ Asleep' = Asleep BY <1>0, <1>2, <1>3, <1>5 DEF Asleep, Others
<1>7. MutexStep(t) /\ Sent' \cup woken' = Sent \cup woken
  <2>1. /\ MutexType' /\ Queues' /\ (Sent \cap woken = {})'
        /\ Sent' \cup woken' = Sent \cup woken \cup (IF "lock" = "cond" THEN {t} ELSE {})
        /\ \A n \in Mutexes : \A u \in Queued(n)' : mtx[u] = n
        /\ \A u \in woken' : owner'[mtx[u]] = u
        /\ \A u \in Threads : Home(u) = "held" => owner'[mtx[u]] = u
    BY <1>0, <1>1, Before, AskKeeps
  <2> QED BY <2>1 DEF MutexStep
<1>8. SameMutex(t) BY <1>0 DEF SameMutex
<1>9. FifoStep(t) /\ Fifo' = Fifo BY <1>0, <1>5, <1>6, SameFifo
<1>10. BatchStep(t) /\ Sending' = Sending BY <1>0, <1>5, <1>6, SameBatch
<1>11. Home(t)' = "locking" BY <1>3 DEF Home
<1>12. CtlOK(t)' BY <1>0, <1>1, <1>2, <1>3, <1>6, <1>11 DEF CtlOK
<1>13. Apart' BY <1>2, <1>6, <1>7, <1>9, <1>10 DEF Apart, MutexStep
<1>14. TakenInv' BY <1>0, <1>2, <1>7, <1>10 DEF TakenInv
<1> QED BY <1>3, <1>4, <1>5, <1>7, <1>8, <1>9, <1>10, <1>11, <1>12, <1>13, <1>14, Assemble

(* lock() returns.                                                            *)
LEMMA LockedKeeps ==
  ASSUME IInv, NEW t \in Threads, Locked(t)
  PROVE  IInv'
<1>0. /\ pc[t] = "locking" /\ owner[mtx[t]] = t /\ pc' = [pc EXCEPT ![t] = "held"] /\ mtx' = mtx
      /\ owner' = owner /\ queue' = queue /\ woken' = woken
      /\ fifo' = fifo /\ saved' = saved /\ timed' = timed /\ ret' = ret /\ batch' = batch /\ taken' = taken
      /\ ready' = ready /\ must' = must /\ aborted' = aborted /\ ops' = ops
  BY DEF Locked, At, Goto, mutex
<1>2. ThreadType /\ RestType /\ CtlOK(t) /\ Apart /\ TakenInv BY Before DEF CtlInv
<1>1. mtx[t] \in Mutexes BY <1>0, <1>2 DEF CtlOK, Home
<1>3. ThreadType' /\ pc'[t] = "held" BY <1>0, <1>2 DEF ThreadType, Labels
<1>4. RestType' BY <1>0, <1>2 DEF RestType
<1>5. Others(t) BY <1>0, <1>2 DEF Others, ThreadType
<1>6. t \notin Asleep /\ Asleep' = Asleep BY <1>0, <1>2, <1>3, <1>5 DEF Asleep, Others
<1>7. MutexStep(t) /\ Sent' = Sent BY <1>0, SameRecords
<1>8. SameMutex(t) BY <1>0 DEF SameMutex
<1>9. FifoStep(t) /\ Fifo' = Fifo BY <1>0, <1>5, <1>6, SameFifo
<1>10. BatchStep(t) /\ Sending' = Sending BY <1>0, <1>5, <1>6, SameBatch
<1>11. Home(t)' = "held" BY <1>3 DEF Home
<1>12. CtlOK(t)' BY <1>0, <1>1, <1>2, <1>3, <1>6, <1>11 DEF CtlOK
<1>13. Apart' BY <1>0, <1>2, <1>6, <1>7, <1>9, <1>10 DEF Apart
<1>14. TakenInv' BY <1>0, <1>2, <1>7, <1>10 DEF TakenInv
<1> QED BY <1>0, <1>3, <1>4, <1>5, <1>7, <1>8, <1>9, <1>10, <1>11, <1>12, <1>13, <1>14, Assemble

(* unlock(), which gives the mutex to the oldest record.                      *)
LEMMA UnlockKeeps ==
  ASSUME IInv, NEW t \in Threads, Unlock(t)
  PROVE  IInv'
<1>0. /\ pc[t] = "held" /\ Give(mtx[t]) /\ pc' = [pc EXCEPT ![t] = "idle"] /\ mtx' = [mtx EXCEPT ![t] = None]
      /\ ret' = [ret EXCEPT ![t] = "none"]
      /\ fifo' = fifo /\ saved' = saved /\ timed' = timed /\ batch' = batch /\ taken' = taken
      /\ ready' = ready /\ must' = must /\ aborted' = aborted /\ ops' = ops
  BY DEF Unlock, At, Goto
<1>2. ThreadType /\ RestType /\ CtlOK(t) /\ Apart /\ TakenInv /\ OwnInv BY Before DEF CtlInv
<1>1. mtx[t] \in Mutexes /\ owner[mtx[t]] = t BY <1>0, <1>2 DEF CtlOK, Home, OwnInv
<1>3. ThreadType' /\ pc'[t] = "idle" BY <1>0, <1>2 DEF ThreadType, Labels
<1>4. RestType' BY <1>0, <1>2 DEF RestType
<1>5. Others(t) BY <1>0, <1>2 DEF Others, ThreadType
<1>6. t \notin Asleep /\ Asleep' = Asleep /\ t \notin Sent \cup woken
  <2>1. t \notin Asleep /\ Asleep' = Asleep BY <1>0, <1>2, <1>3, <1>5 DEF Asleep, Others
  <2> QED BY <1>2, <2>1 DEF Apart
<1>7. MutexStep(t) /\ Sent' \cup woken' = Sent \cup woken
  <2>1. /\ MutexType' /\ Queues' /\ (Sent \cap woken = {})'
        /\ Sent' \cup woken' = Sent \cup woken
        /\ \A n \in Mutexes : \A u \in Queued(n)' : mtx[u] = n
        /\ \A u \in woken' : owner'[mtx[u]] = u
        /\ \A u \in Threads \ {t} : Home(u) = "held" => owner'[mtx[u]] = u
    <3>1. t \notin woken BY <1>6
    <3> DEFINE m == mtx[t]
    <3>2. m \in Mutexes /\ owner[m] = t /\ Give(m) BY <1>0, <1>1
    <3> HIDE DEF m
    <3> QED BY <3>1, <3>2, Before, GiveKeeps
  <2> QED BY <2>1 DEF MutexStep
<1>8. SameMutex(t) BY <1>6, <1>7 DEF SameMutex
<1>9. FifoStep(t) /\ Fifo' = Fifo BY <1>0, <1>5, <1>6, SameFifo
<1>10. BatchStep(t) /\ Sending' = Sending BY <1>0, <1>5, <1>6, SameBatch
<1>11. Home(t)' = "idle" BY <1>3 DEF Home
<1>12. CtlOK(t)' BY <1>0, <1>1, <1>2, <1>3, <1>6, <1>11 DEF CtlOK
<1>13. Apart' BY <1>2, <1>6, <1>7, <1>9, <1>10 DEF Apart, MutexStep
<1>14. TakenInv' BY <1>0, <1>2, <1>7, <1>10 DEF TakenInv
<1> QED BY <1>3, <1>4, <1>5, <1>7, <1>8, <1>9, <1>10, <1>11, <1>12, <1>13, <1>14, Assemble

(* wait(): the record enters the fifo, then the mutex is released.            *)
LEMMA WaitKeeps ==
  ASSUME IInv, NEW t \in Threads, NEW b \in BOOLEAN, Wait(t, b)
  PROVE  IInv'
<1>0. /\ pc[t] = "held" /\ mtx' = mtx /\ batch' = batch /\ taken' = taken /\ ready' = ready /\ must' = must
      /\ ops > 0 /\ ops' = ops - 1 /\ \A u \in Threads : Waits(u) => mtx[u] = mtx[t]
  BY DEF Wait, At, CountCall
<1>2. ThreadType /\ RestType /\ CtlOK(t) /\ Apart /\ TakenInv /\ OwnInv /\ Single BY Before DEF CtlInv
<1>1. mtx[t] \in Mutexes /\ owner[mtx[t]] = t BY <1>0, <1>2 DEF CtlOK, Home, OwnInv
<1>6. t \notin Asleep /\ t \notin Fifo \cup Sending \cup Sent \cup woken
  <2>1. t \notin Asleep BY <1>0 DEF Asleep
  <2> QED BY <1>2, <2>1 DEF Apart
<1>a. CASE saved \notin {None, mtx[t]}
  <2>0. /\ aborted' = TRUE /\ owner' = owner /\ queue' = queue /\ woken' = woken /\ fifo' = fifo /\ saved' = saved
        /\ pc' = pc /\ timed' = timed /\ ret' = ret
    BY <1>a DEF Wait, mutex
  <2>3. ThreadType' BY <1>0, <1>2, <2>0 DEF ThreadType
  <2>4. RestType' BY <1>0, <1>2, <2>0, CondvarAssumption DEF RestType
  <2>5. Others(t) BY <1>0, <2>0 DEF Others
  <2>7. MutexStep(t) /\ Sent' = Sent BY <2>0, SameRecords
  <2>8. SameMutex(t) BY <1>0 DEF SameMutex
  <2>9. FifoStep(t) /\ Fifo' = Fifo BY <1>0, <2>0, <2>5, SameFifo
  <2>10. BatchStep(t) /\ Sending' = Sending BY <1>0, <2>5, SameBatch
  <2>11. Home(t)' = Home(t) /\ Asleep' = Asleep BY <1>0, <2>0 DEF Home, Asleep
  <2>12. CtlOK(t)' BY <1>0, <1>2, <2>0, <2>9, <2>11 DEF CtlOK
  <2>13. Apart' BY <1>2, <2>0, <2>7, <2>9, <2>10, <2>11 DEF Apart
  <2>14. TakenInv' BY <1>0, <1>2, <2>0, <2>7, <2>10 DEF TakenInv
  <2> QED BY <1>0, <1>1, <2>0, <2>3, <2>4, <2>5, <2>7, <2>8, <2>9, <2>10, <2>11, <2>12, <2>13, <2>14, Assemble
<1>b. CASE saved \in {None, mtx[t]}
  <2> DEFINE q == Append(fifo, t)
  <2>0. /\ fifo' = q /\ saved' = mtx[t] /\ Give(mtx[t]) /\ pc' = [pc EXCEPT ![t] = "sleep"]
        /\ timed' = (IF b THEN timed \cup {t} ELSE timed) /\ ret' = [ret EXCEPT ![t] = "none"] /\ aborted' = aborted
    BY <1>b DEF Wait, Goto
  <2>1. q \in Seq(Threads) /\ IsInjective(q) /\ ToSet(q) = ToSet(fifo) \cup {t}
    <3>1. fifo \in Seq(Threads) /\ IsInjective(fifo) /\ t \notin ToSet(fifo) BY <1>2, <1>6 DEF RestType, Single, Fifo
    <3> QED BY <3>1, AppendProperties, SetOfAppend, InjectiveAppend
  <2> HIDE DEF q
  <2>3. ThreadType' /\ pc'[t] = "sleep" /\ ret'[t] = "none" BY <1>0, <1>2, <2>0 DEF ThreadType, Labels
  <2>4. RestType' BY <1>0, <1>1, <1>2, <2>0, <2>1, CondvarAssumption DEF RestType
  <2>5. Others(t) BY <1>0, <1>2, <2>0 DEF Others, ThreadType
  <2>6. Asleep' = Asleep \cup {t} BY <2>3, <2>5 DEF Asleep, Others
  <2>7. MutexStep(t) /\ Sent' \cup woken' = Sent \cup woken
    <3>1. /\ MutexType' /\ Queues' /\ (Sent \cap woken = {})'
          /\ Sent' \cup woken' = Sent \cup woken
          /\ \A n \in Mutexes : \A u \in Queued(n)' : mtx[u] = n
          /\ \A u \in woken' : owner'[mtx[u]] = u
          /\ \A u \in Threads \ {t} : Home(u) = "held" => owner'[mtx[u]] = u
      <4>1. t \notin woken BY <1>6
      <4> DEFINE m == mtx[t]
      <4>2. m \in Mutexes /\ owner[m] = t /\ Give(m) BY <1>1, <2>0
      <4> HIDE DEF m
      <4> QED BY <4>1, <4>2, Before, GiveKeeps
    <3> QED BY <3>1 DEF MutexStep
  <2>8. SameMutex(t) BY <1>0 DEF SameMutex
  <2>9. FifoStep(t) /\ Fifo' = Fifo \cup {t}
    <3>1. Fifo' = Fifo \cup {t} BY <2>0, <2>1 DEF Fifo
    <3>2. \A u \in Fifo : u \in Threads /\ Waits(u) BY <1>2 DEF Apart, Asleep, Waits
    <3>3. \A u \in Fifo' : saved' = mtx'[u] BY <1>0, <2>0, <3>1, <3>2
    <3>4. IsInjective(fifo)' BY <2>0, <2>1
    <3> QED BY <3>1, <3>3, <3>4 DEF FifoStep
  <2>10. BatchStep(t) /\ Sending' = Sending BY <1>0, <2>5, SameBatch
  <2>11. Home(t)' = "sleep" BY <2>3 DEF Home
  <2>12. CtlOK(t)' BY <1>0, <1>1, <1>2, <2>3, <2>11 DEF CtlOK
  <2>13. Apart' BY <1>2, <1>6, <2>6, <2>7, <2>9, <2>10 DEF Apart, MutexStep
  <2>14. TakenInv' BY <1>0, <1>2, <2>7, <2>10 DEF TakenInv
  <2> QED BY <2>3, <2>4, <2>5, <2>7, <2>8, <2>9, <2>10, <2>11, <2>12, <2>13, <2>14, Assemble
<1> QED BY <1>a, <1>b

(* wait() returns with the mutex it was sent.                                 *)
LEMMA ReceivedKeeps ==
  ASSUME IInv, NEW t \in Threads, Received(t)
  PROVE  IInv'
<1>0. /\ pc[t] \in {"sleep", "rewait"} /\ t \in woken /\ pc' = [pc EXCEPT ![t] = "held"] /\ mtx' = mtx
      /\ ret' = [ret EXCEPT ![t] = "ok"] /\ owner' = owner /\ queue' = queue /\ woken' = woken \ {t}
      /\ fifo' = fifo /\ saved' = saved /\ timed' = timed \ {t} /\ batch' = batch /\ taken' = taken \ {t}
      /\ ready' = ready /\ must' = must /\ aborted' = aborted /\ ops' = ops
  BY DEF Received, Goto, mutex
<1>2. /\ ThreadType /\ RestType /\ MutexType /\ Queues /\ CtlOK(t) /\ Apart /\ TakenInv /\ OwnInv /\ MtxInv
  BY Before DEF CtlInv
<1>1. mtx[t] \in Mutexes /\ owner[mtx[t]] = t BY <1>0, <1>2 DEF CtlOK, Home, OwnInv
<1>3. ThreadType' /\ pc'[t] = "held" /\ ret'[t] = "ok" BY <1>0, <1>2 DEF ThreadType, Labels
<1>4. RestType' BY <1>0, <1>2 DEF RestType
<1>5. Others(t) BY <1>0, <1>2 DEF Others, ThreadType
<1>6. Asleep' = Asleep \ {t} /\ t \notin Fifo \cup Sending \cup Sent
  <2>1. Asleep' = Asleep \ {t} BY <1>0, <1>3, <1>5 DEF Asleep, Others
  <2> QED BY <1>0, <1>2, <2>1 DEF Apart
<1>7. MutexStep(t) /\ Sent' = Sent
  <2>1. Sent' = Sent /\ \A n \in Mutexes : Queued(n)' = Queued(n) BY <1>0 DEF Sent, Queued
  <2>2. MutexType' /\ Queues' BY <1>0, <1>2 DEF MutexType, Queues
  <2>3. (Sent \cap woken = {})' BY <1>0, <1>2, <2>1 DEF Apart
  <2> QED BY <1>0, <1>2, <2>1, <2>2, <2>3 DEF MutexStep, MtxInv, OwnInv
<1>8. SameMutex(t) BY <1>0 DEF SameMutex
<1>9. FifoStep(t) /\ Fifo' = Fifo BY <1>0, <1>5, SameFifo
<1>10. BatchStep(t) /\ Sending' = Sending BY <1>0, <1>5, SameBatch
<1>11. Home(t)' = "held" BY <1>3 DEF Home
<1>12. CtlOK(t)' BY <1>0, <1>1, <1>2, <1>3, <1>6, <1>11 DEF CtlOK
<1>13. Apart' BY <1>0, <1>2, <1>6, <1>7, <1>9, <1>10 DEF Apart
<1>14. TakenInv' BY <1>0, <1>2, <1>6, <1>7, <1>10 DEF TakenInv
<1> QED BY <1>0, <1>1, <1>3, <1>4, <1>5, <1>7, <1>8, <1>9, <1>10, <1>11, <1>12, <1>13, <1>14, Assemble

(* The timer of a wait expires.                                               *)
LEMMA ExpireKeeps ==
  ASSUME IInv, NEW t \in Threads, Expire(t)
  PROVE  IInv'
<1>0. /\ pc[t] = "sleep" /\ pc' = [pc EXCEPT ![t] = "expired"] /\ mtx' = mtx
      /\ owner' = owner /\ queue' = queue /\ woken' = woken
      /\ fifo' = fifo /\ saved' = saved /\ timed' = timed \ {t} /\ ret' = ret /\ batch' = batch /\ taken' = taken
      /\ ready' = ready /\ must' = must /\ aborted' = aborted /\ ops' = ops
  BY DEF Expire, At, Goto, mutex
<1>2. ThreadType /\ RestType /\ CtlOK(t) /\ Apart /\ TakenInv BY Before DEF CtlInv
<1>1. mtx[t] \in Mutexes BY <1>0, <1>2 DEF CtlOK, Home
<1>3. ThreadType' /\ pc'[t] = "expired" BY <1>0, <1>2 DEF ThreadType, Labels
<1>4. RestType' BY <1>0, <1>2 DEF RestType
<1>5. Others(t) BY <1>0, <1>2 DEF Others, ThreadType
<1>6. t \in Asleep /\ Asleep' = Asleep BY <1>0, <1>2, <1>3, <1>5 DEF Asleep, Others
<1>7. MutexStep(t) /\ Sent' = Sent BY <1>0, SameRecords
<1>8. SameMutex(t) BY <1>0 DEF SameMutex
<1>9. FifoStep(t) /\ Fifo' = Fifo BY <1>0, <1>5, SameFifo
<1>10. BatchStep(t) /\ Sending' = Sending BY <1>0, <1>5, SameBatch
<1>11. Home(t)' = "expired" BY <1>3 DEF Home
<1>12. CtlOK(t)' BY <1>0, <1>1, <1>2, <1>3, <1>6, <1>11 DEF CtlOK
<1>13. Apart' BY <1>0, <1>2, <1>6, <1>7, <1>9, <1>10 DEF Apart
<1>14. TakenInv' BY <1>0, <1>2, <1>7, <1>10 DEF TakenInv
<1> QED BY <1>0, <1>3, <1>4, <1>5, <1>7, <1>8, <1>9, <1>10, <1>11, <1>12, <1>13, <1>14, Assemble

(* After a timeout: the record is removed, or a waker has it.                 *)
LEMMA TakeOutKeeps ==
  ASSUME IInv, NEW t \in Threads, TakeOut(t)
  PROVE  IInv'
<1>0. /\ pc[t] = "expired" /\ mtx' = mtx /\ owner' = owner /\ queue' = queue /\ woken' = woken
      /\ saved' = saved /\ timed' = timed /\ batch' = batch /\ taken' = taken
      /\ ready' = ready /\ must' = must /\ aborted' = aborted /\ ops' = ops
  BY DEF TakeOut, At, mutex
<1>2. ThreadType /\ RestType /\ CtlOK(t) /\ Apart /\ TakenInv /\ Single /\ MtxInv BY Before DEF CtlInv
<1>1. mtx[t] \in Mutexes BY <1>0, <1>2 DEF CtlOK, Home
<1>7. MutexStep(t) /\ Sent' = Sent BY <1>0, SameRecords
<1>8. SameMutex(t) BY <1>0 DEF SameMutex
<1>a. CASE \E i \in 1..Len(fifo) : /\ fifo[i] = t /\ fifo' = RemoveAt(fifo, i)
                                   /\ ret' = [ret EXCEPT ![t] = "ETIMEDOUT"] /\ Goto(t, "relock")
  <2>1. PICK i \in 1..Len(fifo) : /\ fifo[i] = t /\ fifo' = RemoveAt(fifo, i)
                                  /\ ret' = [ret EXCEPT ![t] = "ETIMEDOUT"] /\ pc' = [pc EXCEPT ![t] = "relock"]
    BY <1>a DEF Goto
  <2>2. /\ fifo' \in Seq(Threads) /\ IsInjective(fifo') /\ ToSet(fifo') = ToSet(fifo) \ {t} /\ t \in ToSet(fifo)
    <3>1. fifo \in Seq(Threads) /\ IsInjective(fifo) BY <1>2 DEF RestType, Single
    <3> QED BY <2>1, <3>1, Removed
  <2>3. ThreadType' /\ pc'[t] = "relock" BY <1>0, <1>2, <2>1 DEF ThreadType, Labels
  <2>4. RestType' BY <1>0, <1>2, <2>2 DEF RestType
  <2>5. Others(t) BY <1>0, <1>2, <2>1 DEF Others, ThreadType
  <2>6. Asleep' = Asleep \ {t} BY <2>3, <2>5 DEF Asleep, Others
  <2>9. FifoStep(t) /\ Fifo' = Fifo \ {t} /\ t \in Fifo
    BY <1>0, <1>2, <2>2 DEF FifoStep, Fifo, MtxInv
  <2>10. BatchStep(t) /\ Sending' = Sending BY <1>0, <2>5, SameBatch
  <2>11. Home(t)' = "relock" BY <2>3 DEF Home
  <2>12. CtlOK(t)' BY <1>0, <1>1, <1>2, <2>3, <2>6, <2>11 DEF CtlOK
  <2>13. Apart' BY <1>0, <1>2, <1>7, <2>6, <2>9, <2>10 DEF Apart
  <2>14. TakenInv' BY <1>0, <1>2, <1>7, <2>10 DEF TakenInv
  <2> QED BY <1>7, <1>8, <2>3, <2>4, <2>5, <2>9, <2>10, <2>11, <2>12, <2>13, <2>14, Assemble
<1>b. CASE ~Contains(fifo, t) /\ Goto(t, "rewait") /\ fifo' = fifo /\ ret' = ret
  <2>1. pc' = [pc EXCEPT ![t] = "rewait"] BY <1>b DEF Goto
  <2>2. t \notin Fifo
    <3>1. fifo \in Seq(Threads) BY <1>2 DEF RestType
    <3>2. DOMAIN fifo = 1..Len(fifo) BY <3>1, LenProperties
    <3> QED BY <1>b, <3>2 DEF Contains, Fifo, ToSet
  <2>3. ThreadType' /\ pc'[t] = "rewait" BY <1>0, <1>b, <1>2, <2>1 DEF ThreadType, Labels
  <2>4. RestType' BY <1>0, <1>b, <1>2 DEF RestType
  <2>5. Others(t) BY <1>0, <1>b, <1>2, <2>1 DEF Others, ThreadType
  <2>6. Asleep' = Asleep /\ t \in Asleep BY <1>0, <2>3, <2>5 DEF Asleep, Others
  <2>9. FifoStep(t) /\ Fifo' = Fifo BY <1>0, <1>b, <2>5, SameFifo
  <2>10. BatchStep(t) /\ Sending' = Sending BY <1>0, <2>5, SameBatch
  <2>11. Home(t)' = "rewait" BY <2>3 DEF Home
  <2>12. CtlOK(t)' BY <1>0, <1>b, <1>1, <1>2, <2>2, <2>3, <2>6, <2>9, <2>11 DEF CtlOK
  <2>13. Apart' BY <1>0, <1>2, <1>7, <2>6, <2>9, <2>10 DEF Apart
  <2>14. TakenInv' BY <1>0, <1>2, <1>7, <2>10 DEF TakenInv
  <2> QED BY <1>7, <1>8, <2>3, <2>4, <2>5, <2>9, <2>10, <2>11, <2>12, <2>13, <2>14, Assemble
<1> QED BY <1>a, <1>b DEF TakeOut

(* The client makes its condition true.                                       *)
LEMMA SetReadyKeeps ==
  ASSUME IInv, NEW t \in Threads, SetReady(t)
  PROVE  IInv'
<1>0. /\ pc[t] = "held" /\ pc' = pc /\ mtx' = mtx /\ owner' = owner /\ queue' = queue /\ woken' = woken
      /\ fifo' = fifo /\ saved' = saved /\ timed' = timed /\ ret' = ret /\ batch' = batch /\ taken' = taken
      /\ ready' = ready \cup {mtx[t]} /\ must' = must \cup {t} /\ aborted' = aborted /\ ops > 0 /\ ops' = ops - 1
  BY DEF SetReady, At, mutex, CountCall
<1>2. ThreadType /\ RestType /\ CtlOK(t) /\ Apart /\ TakenInv /\ OwnInv BY Before DEF CtlInv
<1>1. mtx[t] \in Mutexes BY <1>0, <1>2 DEF CtlOK, Home
<1>3. ThreadType' BY <1>0, <1>2 DEF ThreadType
<1>4. RestType' BY <1>0, <1>1, <1>2, CondvarAssumption DEF RestType
<1>5. Others(t) BY <1>0 DEF Others
<1>7. MutexStep(t) /\ Sent' = Sent BY <1>0, SameRecords
<1>8. SameMutex(t) BY <1>0 DEF SameMutex
<1>9. FifoStep(t) /\ Fifo' = Fifo BY <1>0, <1>5, SameFifo
<1>10. BatchStep(t) /\ Sending' = Sending BY <1>0, <1>5, SameBatch
<1>11. Home(t)' = Home(t) /\ Asleep' = Asleep BY <1>0 DEF Home, Asleep
<1>12. CtlOK(t)' BY <1>0, <1>2, <1>9, <1>11 DEF CtlOK
<1>13. Apart' BY <1>0, <1>2, <1>7, <1>9, <1>10, <1>11 DEF Apart
<1>14. TakenInv' BY <1>0, <1>2, <1>7, <1>10 DEF TakenInv
<1>15. Home(t)' = "held" => owner'[mtx'[t]] = t BY <1>0, <1>2, <1>11 DEF OwnInv
<1> QED BY <1>3, <1>4, <1>5, <1>7, <1>8, <1>9, <1>10, <1>12, <1>13, <1>14, <1>15, Assemble

(* wake_one and wake_all look at the fifo without _m.                         *)
LEMMA LookKeeps ==
  ASSUME IInv, NEW t \in Threads, NEW l \in {"one", "all"}, pc[t] \in {"idle", "held"}, Look(t, l),
         must' \in SUBSET Threads, ops' \in 0..MaxOps
  PROVE  IInv'
<1>0. /\ mtx' = mtx /\ owner' = owner /\ queue' = queue /\ woken' = woken
      /\ fifo' = fifo /\ saved' = saved /\ timed' = timed /\ ret' = ret /\ taken' = taken
      /\ ready' = ready /\ aborted' = aborted
  BY DEF Look, mutex
<1>2. ThreadType /\ RestType /\ CtlOK(t) /\ Apart /\ TakenInv /\ OwnInv BY Before DEF CtlInv
<1>4. RestType' BY <1>0, <1>2 DEF RestType
<1>7. MutexStep(t) /\ Sent' = Sent BY <1>0, SameRecords
<1>8. SameMutex(t) BY <1>0 DEF SameMutex
<1>a. CASE pc' = pc /\ batch' = batch
  <2>3. ThreadType' BY <1>0, <1>2, <1>a DEF ThreadType
  <2>5. Others(t) BY <1>0, <1>a DEF Others
  <2>9. FifoStep(t) /\ Fifo' = Fifo BY <1>0, <2>5, SameFifo
  <2>10. BatchStep(t) /\ Sending' = Sending BY <1>0, <1>a, <2>5, SameBatch
  <2>11. Home(t)' = Home(t) /\ Asleep' = Asleep BY <1>a DEF Home, Asleep
  <2>12. CtlOK(t)' BY <1>0, <1>a, <1>2, <2>9, <2>11 DEF CtlOK
  <2>13. Apart' BY <1>0, <1>2, <1>7, <2>9, <2>10, <2>11 DEF Apart
  <2>14. TakenInv' BY <1>0, <1>2, <1>7, <2>10 DEF TakenInv
  <2>15. Home(t)' = "held" => owner'[mtx'[t]] = t BY <1>0, <1>2, <2>11 DEF OwnInv
  <2> QED BY <1>4, <1>7, <1>8, <2>3, <2>5, <2>9, <2>10, <2>12, <2>13, <2>14, <2>15, Assemble
<1>b. CASE Goto(t, l) /\ batch' = [batch EXCEPT ![t] = [NoBatch EXCEPT !.home = pc[t]]]
  <2> DEFINE b == [NoBatch EXCEPT !.home = pc[t]]
  <2>1. b \in Batch /\ b.list = <<>> /\ b.home = pc[t]
    <3>1. <<>> \in Seq(Threads) BY EmptySeq
    <3>2. b = [list |-> <<>>, from |-> 1, mutex |-> None, home |-> pc[t]] BY DEF NoBatch
    <3> HIDE DEF b
    <3>3. b \in Batch BY <3>1, <3>2 DEF Batch
    <3> QED BY <3>2, <3>3
  <2>2. pc' = [pc EXCEPT ![t] = l] /\ batch' = [batch EXCEPT ![t] = b] BY <1>b DEF Goto
  <2> HIDE DEF b
  <2>3. ThreadType' /\ pc'[t] = l /\ batch'[t] = b BY <1>0, <1>2, <2>1, <2>2 DEF ThreadType, Labels
  <2>5. Others(t) BY <1>0, <1>2, <2>2 DEF Others, ThreadType
  <2>6. Asleep' = Asleep /\ t \notin Asleep' BY <2>3, <2>5 DEF Asleep, Others
  <2>9. FifoStep(t) /\ Fifo' = Fifo BY <1>0, <2>5, SameFifo
  <2>10. BatchStep(t) /\ Sending' = Sending
    <3>1. batch[t].list = <<>> BY <1>2 DEF CtlOK
    <3>2. ToSet(<<>>) = {} /\ IsInjective(<<>>) BY DEF ToSet, IsInjective
    <3>3. BatchStep(t) BY <2>1, <2>3, <3>2 DEF BatchStep
    <3>4. \A u \in Threads : batch'[u].list = batch[u].list BY <2>1, <2>3, <2>5, <3>1 DEF Others
    <3> QED BY <3>3, <3>4 DEF Sending
  <2>11. Home(t)' = Home(t) BY <2>1, <2>3 DEF Home
  <2>12. CtlOK(t)' BY <1>0, <1>2, <2>1, <2>3, <2>6, <2>11 DEF CtlOK
  <2>13. Apart' BY <1>0, <1>2, <1>7, <2>6, <2>9, <2>10 DEF Apart
  <2>14. TakenInv' BY <1>0, <1>2, <1>7, <2>10 DEF TakenInv
  <2>15. Home(t)' = "held" => owner'[mtx'[t]] = t BY <1>0, <1>2, <2>11 DEF OwnInv
  <2> QED BY <1>4, <1>7, <1>8, <2>3, <2>5, <2>9, <2>10, <2>12, <2>13, <2>14, <2>15, Assemble
<1> QED BY <1>a, <1>b DEF Look

(* The same of wake_one.                                                      *)
LEMMA LookOneKeeps ==
  ASSUME IInv, NEW t \in Threads, LookOne(t)
  PROVE  IInv'
<1>1. RestType BY Before
<1>2. pc[t] \in {"idle", "held"} /\ Look(t, "one") BY DEF LookOne, At
<1>3. must' \in SUBSET Threads /\ ops' \in 0..MaxOps
  BY <1>1, CondvarAssumption DEF LookOne, CountCall, RestType
<1> QED BY <1>2, <1>3, LookKeeps

(* The same of wake_all.                                                      *)
LEMMA LookAllKeeps ==
  ASSUME IInv, NEW t \in Threads, LookAll(t)
  PROVE  IInv'
<1>1. RestType BY Before
<1>2. pc[t] \in {"idle", "held"} /\ Look(t, "all") BY DEF LookAll, At
<1>3. must' \in SUBSET Threads /\ ops' \in 0..MaxOps
  BY <1>1, CondvarAssumption DEF LookAll, CountCall, RestType
<1> QED BY <1>2, <1>3, LookKeeps

(* wake_one and wake_all return to where they were called.                    *)
LEMMA ReturnKeeps ==
  ASSUME ThreadType, NEW t \in Threads, pc[t] \in {"one", "all", "send"}, Return(t), mtx' = mtx, ret' = ret
  PROVE  /\ ThreadType' /\ Others(t) /\ batch'[t].list = <<>> /\ pc'[t] \in {"idle", "held"}
         /\ Home(t)' = Home(t) /\ Asleep' = Asleep /\ t \notin Asleep'
<1>1. <<>> \in Seq(Threads) BY EmptySeq
<1>2. NoBatch \in Batch /\ NoBatch.list = <<>> BY <1>1 DEF NoBatch, Batch
<1>3. batch[t].home \in {"idle", "held"} BY DEF ThreadType, Batch
<1>4. pc' = [pc EXCEPT ![t] = batch[t].home] /\ batch' = [batch EXCEPT ![t] = NoBatch] BY DEF Return, Goto
<1>5. ThreadType' BY <1>2, <1>3, <1>4 DEF ThreadType, Labels
<1>6. Others(t) /\ pc'[t] = batch[t].home /\ batch'[t] = NoBatch BY <1>4 DEF Others, ThreadType
<1>7. Home(t)' = Home(t) BY <1>3, <1>6 DEF Home
<1>8. Asleep' = Asleep /\ t \notin Asleep' BY <1>3, <1>6 DEF Asleep, Others
<1> QED BY <1>2, <1>3, <1>5, <1>6, <1>7, <1>8

(* wake_one sends the oldest record.                                          *)
LEMMA WakeOneKeeps ==
  ASSUME IInv, NEW t \in Threads, WakeOne(t)
  PROVE  IInv'
<1>0. /\ pc[t] = "one" /\ Return(t) /\ mtx' = mtx /\ timed' = timed /\ ret' = ret
      /\ ready' = ready /\ must' = must /\ aborted' = aborted /\ ops' = ops
  BY DEF WakeOne, At
<1>2. ThreadType /\ RestType /\ CtlOK(t) /\ Apart /\ TakenInv /\ OwnInv /\ MtxInv /\ Single /\ CtlInv BY Before DEF CtlInv
<1>3. /\ ThreadType' /\ Others(t) /\ batch'[t].list = <<>> /\ pc'[t] \in {"idle", "held"}
      /\ Home(t)' = Home(t) /\ Asleep' = Asleep /\ t \notin Asleep'
  BY <1>0, <1>2, ReturnKeeps
<1>8. SameMutex(t) BY <1>0 DEF SameMutex
<1>10. BatchStep(t) /\ Sending' = Sending
  <2>1. batch[t].list = <<>> BY <1>0, <1>2 DEF CtlOK
  <2>2. ToSet(<<>>) = {} /\ IsInjective(<<>>) BY DEF ToSet, IsInjective
  <2>3. BatchStep(t) BY <1>3, <2>2 DEF BatchStep
  <2>4. \A u \in Threads : batch'[u].list = batch[u].list BY <1>3, <2>1 DEF Others
  <2> QED BY <2>3, <2>4 DEF Sending
<1>12. CtlOK(t)'
  <2>1. Home(t)' # "idle" => mtx'[t] \in Mutexes BY <1>0, <1>2, <1>3 DEF CtlOK
  <2> QED BY <1>3, <2>1 DEF CtlOK
<1>a. CASE fifo = <<>>
  <2>0. owner' = owner /\ queue' = queue /\ fifo' = fifo /\ saved' = saved /\ woken' = woken /\ taken' = taken
    BY <1>a DEF WakeOne, mutex
  <2>4. RestType' BY <1>0, <1>2, <2>0 DEF RestType
  <2>7. MutexStep(t) /\ Sent' = Sent BY <2>0, SameRecords
  <2>9. FifoStep(t) /\ Fifo' = Fifo BY <1>0, <1>3, <2>0, SameFifo
  <2>13. Apart' BY <1>2, <1>3, <1>10, <2>0, <2>7, <2>9 DEF Apart
  <2>14. TakenInv' BY <1>2, <1>10, <2>0, <2>7 DEF TakenInv
  <2>15. Home(t)' = "held" => owner'[mtx'[t]] = t BY <1>0, <1>2, <1>3, <2>0 DEF OwnInv
  <2> QED BY <1>3, <1>8, <1>10, <1>12, <2>4, <2>7, <2>9, <2>13, <2>14, <2>15, Assemble
<1>b. CASE fifo # <<>>
  <2> DEFINE h == Head(fifo)
             q == Tail(fifo)
  <2>0. /\ fifo' = q /\ taken' = taken \cup {h} /\ Ask(saved, <<h, "cond">>)
        /\ saved' = IF q = <<>> THEN None ELSE saved
    BY <1>b DEF WakeOne
  <2>1. q \in Seq(Threads) /\ IsInjective(q) /\ ToSet(q) = Fifo \ {h} /\ h \in Fifo /\ h \in Threads
    <3>1. fifo \in Seq(Threads) /\ IsInjective(fifo) BY <1>2 DEF RestType, Single
    <3> QED BY <1>b, <3>1, InjectiveTail, HeadTailProperties DEF Fifo
  <2> HIDE DEF h, q
  <2>2. h \in Asleep /\ h \notin Sent \cup woken /\ h \notin Sending BY <1>2, <2>1 DEF Apart
  <2>3. saved = mtx[h] /\ mtx[h] \in Mutexes
    <3>1. CtlOK(h) BY <1>2, <2>1 DEF CtlInv
    <3>2. Home(h) # "idle" BY <2>2 DEF Home, Asleep
    <3> QED BY <1>2, <2>1, <3>1, <3>2 DEF MtxInv, CtlOK
  <2>4. RestType' BY <1>0, <1>2, <2>0, <2>1 DEF RestType
  <2>7. /\ MutexType' /\ Queues' /\ (Sent \cap woken = {})'
        /\ Sent' \cup woken' = Sent \cup woken \cup (IF "cond" = "cond" THEN {h} ELSE {})
        /\ \A n \in Mutexes : \A u \in Queued(n)' : mtx[u] = n
        /\ \A u \in woken' : owner'[mtx[u]] = u
        /\ \A u \in Threads : Home(u) = "held" => owner'[mtx[u]] = u
    <3>1. saved \in Mutexes /\ mtx[h] = saved BY <2>3
    <3> QED BY <2>0, <2>1, <2>2, <3>1, Before, AskKeeps
  <2>8. MutexStep(t) /\ Sent' \cup woken' = Sent \cup woken \cup {h} BY <2>7 DEF MutexStep
  <2>9. FifoStep(t) /\ Fifo' = Fifo \ {h}
    <3>1. Fifo' = Fifo \ {h} BY <2>0, <2>1 DEF Fifo
    <3>2. \A u \in Fifo' : saved' = mtx'[u]
      <4>1. ASSUME q = <<>> PROVE Fifo' = {} BY <2>0, <4>1 DEF Fifo, ToSet
      <4> QED BY <1>0, <1>2, <2>0, <3>1, <4>1 DEF MtxInv
    <3>3. IsInjective(fifo)' BY <2>0, <2>1
    <3> QED BY <3>1, <3>2, <3>3 DEF FifoStep
  <2>13. Apart' BY <1>2, <1>3, <1>10, <2>1, <2>2, <2>8, <2>9 DEF Apart, MutexStep
  <2>14. TakenInv' BY <1>2, <1>10, <2>0, <2>8 DEF TakenInv
  <2>15. Home(t)' = "held" => owner'[mtx'[t]] = t BY <1>0, <1>3, <2>7
  <2> QED BY <1>3, <1>8, <1>10, <1>12, <2>4, <2>8, <2>9, <2>13, <2>14, <2>15, Assemble
<1> QED BY <1>a, <1>b

(* wake_all takes the fifo.                                                   *)
LEMMA WakeAllKeeps ==
  ASSUME IInv, NEW t \in Threads, WakeAll(t)
  PROVE  IInv'
<1>0. /\ pc[t] = "all" /\ mtx' = mtx /\ timed' = timed /\ ret' = ret
      /\ fifo' = <<>> /\ saved' = None /\ taken' = taken \cup Fifo /\ owner' = owner /\ queue' = queue /\ woken' = woken
      /\ ready' = ready /\ must' = must /\ aborted' = aborted /\ ops' = ops
  BY DEF WakeAll, At, mutex, Fifo
<1>2. ThreadType /\ RestType /\ CtlOK(t) /\ Apart /\ TakenInv /\ OwnInv /\ MtxInv /\ Single BY Before DEF CtlInv
<1>1. fifo \in Seq(Threads) /\ Fifo \subseteq Threads /\ <<>> \in Seq(Threads)
  <2>1. fifo \in Seq(Threads) BY <1>2 DEF RestType
  <2> QED BY <2>1, EmptySeq DEF Fifo, ToSet
<1>e. ToSet(<<>>) = {} /\ IsInjective(<<>>) BY DEF ToSet, IsInjective
<1>4. RestType' BY <1>0, <1>1, <1>2 DEF RestType
<1>7. MutexStep(t) /\ Sent' = Sent BY <1>0, SameRecords
<1>8. SameMutex(t) BY <1>0 DEF SameMutex
<1>9. FifoStep(t) /\ Fifo' = {} BY <1>0, <1>e DEF FifoStep, Fifo
<1>b. batch[t].list = <<>> BY <1>0, <1>2 DEF CtlOK
<1>c. CASE fifo = <<>>
  <2>0. Return(t) /\ Fifo = {} BY <1>c, <1>e DEF WakeAll, Fifo
  <2>3. /\ ThreadType' /\ Others(t) /\ batch'[t].list = <<>> /\ pc'[t] \in {"idle", "held"}
        /\ Home(t)' = Home(t) /\ Asleep' = Asleep /\ t \notin Asleep'
    BY <1>0, <1>2, <2>0, ReturnKeeps
  <2>10. BatchStep(t) /\ Sending' = Sending
    <3>1. BatchStep(t) BY <1>e, <2>3 DEF BatchStep
    <3>2. \A u \in Threads : batch'[u].list = batch[u].list BY <1>b, <2>3 DEF Others
    <3> QED BY <3>1, <3>2 DEF Sending
  <2>12. CtlOK(t)'
    <3>1. Home(t)' # "idle" => mtx'[t] \in Mutexes BY <1>0, <1>2, <2>3 DEF CtlOK
    <3> QED BY <2>3, <3>1 DEF CtlOK
  <2>13. Apart' BY <1>0, <1>2, <1>7, <1>9, <2>0, <2>3, <2>10 DEF Apart
  <2>14. TakenInv' BY <1>0, <1>2, <1>7, <2>0, <2>10 DEF TakenInv
  <2>15. Home(t)' = "held" => owner'[mtx'[t]] = t BY <1>0, <1>2, <2>3 DEF OwnInv
  <2> QED BY <1>4, <1>7, <1>8, <1>9, <2>3, <2>10, <2>12, <2>13, <2>14, <2>15, Assemble
<1>d. CASE fifo # <<>>
  <2> DEFINE b == [batch[t] EXCEPT !.list = fifo, !.mutex = saved]
  <2>0. batch' = [batch EXCEPT ![t] = b] /\ pc' = [pc EXCEPT ![t] = "send"] BY <1>d DEF WakeAll, Goto
  <2>1. b \in Batch /\ b.list = fifo /\ b.mutex = saved /\ b.home = batch[t].home
    <3>1. batch[t] \in Batch /\ saved \in Mutexes \cup {None} BY <1>2 DEF ThreadType, RestType
    <3>2. b \in Batch BY <1>1, <3>1 DEF Batch
    <3> QED BY <3>1, <3>2 DEF Batch
  <2> HIDE DEF b
  <2>3. ThreadType' /\ pc'[t] = "send" /\ batch'[t] = b /\ Others(t)
    BY <1>0, <1>2, <2>0, <2>1 DEF ThreadType, Labels, Others
  <2>6. Asleep' = Asleep /\ t \notin Asleep' BY <1>0, <2>3 DEF Asleep, Others
  <2>10. BatchStep(t) /\ Sending' = Sending \cup Fifo
    <3>1. \A u \in Threads : ToSet(batch[u].list) \cap Fifo = {}
      <4>1. \A u \in Threads : \A w \in ToSet(batch[u].list) : w \in Fifo => w \in Sending BY <1>1 DEF Sending
      <4> QED BY <1>2, <4>1 DEF Apart
    <3>2. ToSet(batch'[t].list) = Fifo BY <2>1, <2>3 DEF Fifo
    <3>3. IsInjective(batch'[t].list) BY <1>2, <2>1, <2>3 DEF Single
    <3>4. \A u \in Fifo : batch'[t].mutex = mtx'[u] BY <1>0, <1>2, <2>1, <2>3 DEF MtxInv
    <3>5. BatchStep(t) BY <3>1, <3>2, <3>3, <3>4 DEF BatchStep
    <3>6. ToSet(batch[t].list) = {} BY <1>b, <1>e
    <3>7. Sending' = Sending \cup Fifo BY <1>1, <2>3, <3>2, <3>6 DEF Sending, Others
    <3> QED BY <3>5, <3>7
  <2>11. Home(t)' = Home(t) BY <1>0, <2>1, <2>3 DEF Home
  <2>12. CtlOK(t)' BY <1>0, <1>2, <1>d, <2>1, <2>3, <2>6, <2>11 DEF CtlOK
  <2>13. Apart' BY <1>0, <1>2, <1>7, <1>9, <2>6, <2>10 DEF Apart
  <2>14. TakenInv' BY <1>0, <1>2, <1>7, <2>10 DEF TakenInv
  <2>15. Home(t)' = "held" => owner'[mtx'[t]] = t BY <1>0, <1>2, <2>11 DEF OwnInv
  <2> QED BY <1>4, <1>7, <1>8, <1>9, <2>3, <2>10, <2>12, <2>13, <2>14, <2>15, Assemble
<1> QED BY <1>c, <1>d

(* wake_all sends one record of its list.                                     *)
LEMMA SendKeeps ==
  ASSUME IInv, NEW t \in Threads, NEW i \in 1..Len(batch[t].list), Send(t, i)
  PROVE  IInv'
<1> DEFINE b == batch[t]
           h == b.list[i]
           q == RemoveAt(b.list, i)
<1>0. /\ pc[t] = "send" /\ mtx' = mtx /\ timed' = timed /\ ret' = ret
      /\ fifo' = fifo /\ saved' = saved /\ taken' = taken /\ Ask(b.mutex, <<h, "cond">>)
      /\ ready' = ready /\ must' = must /\ aborted' = aborted /\ ops' = ops
  BY DEF Send, At
<1>x. \/ Len(b.list) = 1 /\ Return(t)
      \/ Len(b.list) # 1 /\ batch' = [batch EXCEPT ![t] = [b EXCEPT !.list = q, !.from = i]] /\ pc' = pc
  BY DEF Send
<1>2. ThreadType /\ RestType /\ CtlOK(t) /\ Apart /\ TakenInv /\ OwnInv /\ MtxInv /\ Single /\ CtlInv BY Before DEF CtlInv
<1>1. b \in Batch /\ b.list \in Seq(Threads) /\ IsInjective(b.list) BY <1>2 DEF ThreadType, Batch, Single
<1>3. /\ q \in Seq(Threads) /\ IsInjective(q) /\ ToSet(q) = ToSet(b.list) \ {h} /\ h \in ToSet(b.list)
      /\ q = <<>> <=> Len(b.list) = 1
  BY <1>1, Removed
<1>4. h \in Threads /\ i \in Nat \ {0} /\ Len(b.list) \in Nat BY <1>1, ElementOfSeq, LenProperties
<1> HIDE DEF h, q
<1>5. h \in Sending /\ h \in Asleep /\ h \notin Sent \cup woken /\ h \notin Fifo
  <2>1. h \in Sending BY <1>3, <1>4 DEF Sending
  <2> QED BY <1>2, <2>1 DEF Apart
<1>6. b.mutex = mtx[h] /\ mtx[h] \in Mutexes
  <2>1. CtlOK(h) BY <1>2, <1>4 DEF CtlInv
  <2>2. Home(h) # "idle" BY <1>5 DEF Home, Asleep
  <2> QED BY <1>2, <1>3, <2>1, <2>2 DEF MtxInv, CtlOK
<1>7. /\ MutexType' /\ Queues' /\ (Sent \cap woken = {})'
      /\ Sent' \cup woken' = Sent \cup woken \cup (IF "cond" = "cond" THEN {h} ELSE {})
      /\ \A n \in Mutexes : \A u \in Queued(n)' : mtx[u] = n
      /\ \A u \in woken' : owner'[mtx[u]] = u
      /\ \A u \in Threads : Home(u) = "held" => owner'[mtx[u]] = u
  <2> DEFINE m == b.mutex
  <2>1. m \in Mutexes /\ mtx[h] = m /\ Ask(m, <<h, "cond">>) BY <1>0, <1>6
  <2> HIDE DEF m
  <2> QED BY <1>4, <1>5, <2>1, Before, AskKeeps
<1>8. MutexStep(t) /\ Sent' \cup woken' = Sent \cup woken \cup {h} BY <1>7 DEF MutexStep
<1>9. SameMutex(t) BY <1>0 DEF SameMutex
<1>10. RestType' BY <1>0, <1>2 DEF RestType
<1>e. ToSet(<<>>) = {} BY DEF ToSet
<1>11. /\ ThreadType' /\ Others(t) /\ batch'[t].list = q /\ (q # <<>> => batch'[t].mutex = b.mutex)
       /\ Home(t)' = Home(t) /\ Asleep' = Asleep /\ t \notin Asleep'
       /\ (q # <<>> => pc'[t] = "send") /\ (q = <<>> => pc'[t] \in {"idle", "held"})
  <2>1. CASE Len(b.list) = 1 /\ Return(t)
    <3>1. q = <<>> BY <1>3, <2>1
    <3> QED BY <1>0, <1>2, <2>1, <3>1, ReturnKeeps
  <2>2. CASE Len(b.list) # 1 /\ batch' = [batch EXCEPT ![t] = [b EXCEPT !.list = q, !.from = i]] /\ pc' = pc
    <3> DEFINE c == [b EXCEPT !.list = q, !.from = i]
    <3>1. c \in Batch /\ c.list = q /\ c.mutex = b.mutex /\ c.home = b.home
      <4> HIDE DEF b
      <4>1. c \in Batch BY <1>1, <1>3, <1>4 DEF Batch
      <4> QED BY <1>1, <4>1 DEF Batch
    <3>2. batch' = [batch EXCEPT ![t] = c] BY <2>2
    <3> HIDE DEF c
    <3>3. ThreadType' /\ batch'[t] = c /\ Others(t) BY <1>0, <1>2, <2>2, <3>1, <3>2 DEF ThreadType, Others
    <3>4. Home(t)' = Home(t) /\ Asleep' = Asleep /\ t \notin Asleep' BY <1>0, <2>2, <3>1, <3>3 DEF Home, Asleep
    <3>5. q # <<>> BY <1>3, <2>2
    <3> QED BY <1>0, <2>2, <3>1, <3>3, <3>4, <3>5
  <2> QED BY <1>x, <2>1, <2>2
<1>12. FifoStep(t) /\ Fifo' = Fifo BY <1>0, <1>11, SameFifo
<1>13. BatchStep(t) /\ Sending' = Sending \ {h}
  <2>1. \A u \in Threads \ {t} : ToSet(batch[u].list) \cap ToSet(b.list) = {} BY <1>2 DEF Single
  <2>2. \A u \in ToSet(q) : batch'[t].mutex = mtx'[u] BY <1>0, <1>e, <1>2, <1>3, <1>11 DEF MtxInv
  <2>3. BatchStep(t) BY <1>3, <1>11, <2>1, <2>2 DEF BatchStep
  <2>4. ASSUME NEW u \in Threads \ {t} PROVE batch'[u].list = batch[u].list /\ h \notin ToSet(batch[u].list)
    BY <1>3, <1>11, <2>1 DEF Others
  <2>5. ToSet(batch'[t].list) = ToSet(batch[t].list) \ {h} BY <1>3, <1>11
  <2>6. ASSUME NEW u \in Threads PROVE ToSet(batch'[u].list) = ToSet(batch[u].list) \ {h}
    <3>1. CASE u = t BY <2>5, <3>1
    <3>2. CASE u # t BY <2>4, <3>2
    <3> QED BY <3>1, <3>2
  <2>7. Sending' = Sending \ {h} BY <2>6 DEF Sending
  <2> QED BY <2>3, <2>7
<1>14. CtlOK(t)'
  <2>1. Home(t)' # "idle" => mtx'[t] \in Mutexes BY <1>0, <1>2, <1>11 DEF CtlOK
  <2> QED BY <1>11, <2>1 DEF CtlOK
<1>15. Apart' BY <1>2, <1>5, <1>8, <1>11, <1>12, <1>13 DEF Apart, MutexStep
<1>16. TakenInv' BY <1>0, <1>2, <1>5, <1>8, <1>13 DEF TakenInv
<1>17. Home(t)' = "held" => owner'[mtx'[t]] = t BY <1>0, <1>7, <1>11
<1> QED BY <1>8, <1>9, <1>10, <1>11, <1>12, <1>13, <1>14, <1>15, <1>16, <1>17, Assemble
-----------------------------------------------------------------------------
(* In the initial state nobody waits and no mutex has an owner.               *)
LEMMA Starts == Init => IInv
<1> SUFFICES ASSUME Init PROVE IInv OBVIOUS
<1>1. <<>> \in Seq(Threads) /\ <<>> \in Seq(Records) BY EmptySeq
<1>e. ToSet(<<>>) = {} /\ IsInjective(<<>>) /\ CondOnce(<<>>) BY DEF ToSet, IsInjective, CondOnce
<1>2. NoBatch \in Batch /\ NoBatch.list = <<>> BY <1>1 DEF NoBatch, Batch
<1>3. MutexType
  <2> DEFINE q == <<>>
  <2>1. q \in Seq(Records) /\ queue = [m \in Mutexes |-> q] BY <1>1 DEF Init
  <2> HIDE DEF q
  <2>2. queue \in [Mutexes -> Seq(Records)] BY <2>1
  <2> QED BY <2>2 DEF Init, MutexType
<1>4. ThreadType BY <1>2 DEF Init, ThreadType, Labels
<1>5. RestType
  <2>1. fifo \in Seq(Threads) BY <1>1 DEF Init
  <2>2. MaxOps \in 0..MaxOps BY CondvarAssumption
  <2> QED BY <2>1, <2>2 DEF Init, RestType
<1>6. TypeOK BY <1>3, <1>4, <1>5, TypeParts
<1>7. /\ Fifo = {} /\ \A u \in Threads : pc[u] = "idle" /\ batch[u].list = <<>>
      /\ fifo = <<>> /\ woken = {} /\ taken = {} /\ \A m \in Mutexes : queue[m] = <<>>
  BY <1>e, <1>2 DEF Init, Fifo
<1>8. Sending = {} BY <1>e, <1>7 DEF Sending
<1>9. Sent = {} /\ \A m \in Mutexes : Queued(m) = {} BY <1>e, <1>7 DEF Sent, Queued
<1>10. Asleep = {} /\ \A t \in Threads : Home(t) = "idle" BY <1>7 DEF Asleep, Home
<1>11. CtlInv BY <1>7, <1>10 DEF CtlInv, CtlOK
<1>12. Single BY <1>e, <1>7 DEF Single
<1>13. Apart BY <1>7, <1>8, <1>9, <1>10 DEF Apart
<1>14. OwnInv BY <1>7, <1>10 DEF OwnInv
<1>15. MtxInv BY <1>e, <1>7, <1>9 DEF MtxInv
<1>16. TakenInv BY <1>7, <1>8, <1>9 DEF TakenInv
<1> QED BY <1>6, <1>11, <1>12, <1>13, <1>14, <1>15, <1>16 DEF IInv

(* A step that changes nothing keeps the invariant.                           *)
LEMMA Stutters == IInv /\ UNCHANGED vars => IInv'
<1> SUFFICES ASSUME IInv, UNCHANGED vars PROVE IInv' OBVIOUS
<1>0. /\ owner' = owner /\ queue' = queue /\ fifo' = fifo /\ saved' = saved /\ woken' = woken /\ pc' = pc
      /\ mtx' = mtx /\ timed' = timed /\ ret' = ret /\ batch' = batch /\ taken' = taken /\ ready' = ready
      /\ must' = must /\ aborted' = aborted /\ ops' = ops
  BY DEF vars, mutex
<1>1. TypeOK' BY <1>0 DEF IInv, TypeOK
<1>2. Asleep' = Asleep /\ Fifo' = Fifo /\ Sending' = Sending /\ \A t \in Threads : Home(t)' = Home(t)
  BY <1>0 DEF Asleep, Fifo, Sending, Home
<1>3. Sent' = Sent /\ \A m \in Mutexes : Queued(m)' = Queued(m) BY <1>0 DEF Sent, Queued
<1>4. CtlInv' BY <1>0, <1>2 DEF IInv, CtlInv, CtlOK
<1>5. Single' BY <1>0 DEF IInv, Single
<1>6. Apart' BY <1>0, <1>2, <1>3 DEF IInv, Apart
<1>7. OwnInv' BY <1>0, <1>2 DEF IInv, OwnInv
<1>8. MtxInv' BY <1>0, <1>2, <1>3 DEF IInv, MtxInv
<1>9. TakenInv' BY <1>0, <1>2, <1>3 DEF IInv, TakenInv
<1> QED BY <1>1, <1>4, <1>5, <1>6, <1>7, <1>8, <1>9 DEF IInv

(* Every step of every thread keeps the invariant.                            *)
LEMMA Inductive == IInv /\ [Next]_vars => IInv'
<1> SUFFICES ASSUME IInv, [Next]_vars PROVE IInv' OBVIOUS
<1>1. ASSUME NEW t \in Threads, Begin(t) PROVE IInv'
  <2>1. ASSUME NEW m \in Uses[t], Lock(t, m) PROVE IInv' BY <2>1, LockKeeps, CondvarAssumption
  <2> QED BY <1>1, <2>1, WaitKeeps, SetReadyKeeps, LookOneKeeps, LookAllKeeps DEF Begin
<1>2. ASSUME NEW t \in Threads, Step(t) PROVE IInv'
  BY <1>2, LockedKeeps, UnlockKeeps, ReceivedKeeps, ExpireKeeps, TakeOutKeeps, RelockKeeps, WakeOneKeeps,
     WakeAllKeeps, SendKeeps, LookAllKeeps DEF Step
<1>3. CASE UNCHANGED vars BY <1>3, Stutters
<1> QED BY <1>1, <1>2, <1>3 DEF Next

(* The invariant holds in every state.                                        *)
LEMMA Always == Spec => []IInv
BY Starts, Inductive, PTL DEF Spec

(* The fields of the condvar, of its mutexes and of its callers keep their    *)
(* types.                                                                     *)
THEOREM TypeCorrect == Spec => []TypeOK
<1>1. IInv => TypeOK BY DEF IInv
<1> QED BY <1>1, Always, PTL

(* condvar.cc: the wait_record on a waiter's stack is in exactly one place    *)
(* while wait() runs, a position of the fifo, of a waker's list or of the     *)
(* queue of the mutex, or woken, and nowhere once it has returned, after a    *)
(* wake-up or after a timeout.                                                *)
THEOREM RecordsPlaced == Spec => []NoDangling
<1>1. ASSUME IInv, NEW t \in Threads
      PROVE  /\ t \in Asleep => \E p \in Places(t) : Places(t) = {p}
             /\ t \notin Asleep => Places(t) = {}
  <2> DEFINE A == {"fifo"} \X {None} \X Positions(fifo, t)
             B == UNION {{"list"} \X {u} \X Positions(batch[u].list, t) : u \in Threads}
             C == UNION {{"queue"} \X {m} \X Positions(queue[m], <<t, "cond">>) : m \in Mutexes}
             D == IF t \in woken THEN {<<"woken", None, 0>>} ELSE {}
  <2>0. TypeOK /\ Single /\ Apart /\ MtxInv BY <1>1 DEF IInv
  <2>1. (A # {} <=> t \in Fifo) /\ \A p, r \in A : p = r
    <3>1. fifo \in Seq(Threads) /\ IsInjective(fifo) BY <2>0 DEF TypeOK, Single
    <3>2. /\ t \in ToSet(fifo) <=> Positions(fifo, t) # {}
          /\ \A i, j \in Positions(fifo, t) : i = j
      BY <3>1, PositionsOnce
    <3>3. \A p \in A : \E i \in Positions(fifo, t) : p = <<"fifo", None, i>> OBVIOUS
    <3>4. \A i \in Positions(fifo, t) : <<"fifo", None, i>> \in A OBVIOUS
    <3> HIDE DEF A
    <3>5. A # {} <=> Positions(fifo, t) # {} BY <3>3, <3>4
    <3>6. \A p, r \in A : p = r BY <3>2, <3>3
    <3> QED BY <3>2, <3>5, <3>6 DEF Fifo
  <2>2. (B # {} <=> t \in Sending) /\ \A p, r \in B : p = r
    <3>1. ASSUME NEW u \in Threads
          PROVE  /\ t \in ToSet(batch[u].list) <=> Positions(batch[u].list, t) # {}
                 /\ \A i, j \in Positions(batch[u].list, t) : i = j
      <4>1. batch[u].list \in Seq(Threads) /\ IsInjective(batch[u].list) BY <2>0 DEF TypeOK, Single
      <4> QED BY <4>1, PositionsOnce
    <3>2. ASSUME NEW p \in B
          PROVE  \E u \in Threads : \E i \in Positions(batch[u].list, t) : p = <<"list", u, i>> /\ t \in ToSet(batch[u].list)
      BY <3>1
    <3>3. ASSUME NEW p \in B, NEW r \in B PROVE p = r
      <4>1. PICK u \in Threads : \E i \in Positions(batch[u].list, t) : p = <<"list", u, i>> /\ t \in ToSet(batch[u].list)
        BY <3>2
      <4>2. PICK v \in Threads : \E i \in Positions(batch[v].list, t) : r = <<"list", v, i>> /\ t \in ToSet(batch[v].list)
        BY <3>2
      <4>3. u = v BY <2>0, <4>1, <4>2 DEF Single
      <4> QED BY <3>1, <4>1, <4>2, <4>3
    <3>4. ASSUME NEW u \in Threads, t \in ToSet(batch[u].list) PROVE B # {}
      <4>1. PICK i \in Positions(batch[u].list, t) : TRUE BY <3>1, <3>4
      <4>2. <<"list", u, i>> \in {"list"} \X {u} \X Positions(batch[u].list, t) OBVIOUS
      <4> QED BY <4>2
    <3> HIDE DEF B
    <3> QED BY <3>2, <3>3, <3>4 DEF Sending
  <2>3. (C # {} <=> t \in Sent) /\ \A p, r \in C : p = r
    <3> DEFINE c == <<t, "cond">>
    <3>0. c[2] = "cond" /\ \A m \in Mutexes : t \in Queued(m) <=> c \in ToSet(queue[m]) BY DEF Queued
    <3> HIDE DEF c
    <3>1. ASSUME NEW m \in Mutexes
          PROVE  /\ t \in Queued(m) <=> Positions(queue[m], c) # {}
                 /\ \A i, j \in Positions(queue[m], c) : i = j
      <4>1. queue[m] \in Seq(Records) /\ CondOnce(queue[m]) BY <2>0 DEF TypeOK, Single, Records
      <4> QED BY <3>0, <4>1, CondPositionsOnce
    <3>2. C = UNION {{"queue"} \X {m} \X Positions(queue[m], c) : m \in Mutexes} BY DEF c
    <3>3. ASSUME NEW p \in C
          PROVE  \E m \in Mutexes : \E i \in Positions(queue[m], c) : p = <<"queue", m, i>> /\ t \in Queued(m)
      BY <3>1, <3>2
    <3>4. ASSUME NEW p \in C, NEW r \in C PROVE p = r
      <4>1. PICK m \in Mutexes : \E i \in Positions(queue[m], c) : p = <<"queue", m, i>> /\ t \in Queued(m) BY <3>3
      <4>2. PICK n \in Mutexes : \E i \in Positions(queue[n], c) : r = <<"queue", n, i>> /\ t \in Queued(n) BY <3>3
      <4>3. m = n BY <2>0, <4>1, <4>2 DEF MtxInv
      <4> QED BY <3>1, <4>1, <4>2, <4>3
    <3>5. ASSUME NEW m \in Mutexes, t \in Queued(m) PROVE C # {}
      <4>1. PICK i \in Positions(queue[m], c) : TRUE BY <3>1, <3>5
      <4>2. <<"queue", m, i>> \in {"queue"} \X {m} \X Positions(queue[m], c) OBVIOUS
      <4> QED BY <3>2, <4>2
    <3> HIDE DEF C
    <3> QED BY <3>3, <3>4, <3>5 DEF Sent
  <2>4. (D # {} <=> t \in woken) /\ \A p, r \in D : p = r OBVIOUS
  <2>5. Places(t) = A \cup B \cup C \cup D BY DEF Places
  <2> HIDE DEF A, B, C, D
  <2>6. t \notin Asleep => Places(t) = {} BY <2>0, <2>1, <2>2, <2>3, <2>4, <2>5 DEF Apart
  <2>7. ASSUME t \in Asleep PROVE \E p \in Places(t) : Places(t) = {p}
    <3>1. CASE t \in Fifo
      <4>1. B = {} /\ C = {} /\ D = {} BY <2>0, <2>2, <2>3, <2>4, <3>1 DEF Apart
      <4> QED BY <2>1, <2>5, <3>1, <4>1
    <3>2. CASE t \in Sending
      <4>1. A = {} /\ C = {} /\ D = {} BY <2>0, <2>1, <2>3, <2>4, <3>2 DEF Apart
      <4> QED BY <2>2, <2>5, <3>2, <4>1
    <3>3. CASE t \in Sent
      <4>1. A = {} /\ B = {} /\ D = {} BY <2>0, <2>1, <2>2, <2>4, <3>3 DEF Apart
      <4> QED BY <2>3, <2>5, <3>3, <4>1
    <3>4. CASE t \in woken
      <4>1. A = {} /\ B = {} /\ C = {} BY <2>0, <2>1, <2>2, <2>3, <3>4 DEF Apart
      <4> QED BY <2>4, <2>5, <3>4, <4>1
    <3> QED BY <2>0, <2>7, <3>1, <3>2, <3>3, <3>4 DEF Apart
  <2> QED BY <2>6, <2>7
<1>2. IInv => NoDangling BY <1>1 DEF NoDangling, Asleep
<1> QED BY <1>2, Always, PTL

(* condvar.cc: the lock that wake_one and wake_all send is the waiter's own,  *)
(* though _user_mutex is read under _m and a waiter that timed out leaves it  *)
(* behind; who returns from wait() owns the mutex.                            *)
THEOREM WokenWithMutex == Spec => []WokenOwns
<1>1. ASSUME IInv PROVE WokenOwns
  <2>0. OwnInv /\ MtxInv /\ ThreadType /\ RestType BY <1>1, Before
  <2>1. ASSUME fifo # <<>> PROVE saved = mtx[fifo[1]]
    <3>1. fifo \in Seq(Threads) BY <2>0 DEF RestType
    <3>2. 1 \in DOMAIN fifo BY <2>1, <3>1, LenProperties, EmptySeq
    <3>3. fifo[1] \in Fifo BY <3>2 DEF Fifo, ToSet
    <3> QED BY <2>0, <3>3 DEF MtxInv
  <2>2. ASSUME NEW t \in Threads, NEW i \in 1..Len(batch[t].list) PROVE batch[t].mutex = mtx[batch[t].list[i]]
    <3>1. batch[t].list \in Seq(Threads) BY <2>0 DEF ThreadType, Batch
    <3>2. i \in DOMAIN batch[t].list BY <3>1, LenProperties
    <3>3. batch[t].list[i] \in ToSet(batch[t].list) BY <3>2 DEF ToSet
    <3> QED BY <2>0, <3>3 DEF MtxInv
  <2> QED BY <2>0, <2>1, <2>2 DEF WokenOwns, OwnInv
<1> QED BY <1>1, Always, PTL

(* condvar.h: wait() reports a timeout only when no waker took its record, so *)
(* wake_one() spends its wake-up on a waiter that returns 0.                  *)
THEOREM WakeNotSpentOnTimeout == Spec => []TimeoutTakesNoWake
<1>1. ASSUME IInv PROVE TimeoutTakesNoWake
  <2>0. CtlInv /\ Apart /\ TakenInv BY <1>1, Before
  <2>1. \A t \in Threads : CtlOK(t) BY <2>0 DEF CtlInv
  <2>2. taken \subseteq Asleep /\ woken \subseteq taken BY <2>0 DEF Apart, TakenInv
  <2>3. \A t \in Threads : ret[t] = "ETIMEDOUT" => t \notin taken BY <2>1, <2>2 DEF CtlOK
  <2>4. \A t \in Threads : pc[t] = "rewait" => t \in taken
    <3>1. ASSUME NEW t \in Threads, pc[t] = "rewait" PROVE t \in Asleep /\ t \notin Fifo
      BY <2>1, <3>1 DEF Asleep, CtlOK
    <3> QED BY <2>0, <3>1 DEF Apart, TakenInv
  <2> QED BY <2>2, <2>3, <2>4 DEF TimeoutTakesNoWake
<1> QED BY <1>1, Always, PTL

(* condvar.cc: wake_one and wake_all clear _user_mutex with the fifo; only    *)
(* the removal after a timeout leaves it set with nobody waiting.             *)
THEOREM OnlyTimeoutLeavesMutex == Spec => StaleOnlyByTimeout
<1> DEFINE A == fifo # <<>> /\ fifo' = <<>> /\ saved' # None =>
                  \E t \in Threads : pc[t] = "expired" /\ pc'[t] = "relock"
<1>1. ASSUME IInv, Next PROVE A
  <2> SUFFICES ASSUME fifo # <<>>, fifo' = <<>>, saved' # None
               PROVE  \E t \in Threads : pc[t] = "expired" /\ pc'[t] = "relock"
    OBVIOUS
  <2>0. fifo \in Seq(Threads) /\ pc \in [Threads -> Labels] BY <1>1, TypeParts DEF IInv, ThreadType, RestType
  <2>1. PICK t \in Threads : Begin(t) \/ Step(t) BY <1>1 DEF Next
  <2>2. fifo' # fifo OBVIOUS
  <2>3. ASSUME NEW m, Lock(t, m) PROVE FALSE BY <2>2, <2>3 DEF Lock
  <2>4. ASSUME NEW b, Wait(t, b) PROVE FALSE
    <3>1. fifo' = Append(fifo, t) BY <2>2, <2>4 DEF Wait
    <3> QED BY <2>0, <3>1, AppendProperties, EmptySeq
  <2>5. ~SetReady(t) /\ ~LookOne(t) /\ ~LookAll(t) BY <2>2 DEF SetReady, LookOne, LookAll, Look
  <2>6. ~Locked(t) /\ ~Unlock(t) /\ ~Received(t) /\ ~Expire(t) /\ ~Relock(t)
    BY <2>2 DEF Locked, Unlock, Received, Expire, Relock
  <2>7. ~WakeOne(t) BY <2>2 DEF WakeOne
  <2>8. ~WakeAll(t) BY DEF WakeAll
  <2>9. ASSUME NEW i, Send(t, i) PROVE FALSE BY <2>2, <2>9 DEF Send
  <2>10. TakeOut(t) BY <2>1, <2>3, <2>4, <2>5, <2>6, <2>7, <2>8, <2>9 DEF Begin, Step
  <2>11. pc[t] = "expired" /\ pc'[t] = "relock" BY <2>0, <2>2, <2>10 DEF TakeOut, At, Goto
  <2> QED BY <2>11
<1>2. IInv /\ [Next]_vars => [A]_vars BY <1>1
<1> QED BY <1>2, Always, PTL DEF Spec, StaleOnlyByTimeout
=============================================================================
