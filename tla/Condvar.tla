------------------------------ MODULE Condvar -------------------------------
(***************************************************************************)
(* osv/unikernel/core/condvar.cc over the mutex that LfMutex is shown to   *)
(* implement: an owner and a first-in-first-out queue of records, of       *)
(* threads in lock() and of condvar waiters that were sent the lock.       *)
(*                                                                         *)
(* What runs under the condvar's own _m is one step: nothing blocks there, *)
(* unlock() and send_lock() never do.  The look at the queue head before   *)
(* _m is taken, the sends of wake_all after it is released, and a timeout  *)
(* with the removal that follows it, are steps of their own.               *)
(*                                                                         *)
(* The client keeps a condition under each mutex, waits only while it does *)
(* not hold, and who makes it hold then calls wake_all, with the mutex or  *)
(* without it.  Waits that overlap use one mutex, as condvar.h demands.    *)
(***************************************************************************)
EXTENDS Naturals, Sequences, SequencesExt

CONSTANTS Threads, Mutexes, None,
          Uses,     \* the mutexes each thread uses
          MaxOps    \* bound on the calls the threads make

ASSUME CondvarAssumption ==
  /\ None \notin Threads \cup Mutexes /\ MaxOps \in Nat
  /\ Uses \in [Threads -> SUBSET Mutexes]

VARIABLES
  owner, queue,        \* of each user mutex
  fifo, saved,         \* _waiters_fifo and _user_mutex
  woken,               \* threads whose wait_record is woken
  pc,
  mtx,                 \* the mutex a thread locks, holds or waits with
  timed,               \* its wait has a timer
  ret,                 \* the result of its wait
  batch,               \* the records its wake_all took and has not sent
  taken,               \* threads whose record a waker took (a history variable)
  ready, must,         \* the mutexes whose condition holds, and who has to announce it
  aborted, ops

mutex == <<owner, queue>>
vars  == <<mutex, fifo, saved, woken, pc, mtx, timed, ret, batch, taken, ready, must, aborted, ops>>

Labels == {"idle", "locking", "held", "sleep", "expired", "rewait", "relock",
           "one", "all", "send"}
NoBatch == [list |-> <<>>, from |-> 1, mutex |-> None, home |-> "idle"]

(* The fields of the condvar and of its mutexes, the locals of its callers.   *)
TypeOK ==
  /\ owner \in [Mutexes -> Threads \cup {None}]
  /\ queue \in [Mutexes -> Seq(Threads \X {"lock", "cond"})]
  /\ fifo \in Seq(Threads) /\ saved \in Mutexes \cup {None} /\ woken \subseteq Threads
  /\ pc \in [Threads -> Labels] /\ mtx \in [Threads -> Mutexes \cup {None}]
  /\ timed \subseteq Threads /\ ret \in [Threads -> {"none", "ok", "ETIMEDOUT"}]
  /\ batch \in [Threads -> [list: Seq(Threads), from: Nat \ {0}, mutex: Mutexes \cup {None},
                            home: {"idle", "held"}]]
  /\ taken \subseteq Threads /\ ready \subseteq Mutexes /\ must \subseteq Threads
  /\ aborted \in BOOLEAN /\ ops \in 0..MaxOps

Init ==
  /\ owner = [m \in Mutexes |-> None] /\ queue = [m \in Mutexes |-> <<>>]
  /\ fifo = <<>> /\ saved = None /\ woken = {}
  /\ pc = [t \in Threads |-> "idle"] /\ mtx = [t \in Threads |-> None]
  /\ timed = {} /\ ret = [t \in Threads |-> "none"]
  /\ batch = [t \in Threads |-> NoBatch] /\ taken = {}
  /\ ready = {} /\ must = {} /\ aborted = FALSE /\ ops = MaxOps
-----------------------------------------------------------------------------
At(t, l)   == ~aborted /\ pc[t] = l
Goto(t, l) == pc' = [pc EXCEPT ![t] = l]
CountCall  == ops > 0 /\ ops' = ops - 1

(* The mutex: a record r of thread r[1] asks for m, and m is released.  A     *)
(* condvar waiter is woken when the mutex is its own.                         *)
Ask(m, r) ==
  IF owner[m] = None
  THEN /\ owner' = [owner EXCEPT ![m] = r[1]] /\ UNCHANGED queue
       /\ woken' = IF r[2] = "cond" THEN woken \cup {r[1]} ELSE woken
  ELSE queue' = [queue EXCEPT ![m] = Append(@, r)] /\ UNCHANGED <<owner, woken>>

Give(m) ==
  IF queue[m] = <<>>
  THEN owner' = [owner EXCEPT ![m] = None] /\ UNCHANGED <<queue, woken>>
  ELSE LET r == Head(queue[m]) IN
       /\ owner' = [owner EXCEPT ![m] = r[1]]
       /\ queue' = [queue EXCEPT ![m] = Tail(@)]
       /\ woken' = IF r[2] = "cond" THEN woken \cup {r[1]} ELSE woken

Lock(t, m) ==
  /\ At(t, "idle") /\ CountCall
  /\ mtx' = [mtx EXCEPT ![t] = m]
  /\ Ask(m, <<t, "lock">>) /\ Goto(t, "locking")
  /\ UNCHANGED <<fifo, saved, timed, ret, batch, taken, ready, must, aborted>>

Locked(t) ==
  /\ At(t, "locking") /\ owner[mtx[t]] = t
  /\ Goto(t, "held")
  /\ UNCHANGED <<mutex, fifo, saved, woken, mtx, timed, ret, batch, taken, ready, must, aborted, ops>>

Unlock(t) ==
  /\ At(t, "held")
  /\ Give(mtx[t]) /\ Goto(t, "idle")
  /\ mtx' = [mtx EXCEPT ![t] = None] /\ ret' = [ret EXCEPT ![t] = "none"]
  /\ UNCHANGED <<fifo, saved, timed, batch, taken, ready, must, aborted, ops>>
-----------------------------------------------------------------------------
Waits(t) == pc[t] \in {"sleep", "expired", "rewait", "relock"}

(* wait() up to the release of _m, or its failing assertion.                  *)
Wait(t, withTimer) ==
  /\ At(t, "held") /\ CountCall
  /\ mtx[t] \notin ready /\ t \notin must /\ \A u \in Threads : Waits(u) => mtx[u] = mtx[t]
  /\ IF saved \notin {None, mtx[t]}
     THEN aborted' = TRUE /\ UNCHANGED <<mutex, fifo, saved, woken, pc, timed, ret>>
     ELSE /\ fifo' = Append(fifo, t) /\ saved' = mtx[t]
          /\ Give(mtx[t]) /\ Goto(t, "sleep")
          /\ timed' = IF withTimer THEN timed \cup {t} ELSE timed
          /\ ret' = [ret EXCEPT ![t] = "none"] /\ UNCHANGED aborted
  /\ UNCHANGED <<mtx, batch, taken, ready, must>>

(* wr.wait() returns as the record is woken: receive_lock().                  *)
Received(t) ==
  /\ pc[t] \in {"sleep", "rewait"} /\ ~aborted /\ t \in woken
  /\ Goto(t, "held") /\ ret' = [ret EXCEPT ![t] = "ok"]
  /\ woken' = woken \ {t} /\ timed' = timed \ {t} /\ taken' = taken \ {t}
  /\ UNCHANGED <<mutex, fifo, saved, mtx, batch, ready, must, aborted, ops>>

(* wr.wait(tmr) returns as the timer expired, and the record is not woken.    *)
Expire(t) ==
  /\ At(t, "sleep") /\ t \in timed /\ t \notin woken
  /\ Goto(t, "expired") /\ timed' = timed \ {t}
  /\ UNCHANGED <<mutex, fifo, saved, woken, mtx, ret, batch, taken, ready, must, aborted, ops>>

(* Bug: a record that is not in the fifo is taken for one that timed out.     *)
BugTakeOut(t) ==
  /\ At(t, "expired")
  /\ fifo' = Remove(fifo, t)
  /\ ret' = [ret EXCEPT ![t] = "ETIMEDOUT"] /\ Goto(t, "relock")
  /\ UNCHANGED <<mutex, saved, woken, mtx, timed, batch, taken, ready, must, aborted, ops>>

(* Bug: the record stays in the fifo.                                         *)
BugLeaveIn(t) ==
  /\ At(t, "expired")
  /\ IF Contains(fifo, t) THEN ret' = [ret EXCEPT ![t] = "ETIMEDOUT"] /\ Goto(t, "relock")
                          ELSE Goto(t, "rewait") /\ UNCHANGED ret
  /\ UNCHANGED <<mutex, fifo, saved, woken, mtx, timed, batch, taken, ready, must, aborted, ops>>

(* The record is taken out of the fifo; when a waker has it, it must still    *)
(* be woken.                                                                  *)
TakeOut(t) ==
  /\ At(t, "expired")
  /\ \/ \E i \in 1..Len(fifo) :
          /\ fifo[i] = t /\ fifo' = RemoveAt(fifo, i)
          /\ ret' = [ret EXCEPT ![t] = "ETIMEDOUT"] /\ Goto(t, "relock")
     \/ ~Contains(fifo, t) /\ Goto(t, "rewait") /\ UNCHANGED <<fifo, ret>>
  /\ UNCHANGED <<mutex, saved, woken, mtx, timed, batch, taken, ready, must, aborted, ops>>

Relock(t) ==
  /\ At(t, "relock")
  /\ Ask(mtx[t], <<t, "lock">>) /\ Goto(t, "locking")
  /\ UNCHANGED <<fifo, saved, mtx, timed, ret, batch, taken, ready, must, aborted, ops>>
-----------------------------------------------------------------------------
SetReady(t) ==
  /\ At(t, "held") /\ mtx[t] \notin ready /\ CountCall
  /\ ready' = ready \cup {mtx[t]} /\ must' = must \cup {t}
  /\ UNCHANGED <<mutex, fifo, saved, woken, pc, mtx, timed, ret, batch, taken, aborted>>

(* The first lines of wake_one and wake_all, without _m.                      *)
Look(t, l) ==
  /\ IF fifo = <<>> THEN UNCHANGED <<pc, batch>>
     ELSE Goto(t, l) /\ batch' = [batch EXCEPT ![t] = [NoBatch EXCEPT !.home = pc[t]]]
  /\ UNCHANGED <<mutex, fifo, saved, woken, mtx, timed, ret, taken, ready, aborted>>

LookOne(t) ==
  /\ At(t, "idle") \/ At(t, "held")
  /\ CountCall /\ t \notin must /\ Look(t, "one") /\ UNCHANGED must

(* Bug: wake_all wakes one.                                                   *)
BugLookAll(t) ==
  /\ At(t, "idle") \/ At(t, "held")
  /\ \/ t \in must /\ UNCHANGED ops
     \/ t \notin must /\ CountCall
  /\ Look(t, "one") /\ must' = must \ {t}

LookAll(t) ==
  /\ At(t, "idle") \/ At(t, "held")
  /\ \/ t \in must /\ UNCHANGED ops
     \/ t \notin must /\ CountCall
  /\ Look(t, "all") /\ must' = must \ {t}

Return(t) == Goto(t, batch[t].home) /\ batch' = [batch EXCEPT ![t] = NoBatch]

(* Bug: the saved mutex is kept when the last waiter is taken.                *)
BugWakeOne(t) ==
  /\ At(t, "one")
  /\ IF fifo = <<>> THEN UNCHANGED <<mutex, fifo, woken, taken>>
     ELSE /\ fifo' = Tail(fifo) /\ taken' = taken \cup {Head(fifo)}
          /\ Ask(saved, <<Head(fifo), "cond">>)
  /\ Return(t)
  /\ UNCHANGED <<saved, mtx, timed, ret, ready, must, aborted, ops>>

WakeOne(t) ==
  /\ At(t, "one")
  /\ IF fifo = <<>> THEN UNCHANGED <<mutex, fifo, saved, woken, taken>>
     ELSE /\ fifo' = Tail(fifo) /\ taken' = taken \cup {Head(fifo)}
          /\ Ask(saved, <<Head(fifo), "cond">>)
          /\ saved' = IF Tail(fifo) = <<>> THEN None ELSE saved
  /\ Return(t)
  /\ UNCHANGED <<mtx, timed, ret, ready, must, aborted, ops>>

(* wake_all: the whole fifo is taken under _m ...                             *)
WakeAll(t) ==
  /\ At(t, "all")
  /\ fifo' = <<>> /\ saved' = None /\ taken' = taken \cup ToSet(fifo)
  /\ IF fifo = <<>> THEN Return(t)
     ELSE /\ batch' = [batch EXCEPT ![t] = [@ EXCEPT !.list = fifo, !.mutex = saved]]
          /\ Goto(t, "send")
  /\ UNCHANGED <<mutex, woken, mtx, timed, ret, ready, must, aborted, ops>>

(* Bug: the waiter is woken, and has not got the lock.                        *)
BugSend(t, i) ==
  /\ At(t, "send")
  /\ LET b == batch[t] IN
       /\ i = 1 \/ i \in b.from..Len(b.list)
       /\ woken' = woken \cup {b.list[i]}
       /\ IF Len(b.list) = 1 THEN Return(t)
          ELSE /\ batch' = [batch EXCEPT ![t] = [@ EXCEPT !.list = RemoveAt(b.list, i), !.from = i]]
               /\ UNCHANGED pc
  /\ UNCHANGED <<mutex, fifo, saved, mtx, timed, ret, taken, ready, must, aborted, ops>>

(* ... and its records are sent the lock one by one: the oldest, then in one  *)
(* pass those of the same CPU, any of the rest, then the oldest again.        *)
Send(t, i) ==
  /\ At(t, "send")
  /\ LET b == batch[t] IN
       /\ i = 1 \/ i \in b.from..Len(b.list)
       /\ Ask(b.mutex, <<b.list[i], "cond">>)
       /\ IF Len(b.list) = 1 THEN Return(t)
          ELSE /\ batch' = [batch EXCEPT ![t] = [@ EXCEPT !.list = RemoveAt(b.list, i), !.from = i]]
               /\ UNCHANGED pc
  /\ UNCHANGED <<fifo, saved, mtx, timed, ret, taken, ready, must, aborted, ops>>
-----------------------------------------------------------------------------
Begin(t) ==
  \/ \E m \in Uses[t] : Lock(t, m)
  \/ \E b \in BOOLEAN : Wait(t, b)
  \/ SetReady(t) \/ LookOne(t) \/ (LookAll(t) /\ t \notin must)

Step(t) ==
  \/ Locked(t) \/ Unlock(t) \/ Received(t) \/ Expire(t) \/ TakeOut(t) \/ Relock(t)
  \/ WakeOne(t) \/ WakeAll(t) \/ \E i \in 1..Len(batch[t].list) : Send(t, i)
  \/ (LookAll(t) /\ t \in must)

Next == \E t \in Threads : Begin(t) \/ Step(t)
Spec == Init /\ [][Next]_vars

(* Every thread is scheduled, every timer expires, a holder unlocks, and who  *)
(* made the condition true announces it.                                      *)
FairSpec == Spec /\ \A t \in Threads : WF_vars(Step(t))
-----------------------------------------------------------------------------
(* The places where the wait_record of t is: each position in the fifo, in a  *)
(* waker's list or in the queue of a mutex is one, and woken is one.          *)
Positions(q, r) == {i \in 1..Len(q) : q[i] = r}
Places(t) ==
  ({"fifo"} \X {None} \X Positions(fifo, t))
  \cup (UNION {{"list"} \X {u} \X Positions(batch[u].list, t) : u \in Threads})
  \cup (UNION {{"queue"} \X {m} \X Positions(queue[m], <<t, "cond">>) : m \in Mutexes})
  \cup (IF t \in woken THEN {<<"woken", None, 0>>} ELSE {})

(* A wait_record lies on its waiter's stack: from wait() to its return it is  *)
(* in exactly one place, the fifo, a waker's list, the queue of the mutex or  *)
(* woken, and after the return in none (condvar.cc:23-96).                    *)
NoDangling == \A t \in Threads :
  IF pc[t] \in {"sleep", "expired", "rewait"}
  THEN \E p \in Places(t) : Places(t) = {p}
  ELSE Places(t) = {}

(* A waiter is woken only with its own mutex in its hands, whatever other     *)
(* waits, wakes and timeouts changed _user_mutex meanwhile.                   *)
WokenOwns ==
  /\ \A t \in woken : owner[mtx[t]] = t
  /\ fifo # <<>> => saved = mtx[fifo[1]]
  /\ \A t \in Threads : \A i \in 1..Len(batch[t].list) : batch[t].mutex = mtx[batch[t].list[i]]

(* ETIMEDOUT is returned only when no waker took the record, and 0 only when  *)
(* one did: a wake is not lost to a waiter that gave up (condvar.h).          *)
TimeoutTakesNoWake ==
  /\ \A t \in Threads : ret[t] = "ETIMEDOUT" => t \notin taken
  /\ \A t \in Threads : pc[t] = "rewait" => t \in taken
  /\ woken \subseteq taken

(* _user_mutex outlives the last waiter only when that one timed out.         *)
StaleOnlyByTimeout ==
  [][fifo # <<>> /\ fifo' = <<>> /\ saved' # None =>
       \E t \in Threads : pc[t] = "expired" /\ pc'[t] = "relock"]_vars

(* Once the condition is true and announced nobody is left waiting for it,    *)
(* and every wait with a timer, or whose record was taken, returns; unless    *)
(* the assertion of condvar.cc:34 stopped the kernel, which a timeout that    *)
(* left _user_mutex behind can make it do.                                    *)
NoLostWakeup ==
  <>[](\/ aborted
       \/ /\ \A i \in 1..Len(fifo) : mtx[fifo[i]] \notin ready
          /\ \A t \in Threads : \/ pc[t] = "idle"
                                \/ pc[t] = "sleep" /\ Contains(fifo, t) /\ t \notin timed)
=============================================================================
