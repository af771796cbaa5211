------------------------------ MODULE LfMutex -------------------------------
(***************************************************************************)
(* osv/unikernel/core/lfmutex.cc: the mutex of the OSv guest, a lock-free  *)
(* algorithm in which an unlock() that finds nobody queued leaves a        *)
(* handoff token to the lock() that is on its way.  Each atomic access of  *)
(* the C++ code is one action; the queue is include/lockfree/              *)
(* queue-mpsc.hh, whose pop() must never run twice at a time.              *)
(*                                                                         *)
(* Besides lock, try_lock and unlock, the mutex is handed to sleeping      *)
(* threads by condvar ("cv": send_lock) and by waitqueue ("wq": wake_lock  *)
(* with send_lock_unless_already_waiting).  Of these two only the waiting  *)
(* itself is here: a thread releases the mutex with its wait_record on a   *)
(* list, any thread may take the record off the list and send it the lock. *)
(* A "wq" waiter may be woken by anyone, and then locks again by itself.   *)
(*                                                                         *)
(* A wait_record is <<thread, what it waits in>>.  pushlist and poplist    *)
(* are kept oldest first, so that pop()'s reversal is not seen; poplist is *)
(* read and written in one step, as OneToken lets only one thread pop.     *)
(* Memory is sequentially consistent.                                      *)
(***************************************************************************)
EXTENDS Naturals, Sequences, FiniteSets

CONSTANTS Threads, None,
          WaitKinds,  \* a subset of {"cv", "wq"}
          SeqMod,     \* 2^32, the range of `sequence`
          MaxDepth,   \* bound on recursive locking
          MaxOps      \* bound on the calls the threads make

ASSUME LfMutexAssumption ==
  /\ None \notin Threads /\ WaitKinds \subseteq {"cv", "wq"}
  /\ SeqMod \in Nat \ {0, 1} /\ MaxDepth \in Nat \ {0} /\ MaxOps \in Nat

VARIABLES
  count, depth, owner, handoff, sequence, pushlist, poplist,  \* class mutex
  pc,
  call,    \* the call a thread is in, whom it sends the lock, and whether it holds it
  old,     \* its old_handoff or ourhandoff
  taken,   \* the list its pop() took from pushlist
  armed,   \* the wait_records that are not woken
  sent,    \* threads whose "cond" record was taken off its list
  ops      \* the calls left

mutex == <<count, depth, owner, handoff, sequence, pushlist, poplist>>
local == <<old, taken>>
vars  == <<mutex, pc, call, local, armed, sent, ops>>

Records == Threads \X {"lock", "cond"}
OpNames == {"none", "lock", "relock", "try", "unlock", "send", "cv", "wq"}
Calls   == [op: OpNames, dest: Threads \cup {None}, held: BOOLEAN]
NoCall  == [op |-> "none", dest |-> None, held |-> FALSE]
Labels  == {"idle", "held", "lock", "chk", "push", "ho", "emp1", "emp2", "cas", "pop", "rev",
            "seq", "sleep", "own", "poll", "try", "tchk", "tho", "tcas", "tcnt",
            "ucnt", "cwait", "wake", "abort"}

(* The fields of the mutex and the locals of its functions.                   *)
TypeOK ==
  /\ count \in Nat /\ depth \in Nat /\ owner \in Threads \cup {None}
  /\ handoff \in 0..(SeqMod - 1) /\ sequence \in 0..(SeqMod - 1)
  /\ pushlist \in Seq(Records) /\ poplist \in Seq(Records)
  /\ pc \in [Threads -> Labels] /\ call \in [Threads -> Calls]
  /\ old \in [Threads -> 0..(SeqMod - 1)] /\ taken \in [Threads -> Seq(Records)]
  /\ armed \subseteq Records /\ sent \subseteq Threads /\ ops \in 0..MaxOps

Init ==
  /\ count = 0 /\ depth = 0 /\ owner = None /\ handoff = 0 /\ sequence = 0
  /\ pushlist = <<>> /\ poplist = <<>>
  /\ pc = [t \in Threads |-> "idle"] /\ call = [t \in Threads |-> NoCall]
  /\ old = [t \in Threads |-> 0] /\ taken = [t \in Threads |-> <<>>]
  /\ armed = {} /\ sent = {} /\ ops = MaxOps
-----------------------------------------------------------------------------
At(t, l)   == pc[t] = l
Op(t)      == call[t].op

Enter(t, l, c) == pc' = [pc EXCEPT ![t] = l] /\ call' = [call EXCEPT ![t] = c]
Goto(t, l)     == Enter(t, l, IF l \in {"idle", "held"} THEN NoCall ELSE call[t])
As(name)       == [NoCall EXCEPT !.op = name]

(* Where a call goes on when it need not, or need no longer, wake anybody.    *)
Done(t) ==
  CASE Op(t) \in {"lock", "relock"} -> "sleep"
    [] Op(t) = "send"               -> IF call[t].held THEN "held" ELSE "idle"
    [] Op(t) = "unlock"             -> "idle"
    [] OTHER                        -> "cwait"

CountCall == ops > 0 /\ ops' = ops - 1

StartLock(t) ==
  /\ At(t, "idle") \/ (At(t, "held") /\ depth < MaxDepth)
  /\ CountCall /\ Enter(t, "lock", As("lock"))
  /\ UNCHANGED <<mutex, local, armed, sent>>

StartTry(t) ==
  /\ At(t, "idle") \/ (At(t, "held") /\ depth < MaxDepth)
  /\ CountCall /\ Enter(t, "try", As("try"))
  /\ UNCHANGED <<mutex, local, armed, sent>>

(* lock(): the fetch_add.                                                     *)
LockCount(t) ==
  /\ At(t, "lock")
  /\ count' = count + 1 /\ Goto(t, IF count = 0 THEN "own" ELSE "chk")
  /\ UNCHANGED <<depth, owner, handoff, sequence, pushlist, poplist, local, armed, sent, ops>>

LockCheckOwner(t) ==
  /\ At(t, "chk")
  /\ IF owner = t THEN count' = count - 1 /\ depth' = depth + 1 /\ Goto(t, "held")
                  ELSE Goto(t, "push") /\ UNCHANGED <<count, depth>>
  /\ UNCHANGED <<owner, handoff, sequence, pushlist, poplist, local, armed, sent, ops>>

(* The store of owner and depth, once the lock is ours: in lock, try_lock and *)
(* receive_lock.                                                              *)
SetOwner(t) ==
  /\ At(t, "own")
  /\ owner' = t /\ depth' = 1
  /\ Goto(t, IF Op(t) = "relock" THEN "poll" ELSE "held")
  /\ UNCHANGED <<count, handoff, sequence, pushlist, poplist, local, armed, sent, ops>>

(* The record of lock() is its own, that of send_lock another thread's.       *)
Push(t) ==
  /\ At(t, "push")
  /\ LET r == IF Op(t) = "send" THEN <<call[t].dest, "cond">> ELSE <<t, "lock">> IN
       pushlist' = Append(pushlist, r) /\ armed' = armed \cup {r}
  /\ Goto(t, "ho")
  /\ UNCHANGED <<count, depth, owner, handoff, sequence, poplist, local, sent, ops>>

LoadHandoff(t) ==
  /\ At(t, "ho")
  /\ old' = [old EXCEPT ![t] = handoff]
  /\ Goto(t, IF handoff = 0 THEN Done(t) ELSE "emp1")
  /\ UNCHANGED <<mutex, taken, armed, sent, ops>>

(* waitqueue.empty(): two loads.                                              *)
EmptyPop(t) ==
  /\ At(t, "emp1")
  /\ Goto(t, IF poplist # <<>> THEN "cas" ELSE "emp2")
  /\ UNCHANGED <<mutex, local, armed, sent, ops>>

EmptyPush(t) ==
  /\ At(t, "emp2")
  /\ IF pushlist # <<>> THEN Goto(t, "cas") /\ UNCHANGED old
                        ELSE Goto(t, Done(t)) /\ old' = [old EXCEPT ![t] = 0]
  /\ UNCHANGED <<mutex, taken, armed, sent, ops>>

(* The compare_exchange that takes the handoff, or takes it back.             *)
TakeHandoff(t) ==
  /\ At(t, "cas")
  /\ IF handoff = old[t] THEN handoff' = 0 /\ Goto(t, "pop")
                         ELSE Goto(t, Done(t)) /\ UNCHANGED handoff
  /\ old' = [old EXCEPT ![t] = 0]
  /\ UNCHANGED <<count, depth, owner, sequence, pushlist, poplist, taken, armed, sent, ops>>

(* A record was popped: it is woken, unless it is our own.  The assertions:   *)
(* another record of this thread is not popped, except by send_lock, and      *)
(* lock() wakes another only while it is not woken itself.                    *)
Popped(t, r) ==
  LET own    == <<t, "lock">>
      broken == \/ Op(t) # "send" /\ r[1] = t
                \/ Op(t) \in {"lock", "relock"} /\ own \notin armed IN
  /\ armed' = armed \ {r}
  /\ Goto(t, IF r = own THEN "own" ELSE IF broken THEN "abort" ELSE Done(t))

Pop(t) ==
  /\ At(t, "pop")
  /\ \/ /\ poplist # <<>>
        /\ poplist' = Tail(poplist) /\ Popped(t, Head(poplist))
        /\ UNCHANGED <<pushlist, taken>>
     \/ /\ poplist = <<>> /\ pushlist # <<>>
        /\ taken' = [taken EXCEPT ![t] = pushlist] /\ pushlist' = <<>>
        /\ Goto(t, "rev")
        /\ UNCHANGED <<poplist, armed>>
     \/ /\ poplist = <<>> /\ pushlist = <<>>
        /\ Goto(t, IF Op(t) \in {"unlock", "cv", "wq"} THEN "seq" ELSE "abort")
        /\ UNCHANGED <<pushlist, poplist, taken, armed>>
  /\ UNCHANGED <<count, depth, owner, handoff, sequence, old, sent, ops>>

PopReversed(t) ==
  /\ At(t, "rev")
  /\ poplist' = Tail(taken[t]) /\ Popped(t, Head(taken[t]))
  /\ taken' = [taken EXCEPT ![t] = <<>>]
  /\ UNCHANGED <<count, depth, owner, handoff, sequence, pushlist, old, sent, ops>>

(* waiter.wait() returns.                                                     *)
Woken(t) ==
  /\ At(t, "sleep") /\ <<t, "lock">> \notin armed
  /\ Goto(t, "own")
  /\ UNCHANGED <<mutex, local, armed, sent, ops>>
-----------------------------------------------------------------------------
TryCount(t) ==
  /\ At(t, "try")
  /\ IF count = 0 THEN count' = 1 /\ Goto(t, "own") ELSE Goto(t, "tchk") /\ UNCHANGED count
  /\ UNCHANGED <<depth, owner, handoff, sequence, pushlist, poplist, local, armed, sent, ops>>

TryCheckOwner(t) ==
  /\ At(t, "tchk")
  /\ IF owner = t THEN depth' = depth + 1 /\ Goto(t, "held") ELSE Goto(t, "tho") /\ UNCHANGED depth
  /\ UNCHANGED <<count, owner, handoff, sequence, pushlist, poplist, local, armed, sent, ops>>

TryLoadHandoff(t) ==
  /\ At(t, "tho")
  /\ old' = [old EXCEPT ![t] = handoff]
  /\ Goto(t, IF handoff = 0 THEN "idle" ELSE "tcas")
  /\ UNCHANGED <<mutex, taken, armed, sent, ops>>

(* Bug: the handoff is taken without a look at what it is now.                *)
BugTryTakeHandoff(t) ==
  /\ At(t, "tcas")
  /\ handoff' = 0 /\ Goto(t, "tcnt")
  /\ old' = [old EXCEPT ![t] = 0]
  /\ UNCHANGED <<count, depth, owner, sequence, pushlist, poplist, taken, armed, sent, ops>>

TryTakeHandoff(t) ==
  /\ At(t, "tcas")
  /\ IF handoff = old[t] THEN handoff' = 0 /\ Goto(t, "tcnt") ELSE Goto(t, "idle") /\ UNCHANGED handoff
  /\ old' = [old EXCEPT ![t] = 0]
  /\ UNCHANGED <<count, depth, owner, sequence, pushlist, poplist, taken, armed, sent, ops>>

TryAddCount(t) ==
  /\ At(t, "tcnt")
  /\ count' = count + 1 /\ Goto(t, "own")
  /\ UNCHANGED <<depth, owner, handoff, sequence, pushlist, poplist, local, armed, sent, ops>>
-----------------------------------------------------------------------------
(* Bug: the count is given back before the depth is looked at.                *)
BugUnlockNested(t) ==
  /\ At(t, "held") /\ depth > 1
  /\ depth' = depth - 1 /\ count' = count - 1
  /\ UNCHANGED <<owner, handoff, sequence, pushlist, poplist, pc, call, local, armed, sent, ops>>

UnlockNested(t) ==
  /\ At(t, "held") /\ depth > 1
  /\ depth' = depth - 1
  /\ UNCHANGED <<count, owner, handoff, sequence, pushlist, poplist, pc, call, local, armed, sent, ops>>

StartUnlock(t) ==
  /\ At(t, "held") /\ depth = 1
  /\ depth' = 0 /\ owner' = None
  /\ Enter(t, "ucnt", As("unlock"))
  /\ UNCHANGED <<count, handoff, sequence, pushlist, poplist, local, armed, sent, ops>>

UnlockCount(t) ==
  /\ At(t, "ucnt")
  /\ count' = count - 1 /\ Goto(t, IF count = 1 THEN Done(t) ELSE "pop")
  /\ UNCHANGED <<depth, owner, handoff, sequence, pushlist, poplist, local, armed, sent, ops>>

(* Bug: every handoff has the same number.                                    *)
BugNextSequence == 1
(* ++sequence, never 0, is left as the handoff.                               *)
NextSequence == IF (sequence + 1) % SeqMod = 0 THEN 1 ELSE (sequence + 1) % SeqMod
(* Bug: the queue is not looked at again once the handoff is left.            *)
BugLeaveHandoff(t) ==
  /\ At(t, "seq")
  /\ sequence' = NextSequence /\ handoff' = NextSequence
  /\ Goto(t, Done(t))
  /\ UNCHANGED <<count, depth, owner, pushlist, poplist, local, armed, sent, ops>>
LeaveHandoff(t) ==
  /\ At(t, "seq")
  /\ sequence' = NextSequence /\ handoff' = NextSequence
  /\ old' = [old EXCEPT ![t] = NextSequence]
  /\ Goto(t, "emp1")
  /\ UNCHANGED <<count, depth, owner, pushlist, poplist, taken, armed, sent, ops>>
-----------------------------------------------------------------------------
(* condvar::wait or waitqueue::wait: the record is queued, then the mutex is  *)
(* unlocked.                                                                  *)
StartWait(t, k) ==
  /\ At(t, "held") /\ depth = 1
  /\ CountCall /\ Enter(t, "ucnt", As(k))
  /\ depth' = 0 /\ owner' = None
  /\ armed' = armed \cup {<<t, "cond">>}
  /\ UNCHANGED <<count, handoff, sequence, pushlist, poplist, local, sent>>

(* The waiter was sent the lock and woken: receive_lock().                    *)
ReceiveLock(t) ==
  /\ At(t, "cwait") /\ <<t, "cond">> \notin armed
  /\ owner' = t /\ depth' = 1 /\ sent' = sent \ {t}
  /\ Goto(t, "held")
  /\ UNCHANGED <<count, handoff, sequence, pushlist, poplist, local, armed, ops>>

(* wake() of a thread in waitqueue::wait, by anyone: it locks by itself.      *)
Spurious(t) ==
  /\ At(t, "cwait") /\ Op(t) = "wq" /\ t \notin sent
  /\ CountCall /\ Enter(t, "lock", As("relock"))
  /\ UNCHANGED <<mutex, local, armed, sent>>

(* Its loop looks at its record again, and waits again when it is not woken.  *)
PollAgain(t) ==
  /\ At(t, "poll")
  /\ IF <<t, "cond">> \in armed
     THEN /\ depth' = 0 /\ owner' = None
          /\ Enter(t, "ucnt", As("wq")) /\ UNCHANGED sent
     ELSE /\ Goto(t, "held")
          /\ sent' = sent \ {t} /\ UNCHANGED <<depth, owner>>
  /\ UNCHANGED <<count, handoff, sequence, pushlist, poplist, local, armed, ops>>

(* Bug: the waiter is woken whether or not the mutex is free.                 *)
BugSendLock(t, u) ==
  /\ pc[t] \in {"idle", "held"} /\ Op(u) = "cv" /\ At(u, "cwait") /\ u \notin sent
  /\ sent' = sent \cup {u}
  /\ count' = count + 1 /\ armed' = armed \ {<<u, "cond">>}
  /\ UNCHANGED <<depth, owner, handoff, sequence, pushlist, poplist, pc, call, local, ops>>

(* send_lock() for a waiter of a condvar, by a thread that holds the mutex or *)
(* does not.                                                                  *)
SendLock(t, u) ==
  /\ pc[t] \in {"idle", "held"} /\ Op(u) = "cv" /\ At(u, "cwait") /\ u \notin sent
  /\ sent' = sent \cup {u}
  /\ count' = count + 1
  /\ IF count = 0 THEN armed' = armed \ {<<u, "cond">>} /\ UNCHANGED <<pc, call>>
                  ELSE /\ Enter(t, "push", [op |-> "send", dest |-> u, held |-> At(t, "held")])
                       /\ UNCHANGED armed
  /\ UNCHANGED <<depth, owner, handoff, sequence, pushlist, poplist, local, ops>>

(* Whether wake_lock finds u in state "waiting": always when it waits on the  *)
(* waitqueue, maybe when it sleeps in lock(), never when it runs.             *)
MaybeWaiting(u) == Op(u) = "wq" \/ At(u, "sleep")
MaybeRunning(u) == Op(u) # "wq"

Waiting(u) == Op(u) \in {"wq", "relock"} /\ u \notin sent

(* wake_lock() of a thread that is not in state "waiting".                    *)
WakeLockRunning(t, u) ==
  /\ At(t, "held") /\ Waiting(u) /\ MaybeRunning(u)
  /\ sent' = sent \cup {u}
  /\ armed' = armed \ {<<u, "cond">>}
  /\ UNCHANGED <<mutex, pc, call, local, ops>>

(* wake_lock(): send_lock_unless_already_waiting counts first ...             *)
WakeLock(t, u) ==
  /\ At(t, "held") /\ Waiting(u) /\ MaybeWaiting(u)
  /\ sent' = sent \cup {u}
  /\ count' = count + 1
  /\ Enter(t, "wake", [op |-> "send", dest |-> u, held |-> TRUE])
  /\ UNCHANGED <<depth, owner, handoff, sequence, pushlist, poplist, local, armed, ops>>

InSeq(r, q) == \E i \in 1..Len(q) : q[i] = r
Queued(u)   == \E k \in {"lock", "cond"} : InSeq(<<u, k>>, pushlist) \/ InSeq(<<u, k>>, poplist)

(* ... and then queues the record, or clears it when u is in the queue.       *)
WakeLockPush(t) ==
  /\ At(t, "wake") /\ Goto(t, "held")
  /\ LET u == call[t].dest IN
       IF Queued(u) THEN armed' = armed \ {<<u, "cond">>} /\ UNCHANGED pushlist
                    ELSE pushlist' = Append(pushlist, <<u, "cond">>) /\ UNCHANGED armed
  /\ UNCHANGED <<count, depth, owner, handoff, sequence, poplist, local, sent, ops>>
-----------------------------------------------------------------------------
Begin(t) ==
  \/ StartLock(t) \/ StartTry(t)
  \/ \E k \in WaitKinds : StartWait(t, k)
  \/ \E u \in Threads : SendLock(t, u) \/ WakeLockRunning(t, u) \/ WakeLock(t, u)

Step(t) ==
  \/ LockCount(t) \/ LockCheckOwner(t) \/ SetOwner(t) \/ Push(t) \/ LoadHandoff(t)
  \/ EmptyPop(t) \/ EmptyPush(t) \/ TakeHandoff(t) \/ Pop(t) \/ PopReversed(t) \/ Woken(t)
  \/ TryCount(t) \/ TryCheckOwner(t) \/ TryLoadHandoff(t) \/ TryTakeHandoff(t) \/ TryAddCount(t)
  \/ UnlockNested(t) \/ StartUnlock(t) \/ UnlockCount(t) \/ LeaveHandoff(t)
  \/ ReceiveLock(t) \/ PollAgain(t) \/ WakeLockPush(t)

Next == \E t \in Threads : Begin(t) \/ Step(t) \/ Spurious(t)

Spec == Init /\ [][Next]_vars

(* Every thread is scheduled, and a holder unlocks.                           *)
FairSpec == Spec /\ \A t \in Threads : WF_vars(Step(t))
-----------------------------------------------------------------------------
Queueing == {"ho", "emp1", "emp2", "cas", "pop", "rev", "sleep"}
Leaving  == {"pop", "rev", "seq", "emp1", "emp2", "cas", "cwait"}

(* The mutex is t's: by its count, by a handoff or by a record that another   *)
(* thread popped.                                                             *)
Holds(t) ==
  \/ pc[t] \in {"own", "held", "poll", "wake", "ucnt", "tcnt"}
  \/ pc[t] \in {"lock", "chk", "try", "tchk"} /\ owner = t
  \/ Op(t) = "send" /\ call[t].held /\ pc[t] \in {"push"} \cup Queueing
  \/ Op(t) \in {"lock", "relock"} /\ pc[t] \in Queueing /\ <<t, "lock">> \notin armed
  \/ Op(t) \in {"cv", "wq"} /\ pc[t] \in Leaving /\ <<t, "cond">> \notin armed

Popping(t) == pc[t] \in {"pop", "rev", "seq"}

(* The right to the mutex is never in two places: there are no two holders,   *)
(* no two threads that pop the single-consumer queue, no holder while another *)
(* thread pops, and neither of them while a handoff is offered.               *)
OneToken ==
  /\ \A t, u \in Threads : (Holds(t) \/ Popping(t)) /\ (Holds(u) \/ Popping(u)) => t = u
  /\ \A t \in Threads : ~(Holds(t) /\ Popping(t))
  /\ handoff # 0 => \A t \in Threads : ~Holds(t) /\ ~Popping(t)

(* No assertion of lock(), send_lock() or unlock() fails: the queue is not    *)
(* empty after a handoff was taken (the sequence number sees to that), and    *)
(* nobody wakes itself or wakes another when it was woken already.            *)
NoAbort == \A t \in Threads : pc[t] # "abort"

M == INSTANCE Mutex WITH
  holder <- IF \E t \in Threads : Holds(t) THEN CHOOSE t \in Threads : Holds(t) ELSE None

(* The mutex is one: it is acquired only when it is free, and is free between *)
(* two holders.                                                               *)
ImplementsMutex == M!MutexSpec

(* Every lock() returns and every waiter that is sent the lock gets it: once  *)
(* the calls are made, nobody is left in one, and only waiters that were sent *)
(* nothing remain.                                                            *)
EverybodyReturns == <>[](sent = {} /\ \A t \in Threads : pc[t] \in {"idle", "cwait"})
=============================================================================
