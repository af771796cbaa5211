--------------------------- MODULE LfMutexProofs ----------------------------
(***************************************************************************)
(* Proofs about module LfMutex, for any set of threads, any depth of       *)
(* recursive locking, any number of calls and any range of `sequence`.     *)
(*                                                                         *)
(* OneToken is not inductive by itself.  Whether a step may pass the       *)
(* mutex on depends on `count` (CountInv), on who may have a handoff in    *)
(* hand (OldInv), on the owner field (OwnerInv), and on whose records are  *)
(* in the queue: a record that is woken makes its thread a holder, so a    *)
(* queued record must be of a thread that waits, be queued only once and   *)
(* be armed (ListInv, LockRec, CondRec, PendInv).                          *)
(***************************************************************************)
EXTENDS LfMutex, TLAPS
-----------------------------------------------------------------------------
(* The right to the mutex, or to the consuming end of its queue.              *)
Token(t) == Holds(t) \/ Popping(t)

(* `count` is not given back while anybody has the right to the mutex; a      *)
(* recursive lock() that has counted itself has the count of its holder too.  *)
CountInv ==
  /\ handoff # 0 \/ (\E t \in Threads : Token(t)) => count >= 1
  /\ \A t \in Threads : pc[t] = "chk" /\ owner = t => count >= 2

(* The lines a thread can be at in each call.                                 *)
OpInv == \A t \in Threads :
  /\ Op(t) = "none" <=> pc[t] \in {"idle", "held"}
  /\ Op(t) \in {"lock", "relock"} =>
       pc[t] \in {"lock", "chk", "push", "own", "poll", "abort"} \cup Queueing
  /\ pc[t] = "poll" => Op(t) = "relock"
  /\ Op(t) = "try" => pc[t] \in {"try", "tchk", "tho", "tcas", "tcnt", "own"}
  /\ Op(t) = "unlock" => pc[t] \in {"ucnt", "abort"} \cup (Leaving \ {"cwait"})
  /\ Op(t) \in {"cv", "wq"} => pc[t] \in {"ucnt", "abort"} \cup Leaving
  /\ Op(t) = "send" =>
       /\ pc[t] \in {"push", "wake", "abort"} \cup (Queueing \ {"sleep"})
       /\ call[t].dest \in Threads /\ (pc[t] = "wake" => call[t].held)

(* A compare_exchange of handoff never expects 0.                             *)
OldInv == \A t \in Threads : pc[t] \in {"emp1", "emp2", "cas", "tcas"} => old[t] # 0

(* owner is a thread that holds the mutex and has not begun to release it.    *)
OwnerInv == \A t \in Threads : owner = t =>
  \/ pc[t] \in {"held", "poll", "wake", "try", "tchk"}
  \/ Op(t) = "lock" /\ pc[t] \in {"lock", "chk"}
  \/ Op(t) = "send" /\ call[t].held /\ pc[t] \in {"push", "ho", "emp1", "emp2", "cas"}

(* The records in the queue, also those that a pop() has taken off pushlist.  *)
Queue == {r \in Records : \/ InSeq(r, pushlist) \/ InSeq(r, poplist)
                          \/ \E t \in Threads : InSeq(r, taken[t])}
NoDup(q) == \A i, j \in 1..Len(q) : q[i] = q[j] => i = j

(* No record is queued twice.                                                 *)
ListInv ==
  /\ NoDup(pushlist) /\ NoDup(poplist) /\ \A t \in Threads : NoDup(taken[t])
  /\ \A r \in Records :
       /\ InSeq(r, pushlist) => ~InSeq(r, poplist)
       /\ \A t \in Threads : InSeq(r, taken[t]) =>
            /\ ~InSeq(r, pushlist) /\ ~InSeq(r, poplist)
            /\ \A u \in Threads : InSeq(r, taken[u]) => u = t

(* Only a thread that reverses has taken a list, and poplist is empty then.   *)
RevInv ==
  /\ \A t \in Threads : pc[t] = "rev" <=> taken[t] # <<>>
  /\ \A t \in Threads : pc[t] = "rev" => poplist = <<>>

(* The record of lock() is armed exactly while it is queued, and only while   *)
(* its thread is in lock().                                                   *)
LockOK(u) ==
  /\ <<u, "lock">> \in armed <=> <<u, "lock">> \in Queue
  /\ <<u, "lock">> \in armed => Op(u) \in {"lock", "relock"} /\ pc[u] \in Queueing \cup {"abort"}
LockRec == \A u \in Threads : LockOK(u)

(* A queued record of a waiter is of one that was sent the lock and has       *)
(* released it; a waiter that has not finished its unlock() is woken when     *)
(* nobody can leave it a handoff.                                             *)
CondOK(u) ==
  /\ <<u, "cond">> \in Queue =>
        /\ u \in sent /\ Op(u) \in {"cv", "wq"} /\ pc[u] \in {"emp1", "emp2", "cas", "cwait", "abort"}
        /\ <<u, "cond">> \in armed
        /\ pc[u] \in {"emp1", "emp2", "cas"} => handoff = 0 /\ \A v \in Threads : pc[v] # "seq"
  /\ u \in sent => Op(u) \in {"cv", "wq", "relock"}
  /\ Op(u) \in {"cv", "wq"} /\ pc[u] = "ucnt" => <<u, "cond">> \in armed
  /\ Op(u) \in {"cv", "wq", "relock"} /\ <<u, "cond">> \notin armed => u \in sent
CondRec == \A u \in Threads : CondOK(u)

(* A send_lock or a wake_lock that has counted but not queued yet has its     *)
(* waiter for itself.                                                         *)
Pending(t) == Op(t) = "send" /\ pc[t] \in {"push", "wake"}
PendOK(t) == Pending(t) =>
  LET u == call[t].dest IN
  /\ u \in sent /\ <<u, "cond">> \notin Queue /\ <<u, "cond">> \in armed
  /\ pc[t] = "push" => Op(u) = "cv" /\ pc[u] = "cwait"
  /\ pc[t] = "wake" => \/ Op(u) = "wq" /\ pc[u] \in {"emp1", "emp2", "cas", "cwait", "abort"}
                       \/ Op(u) = "relock" /\ pc[u] = "sleep"
PendInv ==
  /\ \A t \in Threads : PendOK(t)
  /\ \A t, v \in Threads : Pending(t) /\ Pending(v) /\ call[t].dest = call[v].dest => t = v

(* The inductive invariant.                                                   *)
BaseInv ==
  /\ TypeOK /\ OneToken /\ CountInv /\ OpInv /\ OldInv /\ OwnerInv
  /\ ListInv /\ RevInv /\ LockRec /\ CondRec /\ PendInv
-----------------------------------------------------------------------------
(* Where a call goes on.                                                      *)
LEMMA DoneType == ASSUME NEW t PROVE Done(t) \in {"sleep", "held", "idle", "cwait"}
BY DEF Done, Op

(* What pop() leaves of a list.                                               *)
LEMMA TailType ==
  ASSUME NEW S, NEW q \in Seq(S), q # <<>> PROVE Head(q) \in S /\ Tail(q) \in Seq(S)
OBVIOUS

(* A send_lock or wake_lock has a thread to send the lock to.                 *)
LEMMA DestType ==
  ASSUME TypeOK, OpInv, NEW t \in Threads, Op(t) = "send" \/ pc[t] = "wake"
  PROVE  call[t].dest \in Threads
<1>1. Op(t) \in OpNames
      BY DEF TypeOK, Calls, Op
<1> QED BY <1>1 DEF OpInv, Queueing, Leaving, OpNames

(* The calls are calls.                                                       *)
LEMMA CallTypes ==
  /\ NoCall \in Calls /\ \A name \in OpNames : As(name) \in Calls
  /\ \A u \in Threads, b \in BOOLEAN : [op |-> "send", dest |-> u, held |-> b] \in Calls
BY DEF NoCall, As, Calls, OpNames

(* Beginning a call keeps the types.                                          *)
LEMMA EnterType ==
  ASSUME TypeOK, NEW t \in Threads, NEW l \in Labels, NEW c \in Calls, Enter(t, l, c)
  PROVE  pc' \in [Threads -> Labels] /\ call' \in [Threads -> Calls]
BY DEF TypeOK, Enter

(* So does going on to another access.                                        *)
LEMMA GotoType ==
  ASSUME TypeOK, NEW t \in Threads, NEW l \in Labels, Goto(t, l)
  PROVE  pc' \in [Threads -> Labels] /\ call' \in [Threads -> Calls]
BY CallTypes DEF TypeOK, Enter, Goto

(* ++sequence leaves a handoff that is not 0, also when it wraps.             *)
LEMMA SequenceType ==
  ASSUME TypeOK PROVE NextSequence \in 0..(SeqMod - 1) /\ NextSequence # 0
BY LfMutexAssumption DEF TypeOK, NextSequence

(* So does waking the thread of a popped record, or the abort when it is      *)
(* cleared.                                                                   *)
LEMMA PoppedType ==
  ASSUME TypeOK, NEW t \in Threads, NEW r, Popped(t, r)
  PROVE  pc' \in [Threads -> Labels] /\ call' \in [Threads -> Calls] /\ armed' \subseteq Records
<1>1. PICK l \in Labels : Goto(t, l)
      BY DoneType DEF Popped, Labels
<1> QED BY <1>1, GotoType DEF Popped, TypeOK

(* The operators on lists of records.                                         *)
LEMMA InSeqEmpty == ASSUME NEW r PROVE ~InSeq(r, <<>>) /\ NoDup(<<>>)
BY DEF InSeq, NoDup

(* A push adds one record.                                                    *)
LEMMA InSeqAppend ==
  ASSUME NEW q \in Seq(Records), NEW e \in Records
  PROVE  /\ \A r : InSeq(r, Append(q, e)) <=> InSeq(r, q) \/ r = e
         /\ NoDup(q) /\ ~InSeq(e, q) => NoDup(Append(q, e))
BY DEF InSeq, NoDup

(* A pop takes the first record, which is in the list no more if it was there *)
(* once.                                                                      *)
LEMMA InSeqTail ==
  ASSUME NEW q \in Seq(Records), q # <<>>
  PROVE  /\ Head(q) \in Records /\ Tail(q) \in Seq(Records)
         /\ \A r : InSeq(r, q) <=> InSeq(r, Tail(q)) \/ r = Head(q)
         /\ NoDup(q) => NoDup(Tail(q)) /\ ~InSeq(Head(q), Tail(q))
BY DEF InSeq, NoDup

(* Every access leaves fields and locals of their types.  count is never      *)
(* taken below 0: that needs CountInv.                                        *)
LEMMA TypeNext ==
  ASSUME TypeOK, CountInv, OpInv, RevInv, [Next]_vars PROVE TypeOK'
<1> USE LfMutexAssumption, DoneType, CallTypes DEF Labels, mutex, local, CountCall, At
<1>0. CASE UNCHANGED vars
      BY <1>0 DEF vars, TypeOK
<1> SUFFICES ASSUME NEW t \in Threads, Begin(t) \/ Step(t) \/ Spurious(t) PROVE TypeOK'
    BY <1>0 DEF Next
<1> DEFINE Moved == pc' \in [Threads -> Labels] /\ call' \in [Threads -> Calls]
<1>1. CASE StartLock(t) \/ StartTry(t) \/ Spurious(t)
  <2>1. Moved
        BY <1>1, EnterType DEF StartLock, StartTry, Spurious, OpNames
  <2>2. ops' \in 0..MaxOps
        BY <1>1 DEF StartLock, StartTry, Spurious, TypeOK
  <2> QED BY <1>1, <2>1, <2>2 DEF StartLock, StartTry, Spurious, TypeOK
<1>3. CASE LockCount(t)
  <2>1. Moved
        BY <1>3, GotoType DEF LockCount
  <2> QED BY <1>3, <2>1 DEF LockCount, TypeOK
<1>4. CASE LockCheckOwner(t)
  <2>1. Moved
        BY <1>4, GotoType DEF LockCheckOwner
  <2> QED BY <1>4, <2>1 DEF LockCheckOwner, CountInv, TypeOK
<1>5. CASE SetOwner(t)
  <2>1. Moved
        BY <1>5, GotoType DEF SetOwner
  <2> QED BY <1>5, <2>1 DEF SetOwner, TypeOK
<1>6. CASE Push(t)
  <2>1. Moved
        BY <1>6, GotoType DEF Push
  <2>2. PICK r \in Records : pushlist' = Append(pushlist, r) /\ armed' = armed \cup {r}
        BY <1>6, DestType DEF Push, Records
  <2> QED BY <1>6, <2>1, <2>2 DEF Push, TypeOK
<1>7. CASE LoadHandoff(t)
  <2>1. Moved
        BY <1>7, GotoType DEF LoadHandoff
  <2> QED BY <1>7, <2>1 DEF LoadHandoff, TypeOK
<1>8. CASE EmptyPop(t)
  <2>1. Moved
        BY <1>8, GotoType DEF EmptyPop
  <2> QED BY <1>8, <2>1 DEF EmptyPop, TypeOK
<1>9. CASE EmptyPush(t)
  <2>1. Moved
        BY <1>9, GotoType DEF EmptyPush
  <2>2. old' \in [Threads -> 0..(SeqMod - 1)]
        BY <1>9 DEF EmptyPush, TypeOK
  <2> QED BY ONLY TypeOK, <1>9, <2>1, <2>2 DEF EmptyPush, TypeOK, mutex
<1>10. CASE TakeHandoff(t)
  <2>1. Moved
        BY <1>10, GotoType DEF TakeHandoff
  <2>2. 0 \in 0..(SeqMod - 1)
        OBVIOUS
  <2> QED BY <1>10, <2>1, <2>2 DEF TakeHandoff, TypeOK
<1>11. CASE Pop(t)
  <2>1. Moved /\ armed' \subseteq Records
        BY <1>11, PoppedType, GotoType DEF Pop, TypeOK
  <2>2. poplist' \in Seq(Records) /\ pushlist' \in Seq(Records)
    <3>1. poplist' = poplist \/ (poplist # <<>> /\ poplist' = Tail(poplist))
          BY <1>11 DEF Pop
    <3>2. pushlist' = pushlist \/ pushlist' = <<>>
          BY <1>11 DEF Pop
    <3>3. poplist # <<>> => Tail(poplist) \in Seq(Records)
          BY TailType DEF TypeOK
    <3>4. <<>> \in Seq(Records)
          OBVIOUS
    <3> QED BY ONLY TypeOK, <3>1, <3>2, <3>3, <3>4 DEF TypeOK
  <2>3. taken' \in [Threads -> Seq(Records)]
        BY <1>11 DEF Pop, TypeOK
  <2> QED BY <1>11, <2>1, <2>2, <2>3 DEF Pop, TypeOK
<1>12. CASE PopReversed(t)
  <2>1. Moved /\ armed' \subseteq Records
        BY <1>12, PoppedType DEF PopReversed
  <2>2. taken[t] \in Seq(Records) /\ taken[t] # <<>>
        BY <1>12 DEF PopReversed, RevInv, TypeOK
  <2>3. Tail(taken[t]) \in Seq(Records)
        BY <2>2, TailType
  <2>4. taken' \in [Threads -> Seq(Records)]
        BY ONLY TypeOK, <1>12 DEF PopReversed, TypeOK
  <2> QED BY ONLY TypeOK, <1>12, <2>1, <2>3, <2>4 DEF PopReversed, TypeOK
<1>13. CASE Woken(t)
  <2>1. Moved
        BY <1>13, GotoType DEF Woken
  <2> QED BY ONLY TypeOK, <1>13, <2>1 DEF Woken, TypeOK, mutex, local
<1>14. CASE TryCount(t)
  <2>1. Moved
        BY <1>14, GotoType DEF TryCount
  <2> QED BY <1>14, <2>1 DEF TryCount, TypeOK
<1>15. CASE TryCheckOwner(t)
  <2>1. Moved
        BY <1>15, GotoType DEF TryCheckOwner
  <2> QED BY <1>15, <2>1 DEF TryCheckOwner, TypeOK
<1>16. CASE TryLoadHandoff(t)
  <2>1. Moved
        BY <1>16, GotoType DEF TryLoadHandoff
  <2> QED BY <1>16, <2>1 DEF TryLoadHandoff, TypeOK
<1>17. CASE TryTakeHandoff(t)
  <2>1. Moved
        BY <1>17, GotoType DEF TryTakeHandoff
  <2>2. 0 \in 0..(SeqMod - 1)
        OBVIOUS
  <2> QED BY <1>17, <2>1, <2>2 DEF TryTakeHandoff, TypeOK
<1>18. CASE TryAddCount(t)
  <2>1. Moved
        BY <1>18, GotoType DEF TryAddCount
  <2> QED BY <1>18, <2>1 DEF TryAddCount, TypeOK
<1>19. CASE UnlockNested(t)
       BY <1>19 DEF UnlockNested, TypeOK
<1>20. CASE StartUnlock(t)
  <2>1. Moved
        BY <1>20, EnterType DEF StartUnlock, OpNames
  <2> QED BY <1>20, <2>1 DEF StartUnlock, TypeOK
<1>21. CASE UnlockCount(t)
  <2>1. Moved
        BY <1>21, GotoType DEF UnlockCount
  <2>2. count >= 1
        BY <1>21 DEF UnlockCount, CountInv, Token, Holds
  <2> QED BY <1>21, <2>1, <2>2 DEF UnlockCount, TypeOK
<1>22. CASE LeaveHandoff(t)
  <2>1. Moved
        BY <1>22, GotoType DEF LeaveHandoff
  <2> QED BY <1>22, <2>1, SequenceType DEF LeaveHandoff, TypeOK
<1>23. ASSUME NEW k \in WaitKinds, StartWait(t, k) PROVE TypeOK'
  <2>1. Moved
        BY <1>23, EnterType DEF StartWait, OpNames
  <2> QED BY <1>23, <2>1 DEF StartWait, TypeOK, Records
<1>24. CASE ReceiveLock(t)
  <2>1. Moved
        BY <1>24, GotoType DEF ReceiveLock
  <2> QED BY <1>24, <2>1 DEF ReceiveLock, TypeOK
<1>25. CASE PollAgain(t)
  <2>1. Moved
        BY <1>25, GotoType, EnterType DEF PollAgain, OpNames
  <2> QED BY <1>25, <2>1 DEF PollAgain, TypeOK
<1>26. ASSUME NEW u \in Threads, SendLock(t, u) PROVE TypeOK'
  <2>1. Moved
        BY <1>26, EnterType DEF SendLock, TypeOK
  <2> QED BY <1>26, <2>1 DEF SendLock, TypeOK
<1>27. ASSUME NEW u \in Threads, WakeLockRunning(t, u) PROVE TypeOK'
       BY <1>27 DEF WakeLockRunning, TypeOK
<1>28. ASSUME NEW u \in Threads, WakeLock(t, u) PROVE TypeOK'
  <2>1. Moved
        BY <1>28, EnterType DEF WakeLock
  <2> QED BY <1>28, <2>1 DEF WakeLock, TypeOK
<1>29. CASE WakeLockPush(t)
  <2>1. Moved
        BY <1>29, GotoType DEF WakeLockPush
  <2>2. <<call[t].dest, "cond">> \in Records
        BY <1>29, DestType DEF WakeLockPush, Records
  <2>3. pushlist' \in Seq(Records) /\ armed' \subseteq Records
    <3> DEFINE r == <<call[t].dest, "cond">>
    <3>1. armed' \in {armed, armed \ {r}} /\ pushlist' \in {pushlist, Append(pushlist, r)}
          BY <1>29 DEF WakeLockPush
    <3>2. r \in Records
          BY <2>2
    <3> HIDE DEF r
    <3>3. Append(pushlist, r) \in Seq(Records)
          BY ONLY TypeOK, <3>2 DEF TypeOK
    <3> QED BY ONLY TypeOK, <3>1, <3>3 DEF TypeOK
  <2> QED BY ONLY TypeOK, <1>29, <2>1, <2>3 DEF WakeLockPush, TypeOK, local
<1> QED BY <1>1, <1>3, <1>4, <1>5, <1>6, <1>7, <1>8, <1>9, <1>10, <1>11, <1>12, <1>13, <1>14,
           <1>15, <1>16, <1>17, <1>18, <1>19, <1>20, <1>21, <1>22, <1>23, <1>24, <1>25, <1>26,
           <1>27, <1>28, <1>29 DEF Begin, Step

(* What a move of one thread leaves alone.                                    *)
LEMMA GotoFacts ==
  ASSUME TypeOK, NEW t \in Threads, NEW l, Goto(t, l)
  PROVE  /\ pc'[t] = l /\ \A u \in Threads : u # t => pc'[u] = pc[u] /\ call'[u] = call[u]
         /\ l \in {"idle", "held"} => call'[t] = NoCall
         /\ l \notin {"idle", "held"} => call'[t] = call[t]
BY DEF TypeOK, Goto, Enter

(* Beginning a call concerns one thread only.                                 *)
LEMMA EnterFacts ==
  ASSUME TypeOK, NEW t \in Threads, NEW l, NEW c, Enter(t, l, c)
  PROVE  /\ pc'[t] = l /\ call'[t] = c
         /\ \A u \in Threads : u # t => pc'[u] = pc[u] /\ call'[u] = call[u]
BY DEF TypeOK, Enter

(* The same for a send_lock, with the fields of its call.                     *)
LEMMA SendFacts ==
  ASSUME TypeOK, NEW t \in Threads, NEW u, NEW h \in BOOLEAN, NEW l,
         Enter(t, l, [op |-> "send", dest |-> u, held |-> h])
  PROVE  /\ pc'[t] = l /\ call'[t].op = "send" /\ call'[t].dest = u /\ (call'[t].held <=> h)
         /\ \A v \in Threads : v # t => pc'[v] = pc[v] /\ call'[v] = call[v]
BY DEF TypeOK, Enter

(* The names of the calls.                                                    *)
LEMMA CallOps ==
  /\ NoCall.op = "none"
  /\ \A name : As(name).op = name
BY DEF NoCall, As

(* Where each call goes on.                                                   *)
LEMMA DoneIs ==
  ASSUME NEW t
  PROVE  /\ Op(t) \in {"lock", "relock"} => Done(t) = "sleep"
         /\ Op(t) = "send" => Done(t) = IF call[t].held THEN "held" ELSE "idle"
         /\ Op(t) = "unlock" => Done(t) = "idle"
         /\ Op(t) \in {"cv", "wq"} => Done(t) = "cwait"
BY DEF Done

(* What push() and pop() do to the set of queued records.                     *)
LEMMA PushQueue ==
  ASSUME TypeOK, ListInv, NEW r \in Records, r \notin Queue,
         pushlist' = Append(pushlist, r), UNCHANGED <<poplist, taken>>
  PROVE  ListInv' /\ Queue' = Queue \cup {r}
<1>1. NoDup(pushlist') /\ \A x : InSeq(x, pushlist') <=> InSeq(x, pushlist) \/ x = r
      BY InSeqAppend DEF TypeOK, ListInv, Queue
<1> QED BY <1>1 DEF ListInv, Queue

(* A step that leaves the lists alone leaves the queue alone.                 *)
LEMMA SameQueue ==
  ASSUME UNCHANGED <<pushlist, poplist, taken>>
  PROVE  (ListInv => ListInv') /\ Queue' = Queue
BY DEF ListInv, Queue

(* A pop() that gives a record, and one that gives none or only takes pushlist. *)
PopEffect(t, r) ==
  /\ Popped(t, r) /\ r \in Queue
  /\ Queue' = Queue \ {r}

TakeEffect(t) ==
  /\ \/ Goto(t, "rev")
     \/ /\ At(t, "pop") /\ poplist = <<>> /\ pushlist = <<>>
        /\ \/ Goto(t, "seq") /\ Op(t) \in {"unlock", "cv", "wq"}
           \/ Goto(t, "abort") /\ Op(t) \notin {"unlock", "cv", "wq"}
  /\ UNCHANGED armed
  /\ Queue' = Queue

(* pop() gives a queued record or takes the push list, and changes no field   *)
(* of the mutex itself.                                                       *)
LEMMA PopCases ==
  ASSUME TypeOK, ListInv, RevInv, NEW t \in Threads, Pop(t) \/ PopReversed(t)
  PROVE  /\ ListInv' /\ pc[t] \in {"pop", "rev"}
         /\ UNCHANGED <<count, depth, owner, handoff, sequence, old, sent, ops>>
         /\ (\E r \in Records : PopEffect(t, r)) \/ TakeEffect(t)
<1>1. CASE At(t, "pop") /\ poplist # <<>> /\ Pop(t)
  <2>1. /\ poplist' = Tail(poplist) /\ Popped(t, Head(poplist))
        /\ UNCHANGED <<pushlist, taken>>
        BY <1>1 DEF Pop
  <2>2. /\ Head(poplist) \in Records /\ NoDup(poplist') /\ ~InSeq(Head(poplist), poplist')
        /\ \A x : InSeq(x, poplist) <=> InSeq(x, poplist') \/ x = Head(poplist)
        BY <2>1, <1>1, InSeqTail DEF TypeOK, ListInv
  <2>3. ListInv' /\ PopEffect(t, Head(poplist))
        BY <2>1, <2>2 DEF ListInv, PopEffect, Queue
  <2> QED BY <1>1, <2>2, <2>3 DEF Pop, At
<1>2. CASE At(t, "pop") /\ poplist = <<>> /\ pushlist # <<>> /\ Pop(t)
  <2>1. /\ taken' = [taken EXCEPT ![t] = pushlist] /\ pushlist' = <<>> /\ Goto(t, "rev")
        /\ UNCHANGED <<poplist, armed>>
        BY <1>2 DEF Pop
  <2>2. /\ taken[t] = <<>> /\ taken'[t] = pushlist
        /\ \A u \in Threads : u # t => taken'[u] = taken[u]
        BY <1>2, <2>1 DEF At, RevInv, TypeOK
  <2>3. \A x \in Records : ~InSeq(x, taken[t]) /\ ~InSeq(x, pushlist') /\ ~InSeq(x, poplist)
        BY <1>2, <2>1, <2>2, InSeqEmpty
  <2>4. NoDup(pushlist')
        BY <2>1, InSeqEmpty
  <2>5. ListInv' /\ TakeEffect(t)
        BY <2>1, <2>2, <2>3, <2>4 DEF ListInv, TakeEffect, Queue
  <2> QED BY <1>2, <2>5 DEF Pop, At
<1>3. CASE At(t, "pop") /\ poplist = <<>> /\ pushlist = <<>> /\ Pop(t)
      BY <1>3, SameQueue DEF Pop, TakeEffect, At
<1>4. CASE PopReversed(t)
  <2>1. /\ poplist' = Tail(taken[t]) /\ Popped(t, Head(taken[t])) /\ UNCHANGED pushlist
        /\ taken' = [taken EXCEPT ![t] = <<>>] /\ taken[t] # <<>> /\ poplist = <<>>
        BY <1>4 DEF PopReversed, RevInv, At
  <2>2. /\ taken'[t] = <<>>
        /\ \A u \in Threads : u # t => taken'[u] = taken[u]
        BY <2>1 DEF TypeOK
  <2>3. /\ Head(taken[t]) \in Records /\ NoDup(poplist') /\ ~InSeq(Head(taken[t]), poplist')
        /\ \A x : InSeq(x, taken[t]) <=> InSeq(x, poplist') \/ x = Head(taken[t])
        BY <2>1, InSeqTail DEF TypeOK, ListInv
  <2>4. NoDup(taken'[t]) /\ \A x \in Records : ~InSeq(x, poplist) /\ ~InSeq(x, taken'[t])
        BY <2>1, <2>2, InSeqEmpty
  <2>5. ListInv' /\ PopEffect(t, Head(taken[t]))
        BY <2>1, <2>2, <2>3, <2>4 DEF ListInv, PopEffect, Queue
  <2> QED BY <1>4, <2>3, <2>5 DEF PopReversed, At
<1> QED BY <1>1, <1>2, <1>3, <1>4 DEF Pop, At

(* After a record was popped, the call is the holder, or goes on.             *)
LEMMA PoppedMove ==
  ASSUME NEW t, NEW r, Popped(t, r)
  PROVE  \/ r = <<t, "lock">> /\ Goto(t, "own")
         \/ r # <<t, "lock">> /\ (Goto(t, "abort") \/ Goto(t, Done(t)))
BY DEF Popped

(* The calls move along their lines.  That only lock() pops its own record    *)
(* needs LockRec.                                                             *)
LEMMA OpNext ==
  ASSUME TypeOK, OpInv, ListInv, RevInv, LockRec, [Next]_vars PROVE OpInv'
<1> USE LfMutexAssumption, CallOps, DoneIs DEF OpInv, Queueing, Leaving, At, Op
<1>0. CASE UNCHANGED vars
      BY <1>0 DEF vars
<1> SUFFICES ASSUME NEW t \in Threads, Begin(t) \/ Step(t) \/ Spurious(t) PROVE OpInv'
    BY <1>0 DEF Next
<1>a. Op(t) \in OpNames
      BY DEF TypeOK, Calls
<1> USE <1>a DEF OpNames
<1>1. CASE StartLock(t) \/ StartTry(t) \/ Spurious(t)
      BY <1>1, EnterFacts DEF StartLock, StartTry, Spurious
<1>2. CASE LockCount(t) \/ LockCheckOwner(t) \/ SetOwner(t)
      BY <1>2, GotoFacts DEF LockCount, LockCheckOwner, SetOwner
<1>3. CASE Push(t) \/ EmptyPop(t)
      BY <1>3, GotoFacts DEF Push, EmptyPop
<1>16. CASE Woken(t)
      BY <1>16, GotoFacts DEF Woken
<1>4. CASE LoadHandoff(t)
      BY <1>4, GotoFacts DEF LoadHandoff
<1>5. CASE EmptyPush(t) \/ TakeHandoff(t)
      BY <1>5, GotoFacts DEF EmptyPush, TakeHandoff
<1>6. CASE Pop(t) \/ PopReversed(t)
  <2>1. CASE TakeEffect(t)
        BY <1>6, <2>1, PopCases, GotoFacts DEF TakeEffect
  <2>2. ASSUME NEW r \in Records, PopEffect(t, r) PROVE OpInv'
    <3>1. r = <<t, "lock">> => Op(t) \in {"lock", "relock"}
          BY <2>2 DEF PopEffect, LockRec, LockOK
    <3> QED BY <1>6, <2>2, <3>1, PopCases, PoppedMove, GotoFacts DEF PopEffect
  <2> QED BY <1>6, <2>1, <2>2, PopCases
<1>7. CASE TryCount(t) \/ TryCheckOwner(t) \/ TryLoadHandoff(t) \/ TryTakeHandoff(t) \/ TryAddCount(t)
      BY <1>7, GotoFacts DEF TryCount, TryCheckOwner, TryLoadHandoff, TryTakeHandoff, TryAddCount
<1>8. CASE UnlockNested(t)
      BY <1>8 DEF UnlockNested
<1>9. CASE StartUnlock(t)
      BY <1>9, EnterFacts DEF StartUnlock
<1>10. CASE UnlockCount(t) \/ LeaveHandoff(t)
       BY <1>10, GotoFacts DEF UnlockCount, LeaveHandoff
<1>11. ASSUME NEW k \in WaitKinds, StartWait(t, k) PROVE OpInv'
       BY <1>11, EnterFacts DEF StartWait
<1>12. CASE ReceiveLock(t)
       BY <1>12, GotoFacts DEF ReceiveLock
<1>13. CASE PollAgain(t)
       BY <1>13, GotoFacts, EnterFacts DEF PollAgain
<1>14. ASSUME NEW u \in Threads, SendLock(t, u) \/ WakeLockRunning(t, u) \/ WakeLock(t, u) PROVE OpInv'
       BY <1>14, EnterFacts DEF SendLock, WakeLockRunning, WakeLock
<1>15. CASE WakeLockPush(t)
       BY <1>15, GotoFacts DEF WakeLockPush
<1> QED BY <1>1, <1>2, <1>3, <1>4, <1>5, <1>6, <1>7, <1>8, <1>9, <1>10, <1>11, <1>12, <1>13,
           <1>14, <1>15, <1>16 DEF Begin, Step
-----------------------------------------------------------------------------
(* OldInv is kept.                                                            *)
LEMMA OldNext ==
  ASSUME TypeOK, OldInv, ListInv, RevInv, [Next]_vars PROVE OldInv'
<1> USE DoneType DEF OldInv, At, local, mutex
<1>0. CASE UNCHANGED vars
      BY <1>0 DEF vars
<1> SUFFICES ASSUME NEW t \in Threads, Begin(t) \/ Step(t) \/ Spurious(t) PROVE OldInv'
    BY <1>0 DEF Next
<1>1. CASE StartLock(t) \/ StartTry(t) \/ Spurious(t) \/ StartUnlock(t)
      BY <1>1, EnterFacts DEF StartLock, StartTry, Spurious, StartUnlock
<1>2. CASE LockCount(t) \/ LockCheckOwner(t) \/ SetOwner(t)
      BY <1>2, GotoFacts DEF LockCount, LockCheckOwner, SetOwner
<1>3. CASE Push(t) \/ EmptyPop(t) \/ Woken(t)
      BY <1>3, GotoFacts DEF Push, EmptyPop, Woken
<1>4. CASE LoadHandoff(t) \/ TryLoadHandoff(t)
  <2>1. old'[t] = handoff /\ \A u \in Threads : u # t => old'[u] = old[u]
        BY <1>4 DEF LoadHandoff, TryLoadHandoff, TypeOK
  <2> QED BY <1>4, <2>1, GotoFacts DEF LoadHandoff, TryLoadHandoff
<1>5. CASE EmptyPush(t) \/ TakeHandoff(t) \/ TryTakeHandoff(t)
  <2>1. \A u \in Threads : u # t => old'[u] = old[u]
        BY <1>5 DEF EmptyPush, TakeHandoff, TryTakeHandoff, TypeOK
  <2> QED BY <1>5, <2>1, GotoFacts DEF EmptyPush, TakeHandoff, TryTakeHandoff
<1>6. CASE Pop(t) \/ PopReversed(t)
      BY <1>6, PopCases, PoppedMove, GotoFacts DEF PopEffect, TakeEffect
<1>7. CASE TryCount(t) \/ TryCheckOwner(t) \/ TryAddCount(t)
      BY <1>7, GotoFacts DEF TryCount, TryCheckOwner, TryAddCount
<1>8. CASE UnlockNested(t)
      BY <1>8 DEF UnlockNested
<1>9. CASE LeaveHandoff(t)
      BY <1>9, GotoFacts, SequenceType DEF LeaveHandoff, TypeOK
<1>10. CASE UnlockCount(t)
       BY <1>10, GotoFacts DEF UnlockCount
<1>12. CASE ReceiveLock(t)
       BY <1>12, GotoFacts DEF ReceiveLock
<1>11. ASSUME NEW k \in WaitKinds, StartWait(t, k) PROVE OldInv'
       BY <1>11, EnterFacts DEF StartWait
<1>13. CASE PollAgain(t)
       BY <1>13, GotoFacts, EnterFacts DEF PollAgain
<1>14. ASSUME NEW u \in Threads, SendLock(t, u) \/ WakeLockRunning(t, u) \/ WakeLock(t, u) PROVE OldInv'
       BY <1>14, EnterFacts DEF SendLock, WakeLockRunning, WakeLock
<1>15. CASE WakeLockPush(t)
       BY <1>15, GotoFacts DEF WakeLockPush
<1> QED BY <1>1, <1>2, <1>3, <1>4, <1>5, <1>6, <1>7, <1>8, <1>9, <1>10, <1>11, <1>12, <1>13,
           <1>14, <1>15 DEF Begin, Step
-----------------------------------------------------------------------------
(* OwnerInv is kept: a holder is never at the compare_exchange that takes a   *)
(* handoff, for none is offered.                                              *)
LEMMA OwnerNext ==
  ASSUME TypeOK, OneToken, OpInv, OldInv, CountInv, ListInv, RevInv, LockRec, OwnerInv, [Next]_vars
  PROVE  OwnerInv'
<1> USE CallOps, DoneIs DEF OwnerInv, OpInv, Queueing, Leaving, At, Op, local, mutex
<1>0. CASE UNCHANGED vars
      BY <1>0 DEF vars
<1> SUFFICES ASSUME NEW t \in Threads, Begin(t) \/ Step(t) \/ Spurious(t) PROVE OwnerInv'
    BY <1>0 DEF Next
<1>a. Op(t) \in OpNames /\ t # None
      BY LfMutexAssumption DEF TypeOK, Calls
<1> USE <1>a DEF OpNames
<1>b. owner = t => count >= 1 /\ handoff = 0 /\ ~Popping(t)
  <2>1. owner = t => Holds(t)
        BY DEF Holds
  <2> QED BY <2>1 DEF OneToken, CountInv, Token, TypeOK
<1>1. CASE StartLock(t) \/ StartTry(t) \/ Spurious(t)
      BY <1>1, EnterFacts DEF StartLock, StartTry, Spurious
<1>2. CASE LockCount(t)
      BY <1>2, <1>b, GotoFacts DEF LockCount
<1>3. CASE LockCheckOwner(t) \/ SetOwner(t)
      BY <1>3, GotoFacts DEF LockCheckOwner, SetOwner
<1>4. CASE Push(t) \/ EmptyPop(t) \/ Woken(t)
      BY <1>4, GotoFacts DEF Push, EmptyPop, Woken
<1>5. CASE LoadHandoff(t) \/ EmptyPush(t)
      BY <1>5, GotoFacts DEF LoadHandoff, EmptyPush
<1>6. CASE TakeHandoff(t)
      BY <1>6, <1>b, GotoFacts DEF TakeHandoff, OldInv
<1>7. CASE Pop(t) \/ PopReversed(t)
      BY <1>7, <1>b, PopCases, PoppedMove, GotoFacts DEF PopEffect, TakeEffect, Popping
<1>8. CASE TryCount(t)
      BY <1>8, <1>b, GotoFacts DEF TryCount
<1>9. CASE TryCheckOwner(t) \/ TryLoadHandoff(t) \/ TryTakeHandoff(t) \/ TryAddCount(t)
      BY <1>9, GotoFacts DEF TryCheckOwner, TryLoadHandoff, TryTakeHandoff, TryAddCount
<1>10. CASE UnlockNested(t)
       BY <1>10 DEF UnlockNested
<1>11. CASE StartUnlock(t)
       BY <1>11, EnterFacts, LfMutexAssumption DEF StartUnlock
<1>12. CASE UnlockCount(t) \/ LeaveHandoff(t)
       BY <1>12, GotoFacts DEF UnlockCount, LeaveHandoff
<1>13. ASSUME NEW k \in WaitKinds, StartWait(t, k) PROVE OwnerInv'
       BY <1>13, EnterFacts, LfMutexAssumption DEF StartWait
<1>14. CASE ReceiveLock(t)
       BY <1>14, GotoFacts DEF ReceiveLock
<1>15. CASE PollAgain(t)
       BY <1>15, GotoFacts, EnterFacts, LfMutexAssumption DEF PollAgain
<1>16. ASSUME NEW u \in Threads, SendLock(t, u) \/ WakeLockRunning(t, u) \/ WakeLock(t, u)
       PROVE  OwnerInv'
  <2>1. CASE SendLock(t, u) /\ count # 0
    <3>1. /\ pc'[t] = "push" /\ call'[t].op = "send" /\ (pc[t] = "held" => call'[t].held)
          /\ \A v \in Threads : v # t => pc'[v] = pc[v] /\ call'[v] = call[v]
          BY <2>1, SendFacts DEF SendLock
    <3> QED BY <2>1, <3>1 DEF SendLock
  <2>2. CASE SendLock(t, u) /\ count = 0
        BY <2>2 DEF SendLock
  <2>3. CASE WakeLockRunning(t, u) \/ WakeLock(t, u)
        BY <2>3, EnterFacts DEF WakeLockRunning, WakeLock
  <2> QED BY <1>16, <2>1, <2>2, <2>3
<1>17. CASE WakeLockPush(t)
       BY <1>17, GotoFacts DEF WakeLockPush
<1> QED BY <1>1, <1>2, <1>3, <1>4, <1>5, <1>6, <1>7, <1>8, <1>9, <1>10, <1>11, <1>12, <1>13,
           <1>14, <1>15, <1>16, <1>17 DEF Begin, Step
-----------------------------------------------------------------------------
(* RevInv is kept: there is one consumer.                                     *)
LEMMA RevNext ==
  ASSUME TypeOK, OneToken, OpInv, ListInv, RevInv, LockRec, [Next]_vars PROVE RevInv'
<1> USE DoneType DEF RevInv, At, local, mutex
<1>0. CASE UNCHANGED vars
      BY <1>0 DEF vars
<1> SUFFICES ASSUME NEW t \in Threads, Begin(t) \/ Step(t) \/ Spurious(t) PROVE RevInv'
    BY <1>0 DEF Next
<1>1. CASE StartLock(t) \/ StartTry(t) \/ Spurious(t) \/ StartUnlock(t)
      BY <1>1, EnterFacts DEF StartLock, StartTry, Spurious, StartUnlock
<1>2. CASE LockCount(t) \/ LockCheckOwner(t) \/ SetOwner(t)
      BY <1>2, GotoFacts DEF LockCount, LockCheckOwner, SetOwner
<1>3. CASE Push(t) \/ EmptyPop(t) \/ Woken(t)
      BY <1>3, GotoFacts DEF Push, EmptyPop, Woken
<1>4. CASE LoadHandoff(t) \/ EmptyPush(t) \/ TakeHandoff(t)
      BY <1>4, GotoFacts DEF LoadHandoff, EmptyPush, TakeHandoff
<1>5. CASE Pop(t) \/ PopReversed(t)
  <2>1. \A u \in Threads : u # t => pc[u] # "rev" /\ taken[u] = <<>>
        BY <1>5 DEF Pop, PopReversed, OneToken, Popping
  <2>2. CASE PopReversed(t)
    <3>1. pc'[t] # "rev" /\ \A u \in Threads : u # t => pc'[u] = pc[u]
          BY <2>2, PoppedMove, GotoFacts DEF PopReversed
    <3>2. taken'[t] = <<>> /\ \A u \in Threads : u # t => taken'[u] = taken[u]
          BY <2>2 DEF PopReversed, TypeOK
    <3> QED BY <2>1, <3>1, <3>2
  <2>3. CASE Pop(t) /\ poplist # <<>>
    <3>1. pc'[t] # "rev" /\ \A u \in Threads : u # t => pc'[u] = pc[u]
          BY <2>3, PoppedMove, GotoFacts DEF Pop
    <3> QED BY <2>1, <2>3, <3>1 DEF Pop
  <2>4. CASE Pop(t) /\ poplist = <<>> /\ pushlist # <<>>
    <3>1. pc'[t] = "rev" /\ \A u \in Threads : u # t => pc'[u] = pc[u]
          BY <2>4, GotoFacts DEF Pop
    <3>2. taken'[t] # <<>> /\ \A u \in Threads : u # t => taken'[u] = taken[u]
          BY <2>4 DEF Pop, TypeOK
    <3> QED BY <2>1, <2>4, <3>1, <3>2 DEF Pop
  <2>5. CASE Pop(t) /\ poplist = <<>> /\ pushlist = <<>>
        BY <2>1, <2>5, GotoFacts DEF Pop
  <2> QED BY <1>5, <2>2, <2>3, <2>4, <2>5
<1>7. CASE TryCount(t) \/ TryCheckOwner(t) \/ TryLoadHandoff(t) \/ TryTakeHandoff(t) \/ TryAddCount(t)
      BY <1>7, GotoFacts DEF TryCount, TryCheckOwner, TryLoadHandoff, TryTakeHandoff, TryAddCount
<1>8. CASE UnlockNested(t)
      BY <1>8 DEF UnlockNested
<1>9. CASE UnlockCount(t) \/ LeaveHandoff(t)
      BY <1>9, GotoFacts DEF UnlockCount, LeaveHandoff
<1>11. ASSUME NEW k \in WaitKinds, StartWait(t, k) PROVE RevInv'
       BY <1>11, EnterFacts DEF StartWait
<1>12. CASE ReceiveLock(t)
       BY <1>12, GotoFacts DEF ReceiveLock
<1>13. CASE PollAgain(t)
       BY <1>13, GotoFacts, EnterFacts DEF PollAgain
<1>14. ASSUME NEW u \in Threads, SendLock(t, u) \/ WakeLockRunning(t, u) \/ WakeLock(t, u) PROVE RevInv'
       BY <1>14, EnterFacts DEF SendLock, WakeLockRunning, WakeLock
<1>15. CASE WakeLockPush(t)
       BY <1>15, GotoFacts DEF WakeLockPush
<1> QED BY <1>1, <1>2, <1>3, <1>4, <1>5, <1>7, <1>8, <1>9, <1>11, <1>12, <1>13,
           <1>14, <1>15 DEF Begin, Step
-----------------------------------------------------------------------------
(* A step leaves the right to the mutex where it is, or drops it (Quiet);     *)
(* gives it to one thread (Passed); or leaves it as a handoff (Left).         *)
Quiet ==
  /\ \A u \in Threads : (Holds(u)' => Holds(u)) /\ (Popping(u)' => Popping(u))
  /\ handoff' \in {handoff, 0}

Passed ==
  /\ handoff' = 0
  /\ \E w \in Threads : /\ \A u \in Threads : Holds(u)' \/ Popping(u)' => u = w
                        /\ ~(Holds(w)' /\ Popping(w)')
  /\ (\A u \in Threads : ~Holds(u)) \/ (\A u \in Threads : ~Holds(u)')
  /\ count' > 0 \/ handoff # 0 \/ \E u \in Threads : Token(u)

Left ==
  /\ handoff' # 0 /\ handoff = 0
  /\ \A u \in Threads : ~Holds(u)' /\ ~Popping(u)'
  /\ \E u \in Threads : Token(u)

(* Each of the three keeps OneToken.                                          *)
LEMMA TokenSteps ==
  ASSUME OneToken, Quiet \/ Passed \/ Left
  PROVE  OneToken'
<1>1. CASE Quiet
      BY <1>1 DEF Quiet, OneToken
<1>2. CASE Passed
      BY <1>2 DEF Passed, OneToken
<1>3. CASE Left
      BY <1>3 DEF Left, OneToken
<1> QED BY <1>1, <1>2, <1>3

(* Every atomic access of the code is one of the three.                       *)
LEMMA TokenMoves ==
  ASSUME BaseInv, [Next]_vars PROVE Quiet \/ Passed \/ Left
<1> USE CallOps, DoneIs DEF BaseInv, At, Op, local, mutex
<1>0. CASE UNCHANGED vars
      BY <1>0 DEF vars, Quiet, Holds, Popping, Queueing, Leaving
<1> SUFFICES ASSUME NEW t \in Threads, Begin(t) \/ Step(t) \/ Spurious(t)
             PROVE  Quiet \/ Passed \/ Left
    BY <1>0 DEF Next
<1>a. Op(t) \in OpNames /\ t # None
      BY LfMutexAssumption DEF TypeOK, Calls
<1>b. count = 0 => handoff = 0 /\ \A u \in Threads : ~Holds(u) /\ ~Popping(u)
      BY DEF CountInv, Token
<1>c. Holds(t) \/ Popping(t) => handoff = 0 /\ \A u \in Threads : u # t => ~Holds(u) /\ ~Popping(u)
      BY DEF OneToken
<1>d. handoff # 0 => \A u \in Threads : ~Holds(u) /\ ~Popping(u)
      BY DEF OneToken
<1> USE <1>a DEF OpNames
<1> USE DEF Token, Holds, Popping, Queueing, Leaving
<1>1. CASE StartLock(t) \/ StartTry(t) \/ Spurious(t)
      BY <1>1, EnterFacts DEF StartLock, StartTry, Spurious, Quiet, OwnerInv
<1>2. CASE LockCount(t)
      BY <1>2, <1>b, GotoFacts DEF LockCount, Quiet, Passed
<1>3. CASE LockCheckOwner(t)
      BY <1>3, GotoFacts DEF LockCheckOwner, Quiet, OpInv
<1>4. CASE SetOwner(t)
      BY <1>4, GotoFacts DEF SetOwner, Quiet
<1>5. CASE Push(t)
      BY <1>5, GotoFacts DEF Push, Quiet
<1>6. CASE LoadHandoff(t) \/ EmptyPop(t) \/ EmptyPush(t) \/ Woken(t)
      BY <1>6, GotoFacts DEF LoadHandoff, EmptyPop, EmptyPush, Woken, Quiet, OpInv
<1>7. CASE TakeHandoff(t)
      BY <1>7, <1>d, GotoFacts DEF TakeHandoff, Quiet, Passed, OldInv, OpInv
<1>9. CASE TryCount(t)
      BY <1>9, <1>b, GotoFacts DEF TryCount, Quiet, Passed
<1>10. CASE TryCheckOwner(t) \/ TryLoadHandoff(t) \/ TryAddCount(t)
      BY <1>10, GotoFacts DEF TryCheckOwner, TryLoadHandoff, TryAddCount, Quiet
<1>11. CASE TryTakeHandoff(t)
      BY <1>11, <1>d, GotoFacts DEF TryTakeHandoff, Quiet, Passed, OldInv
<1>12. CASE Pop(t) \/ PopReversed(t)
  <2>1. pc[t] \in {"pop", "rev"} /\ handoff' = handoff /\ owner' = owner
        BY <1>12, PopCases
  <2>2. Popping(t) /\ ~Holds(t) /\ handoff = 0 /\ \A u \in Threads : u # t => ~Holds(u) /\ ~Popping(u)
        BY <2>1, <1>c DEF OneToken
  <2>3. CASE TakeEffect(t)
        BY <2>1, <2>2, <2>3, GotoFacts DEF TakeEffect, Quiet, OpInv
  <2>4. ASSUME NEW r \in Records, PopEffect(t, r) PROVE Passed
    <3>1. r[1] \in Threads /\ armed' = armed \ {r}
          BY <2>4 DEF Records, PopEffect, Popped
    <3>2. \A u \in Threads : ~Popping(u)'
      <4>1. pc'[t] \in {"own", "abort", "sleep", "held", "idle", "cwait"}
            BY <2>4, PoppedMove, GotoFacts, DoneType DEF PopEffect
      <4>2. \A u \in Threads : u # t => pc'[u] = pc[u]
            BY <2>4, PoppedMove, GotoFacts DEF PopEffect
      <4> QED BY <2>2, <4>1, <4>2
    <3>3. \A u \in Threads : u # t /\ Holds(u)' => u = r[1]
          BY <2>1, <2>2, <2>4, <3>1, PoppedMove, GotoFacts DEF PopEffect
    <3>4. Holds(t)' => t = r[1]
          BY <2>1, <2>2, <2>4, <3>1, PoppedMove, GotoFacts DEF PopEffect, OpInv
    <3> QED BY <2>1, <2>2, <3>1, <3>2, <3>3, <3>4 DEF Passed
  <2> QED BY <1>12, PopCases, <2>3, <2>4
<1>13. CASE UnlockNested(t)
       BY <1>13 DEF UnlockNested, Quiet
<1>14. CASE StartUnlock(t)
       BY <1>14, EnterFacts, LfMutexAssumption DEF StartUnlock, Quiet
<1>15. CASE UnlockCount(t)
       BY <1>15, <1>c, GotoFacts DEF UnlockCount, Passed, Quiet, CondRec, CondOK, OpInv
<1>16. CASE LeaveHandoff(t)
       BY <1>16, <1>c, GotoFacts, SequenceType DEF LeaveHandoff, Left, OneToken, OpInv
<1>17. ASSUME NEW k \in WaitKinds, StartWait(t, k) PROVE Quiet
       BY <1>17, EnterFacts, LfMutexAssumption DEF StartWait, Quiet
<1>18. CASE ReceiveLock(t)
       BY <1>18, GotoFacts DEF ReceiveLock, Quiet, OpInv
<1>19. CASE PollAgain(t)
       BY <1>19, GotoFacts, EnterFacts, LfMutexAssumption DEF PollAgain, Quiet
<1>20. ASSUME NEW u \in Threads, SendLock(t, u) PROVE Quiet \/ Passed
  <2>1. CASE count = 0
        BY <1>20, <2>1, <1>b DEF SendLock, Passed
  <2>2. CASE count # 0
    <3>1. /\ pc'[t] = "push" /\ call'[t].op = "send" /\ (call'[t].held => pc[t] = "held")
          /\ \A v \in Threads : v # t => pc'[v] = pc[v] /\ call'[v] = call[v]
          BY <1>20, <2>2, SendFacts DEF SendLock
    <3> QED BY <1>20, <2>2, <3>1 DEF SendLock, Quiet
  <2> QED BY <2>1, <2>2
<1>21. ASSUME NEW u \in Threads, WakeLockRunning(t, u) PROVE Quiet
       BY <1>21 DEF WakeLockRunning, Waiting, MaybeRunning, Quiet
<1>22. ASSUME NEW u \in Threads, WakeLock(t, u) PROVE Quiet
  <2>1. pc'[t] = "wake" /\ \A v \in Threads : v # t => pc'[v] = pc[v] /\ call'[v] = call[v]
        BY <1>22, EnterFacts DEF WakeLock
  <2> QED BY <1>22, <2>1 DEF WakeLock, Quiet
<1>23. CASE WakeLockPush(t)
  <2>1. Pending(t)
        BY <1>23 DEF WakeLockPush, Pending, OpInv
  <2>2. Queued(call[t].dest) => Op(call[t].dest) \in {"lock", "relock"}
    <3>1. Queued(call[t].dest) =>
            <<call[t].dest, "lock">> \in Queue \/ <<call[t].dest, "cond">> \in Queue
          BY DestType, <2>1 DEF Queued, Queue, Pending, Records
    <3>2. <<call[t].dest, "cond">> \notin Queue /\ call[t].dest \in Threads
          BY <2>1, DestType DEF PendInv, PendOK, Pending
    <3> QED BY <3>1, <3>2 DEF LockRec, LockOK
  <2> QED BY <1>23, <2>2, GotoFacts DEF WakeLockPush, Quiet
<1> QED BY <1>1, <1>2, <1>3, <1>4, <1>5, <1>6, <1>7, <1>9, <1>10, <1>11, <1>12, <1>13, <1>14,
           <1>15, <1>16, <1>17, <1>18, <1>19, <1>20, <1>21, <1>22, <1>23 DEF Begin, Step
-----------------------------------------------------------------------------
(* CountInv is kept.                                                          *)
LEMMA CountNext == ASSUME BaseInv, [Next]_vars PROVE CountInv'
<1> DEFINE Full == handoff # 0 \/ \E u \in Threads : Token(u)
           Chk(u) == pc[u] = "chk" /\ owner = u
<1> USE DEF BaseInv, At, local, mutex
<1>1. Full' => Full \/ count' > 0
      BY TokenMoves DEF Quiet, Passed, Left, Token
<1>2. ASSUME count' \in Nat, count' >= count, \A u \in Threads : Chk(u)' => Chk(u) PROVE CountInv'
      BY <1>1, <1>2 DEF CountInv, TypeOK
<1>0. CASE UNCHANGED vars
      BY <1>0, <1>2 DEF vars, TypeOK
<1> SUFFICES ASSUME NEW t \in Threads, Begin(t) \/ Step(t) \/ Spurious(t) PROVE CountInv'
    BY <1>0 DEF Next
<1>a. count \in Nat
      BY DEF TypeOK
<1> USE <1>a
<1>3. CASE UnlockCount(t)
  <2>1. count >= 1 /\ handoff = 0 /\ \A u \in Threads : u # t => ~Holds(u) /\ ~Popping(u)
        BY <1>3 DEF UnlockCount, Holds, OneToken, CountInv, Token
  <2>2. \A u \in Threads : ~Chk(u)'
    <3>1. pc'[t] \in {"pop", Done(t)} /\ owner' = owner /\ \A u \in Threads : u # t => pc'[u] = pc[u]
          BY <1>3, GotoFacts DEF UnlockCount
    <3>2. pc'[t] # "chk"
          BY <3>1, DoneType
    <3> QED BY <2>1, <3>1, <3>2 DEF Holds
  <2>3. count' \in Nat /\ (count # 1 => count' > 0) /\ handoff' = 0
        BY <1>3, <2>1 DEF UnlockCount
  <2>4. CASE count = 1
    <3>1. /\ pc'[t] = Done(t) /\ owner' = owner /\ armed' = armed
          /\ \A u \in Threads : u # t => pc'[u] = pc[u] /\ call'[u] = call[u]
          BY <1>3, <2>4, GotoFacts DEF UnlockCount
    <3>2. \A u \in Threads : u # t => ~Token(u)'
          BY <2>1, <3>1 DEF Token, Holds, Popping, Op
    <3>3. Op(t) \in {"unlock", "cv", "wq"}
          BY <1>3 DEF UnlockCount, OpInv, TypeOK, Calls, OpNames, Op, Queueing, Leaving
    <3>4. CASE Op(t) = "unlock"
          BY <3>4, <3>1, <3>2, <2>2, <2>3, DoneIs DEF CountInv, Token, Holds, Popping, Queueing, Leaving
    <3>5. CASE Op(t) \in {"cv", "wq"}
      <4>1. pc'[t] = "cwait" /\ call'[t] = call[t] /\ <<t, "cond">> \in armed'
            BY <1>3, <2>4, <3>5, <3>1, DoneIs, GotoFacts DEF UnlockCount, CondRec, CondOK
      <4> QED BY <3>5, <4>1, <3>2, <2>2, <2>3 DEF CountInv, Token, Holds, Popping, Queueing, Leaving, Op
    <3> QED BY <3>3, <3>4, <3>5
  <2> QED BY <2>2, <2>3, <2>4 DEF CountInv
<1>4. CASE LockCheckOwner(t)
  <2>1. CASE owner = t
        BY <1>4, <2>1, GotoFacts DEF LockCheckOwner, CountInv
  <2>2. CASE owner # t
        BY <1>4, <2>2, <1>2, GotoFacts DEF LockCheckOwner
  <2> QED BY <2>1, <2>2
<1>5. CASE LockCount(t)
  <2>1. owner = t => count >= 1
        BY <1>5 DEF LockCount, CountInv, Token, Holds
  <2> QED BY <1>5, <2>1, <1>1, GotoFacts DEF LockCount, CountInv
<1>6. CASE StartLock(t) \/ StartTry(t) \/ Spurious(t) \/ StartUnlock(t)
      BY <1>6, <1>2, EnterFacts, LfMutexAssumption DEF StartLock, StartTry, Spurious, StartUnlock
<1>7. CASE SetOwner(t) \/ Push(t) \/ EmptyPop(t) \/ Woken(t)
      BY <1>7, <1>2, GotoFacts DEF SetOwner, Push, EmptyPop, Woken
<1>8. CASE LoadHandoff(t) \/ EmptyPush(t) \/ TakeHandoff(t)
      BY <1>8, <1>2, GotoFacts, DoneType DEF LoadHandoff, EmptyPush, TakeHandoff
<1>9. CASE Pop(t) \/ PopReversed(t)
      BY <1>9, <1>2, PopCases, PoppedMove, GotoFacts, DoneType DEF PopEffect, TakeEffect
<1>10. CASE TryCount(t) \/ TryCheckOwner(t) \/ TryLoadHandoff(t) \/ TryTakeHandoff(t) \/ TryAddCount(t)
      BY <1>10, <1>2, GotoFacts DEF TryCount, TryCheckOwner, TryLoadHandoff, TryTakeHandoff, TryAddCount
<1>11. CASE UnlockNested(t)
      BY <1>11, <1>2 DEF UnlockNested
<1>12. CASE LeaveHandoff(t) \/ ReceiveLock(t)
       BY <1>12, <1>2, GotoFacts DEF LeaveHandoff, ReceiveLock
<1>13. ASSUME NEW k \in WaitKinds, StartWait(t, k) PROVE CountInv'
       BY <1>13, <1>2, EnterFacts, LfMutexAssumption DEF StartWait
<1>14. CASE PollAgain(t)
       BY <1>14, <1>2, GotoFacts, EnterFacts, LfMutexAssumption DEF PollAgain
<1>15. ASSUME NEW u \in Threads, SendLock(t, u) \/ WakeLockRunning(t, u) \/ WakeLock(t, u)
       PROVE CountInv'
       BY <1>15, <1>2, EnterFacts DEF SendLock, WakeLockRunning, WakeLock
<1>16. CASE WakeLockPush(t)
       BY <1>16, <1>2, GotoFacts DEF WakeLockPush
<1> QED BY <1>3, <1>4, <1>5, <1>6, <1>7, <1>8, <1>9, <1>10, <1>11, <1>12, <1>13, <1>14,
           <1>15, <1>16 DEF Begin, Step
-----------------------------------------------------------------------------
(* lock() and send_lock() queue a record that is not queued.                  *)
LEMMA PushEffect ==
  ASSUME BaseInv, NEW t \in Threads, Push(t)
  PROVE  \E r \in Records :
           /\ r = (IF Op(t) = "send" THEN <<call[t].dest, "cond">> ELSE <<t, "lock">>)
           /\ r \notin Queue /\ armed' = armed \cup {r} /\ ListInv'
           /\ Queue' = Queue \cup {r}
<1> DEFINE r == IF Op(t) = "send" THEN <<call[t].dest, "cond">> ELSE <<t, "lock">>
<1>1. r \in Records
      BY DestType DEF Records, BaseInv
<1>2. r \notin Queue
  <2>1. CASE Op(t) = "send"
        BY <2>1, DestType DEF BaseInv, Push, At, PendInv, PendOK, Pending
  <2>2. CASE Op(t) # "send"
        BY <2>2 DEF BaseInv, Push, At, LockRec, LockOK, Queueing
  <2> QED BY <2>1, <2>2
<1>3. pushlist' = Append(pushlist, r) /\ UNCHANGED <<poplist, taken>> /\ armed' = armed \cup {r}
      BY DEF Push, local
<1> HIDE DEF r
<1>4. ListInv' /\ Queue' = Queue \cup {r}
      BY <1>1, <1>2, <1>3, PushQueue DEF BaseInv
<1> QED BY <1>1, <1>2, <1>3, <1>4 DEF r

(* send_lock_unless_already_waiting queues the record of a thread that waits  *)
(* on the waitqueue, and clears that of one that sleeps in lock().            *)
LEMMA WakePushEffect ==
  ASSUME BaseInv, NEW t \in Threads, WakeLockPush(t)
  PROVE  /\ Pending(t) /\ ListInv'
         /\ \/ /\ armed' = armed \ {<<call[t].dest, "cond">>}
               /\ Op(call[t].dest) = "relock"
               /\ Queue' = Queue
            \/ /\ armed' = armed /\ Op(call[t].dest) = "wq"
               /\ Queue' = Queue \cup {<<call[t].dest, "cond">>}
<1> DEFINE u == call[t].dest
           r == <<u, "cond">>
<1>1. Pending(t) /\ pc[t] = "wake" /\ Op(t) \in OpNames
      BY DEF BaseInv, WakeLockPush, At, Pending, OpInv, TypeOK, Calls, OpNames, Op, Queueing, Leaving
<1>2. u \in Threads /\ r \in Records /\ r \notin Queue
      BY <1>1, DestType DEF BaseInv, PendInv, PendOK, Pending, Records
<1>3. Op(u) = "wq" \/ (Op(u) = "relock" /\ pc[u] = "sleep")
      BY <1>1, <1>2 DEF BaseInv, PendInv, PendOK
<1>4. Op(u) = "relock" => InSeq(<<u, "lock">>, pushlist) \/ InSeq(<<u, "lock">>, poplist)
  <2>1. Holds(t)
        BY <1>1 DEF Holds
  <2>2. ~Holds(u) \/ u = t
        BY <1>2, <2>1 DEF BaseInv, OneToken
  <2>3. Op(u) = "relock" => <<u, "lock">> \in armed
        BY <1>1, <1>2, <1>3, <2>2 DEF Holds, Queueing
  <2>4. \A v \in Threads : pc[v] # "rev"
        BY <1>1, <2>1 DEF BaseInv, OneToken, Popping
  <2>5. \A v \in Threads : ~InSeq(<<u, "lock">>, taken[v])
        BY <2>4, InSeqEmpty DEF BaseInv, RevInv
  <2> QED BY <1>2, <2>3, <2>5 DEF BaseInv, LockRec, LockOK, Queue
<1>5. Op(u) = "wq" => ~Queued(u)
  <2>1. Op(u) = "wq" => <<u, "lock">> \notin Queue
        BY <1>2 DEF BaseInv, LockRec, LockOK
  <2> QED BY <1>2, <2>1 DEF Queued, Queue, Records
<1>6. CASE Op(u) = "relock"
  <2>1. Queued(u)
        BY <1>4, <1>6 DEF Queued
  <2>2. armed' = armed \ {r} /\ UNCHANGED <<pushlist, poplist, taken>>
        BY <2>1 DEF WakeLockPush, local
  <2> QED BY <1>1, <1>6, <2>2, SameQueue DEF BaseInv
<1>7. CASE Op(u) = "wq"
  <2>1. armed' = armed /\ pushlist' = Append(pushlist, r) /\ UNCHANGED <<poplist, taken>>
        BY <1>5, <1>7 DEF WakeLockPush, local
  <2> QED BY <1>1, <1>2, <1>7, <2>1, PushQueue DEF BaseInv
<1> QED BY <1>3, <1>6, <1>7

(* The steps that leave the queue alone.                                      *)
Steady(t) ==
  \/ StartLock(t) \/ StartTry(t) \/ Spurious(t) \/ StartUnlock(t) \/ LockCount(t)
  \/ LockCheckOwner(t) \/ SetOwner(t) \/ LoadHandoff(t) \/ EmptyPop(t) \/ EmptyPush(t)
  \/ TakeHandoff(t) \/ Woken(t) \/ TryCount(t) \/ TryCheckOwner(t) \/ TryLoadHandoff(t)
  \/ TryTakeHandoff(t) \/ TryAddCount(t) \/ UnlockNested(t) \/ UnlockCount(t)
  \/ LeaveHandoff(t) \/ ReceiveLock(t) \/ PollAgain(t)
  \/ \E k \in WaitKinds : StartWait(t, k)
  \/ \E u \in Threads : SendLock(t, u) \/ WakeLockRunning(t, u) \/ WakeLock(t, u)

(* A steady step leaves the queue alone.                                      *)
LEMMA SteadyQueue ==
  ASSUME NEW t, Steady(t)
  PROVE  (ListInv => ListInv') /\ Queue' = Queue
<1>1. UNCHANGED <<pushlist, poplist, taken>>
  <2> USE DEF mutex, local
  <2>1. CASE StartLock(t) \/ StartTry(t) \/ Spurious(t) \/ StartUnlock(t) \/ LockCount(t)
             \/ LockCheckOwner(t) \/ SetOwner(t) \/ LoadHandoff(t) \/ EmptyPop(t) \/ EmptyPush(t)
        BY <2>1 DEF StartLock, StartTry, Spurious, StartUnlock, LockCount, LockCheckOwner, SetOwner,
                    LoadHandoff, EmptyPop, EmptyPush
  <2>2. CASE TakeHandoff(t) \/ Woken(t) \/ TryCount(t) \/ TryCheckOwner(t) \/ TryLoadHandoff(t)
             \/ TryTakeHandoff(t) \/ TryAddCount(t) \/ UnlockNested(t) \/ UnlockCount(t)
        BY <2>2 DEF TakeHandoff, Woken, TryCount, TryCheckOwner, TryLoadHandoff, TryTakeHandoff,
                    TryAddCount, UnlockNested, UnlockCount
  <2>3. CASE LeaveHandoff(t) \/ ReceiveLock(t) \/ PollAgain(t) \/ \E k \in WaitKinds : StartWait(t, k)
        BY <2>3 DEF LeaveHandoff, ReceiveLock, PollAgain, StartWait
  <2>4. CASE \E u \in Threads : SendLock(t, u) \/ WakeLockRunning(t, u) \/ WakeLock(t, u)
        BY <2>4 DEF SendLock, WakeLockRunning, WakeLock
  <2> QED BY <2>1, <2>2, <2>3, <2>4 DEF Steady
<1> QED BY <1>1, SameQueue

(* A step is steady, or one of the four that move records.                    *)
LEMMA Cases ==
  ASSUME [Next]_vars, ~UNCHANGED vars
  PROVE  \E t \in Threads : Steady(t) \/ Push(t) \/ Pop(t) \/ PopReversed(t) \/ WakeLockPush(t)
BY DEF Next, Begin, Step, Steady

(* ListInv is kept.                                                           *)
LEMMA ListNext == ASSUME BaseInv, [Next]_vars PROVE ListInv'
<1>0. CASE UNCHANGED vars
      BY <1>0, SameQueue DEF vars, mutex, local, BaseInv
<1>1. ASSUME NEW t \in Threads, Steady(t) \/ Push(t) \/ Pop(t) \/ PopReversed(t) \/ WakeLockPush(t)
      PROVE  ListInv'
      BY <1>1, SteadyQueue, PushEffect, PopCases, WakePushEffect DEF BaseInv
<1> QED BY <1>0, <1>1, Cases
-----------------------------------------------------------------------------
(* LockRec is kept.                                                           *)
LEMMA LockRecNext == ASSUME BaseInv, [Next]_vars PROVE LockRec'
<1> SUFFICES ASSUME NEW w \in Threads PROVE LockOK(w)'
    BY DEF LockRec, LockOK
<1> USE DEF BaseInv, At, Op, local, mutex, Queueing
<1>0. CASE UNCHANGED vars
      BY <1>0, SameQueue DEF vars, LockRec, LockOK
<1> SUFFICES ASSUME NEW t \in Threads,
                    Steady(t) \/ Push(t) \/ Pop(t) \/ PopReversed(t) \/ WakeLockPush(t)
             PROVE  LockOK(w)'
    BY <1>0, Cases
<1>a. \A u \in Threads : <<u, "lock">> \in Records /\ <<u, "cond">> \in Records
      BY DEF Records
<1>1. CASE Steady(t)
  <2>a. Queue' = Queue
        BY <1>1, SteadyQueue
  <2> USE <2>a, DoneIs, CallOps DEF LockRec, LockOK
  <2>1. CASE StartLock(t) \/ StartTry(t) \/ Spurious(t) \/ StartUnlock(t)
        BY <2>1, EnterFacts DEF StartLock, StartTry, Spurious, StartUnlock
  <2>2. CASE LockCount(t) \/ LockCheckOwner(t) \/ SetOwner(t) \/ Woken(t)
        BY <2>2, GotoFacts DEF LockCount, LockCheckOwner, SetOwner, Woken
  <2>3. CASE LoadHandoff(t) \/ EmptyPop(t) \/ EmptyPush(t) \/ TakeHandoff(t)
        BY <2>3, GotoFacts DEF LoadHandoff, EmptyPop, EmptyPush, TakeHandoff
  <2>4. CASE TryCount(t) \/ TryCheckOwner(t) \/ TryLoadHandoff(t) \/ TryTakeHandoff(t) \/ TryAddCount(t)
        BY <2>4, GotoFacts DEF TryCount, TryCheckOwner, TryLoadHandoff, TryTakeHandoff, TryAddCount
  <2>5. CASE UnlockNested(t)
        BY <2>5 DEF UnlockNested
  <2>6. CASE UnlockCount(t) \/ LeaveHandoff(t) \/ ReceiveLock(t)
        BY <2>6, GotoFacts DEF UnlockCount, LeaveHandoff, ReceiveLock
  <2>7. CASE PollAgain(t)
        BY <2>7, EnterFacts, GotoFacts DEF PollAgain
  <2>8. CASE \E k \in WaitKinds : StartWait(t, k)
        BY <2>8, EnterFacts DEF StartWait
  <2>9. ASSUME NEW u \in Threads, SendLock(t, u) \/ WakeLockRunning(t, u) \/ WakeLock(t, u)
        PROVE  LockOK(w)'
        BY <2>9, EnterFacts, CallOps DEF SendLock, WakeLockRunning, WakeLock
  <2> QED BY <1>1, <2>1, <2>2, <2>3, <2>4, <2>5, <2>6, <2>7, <2>8, <2>9 DEF Steady
<1>2. CASE Push(t)
  <2>1. /\ pc'[t] = "ho" /\ call'[t] = call[t]
        /\ \A u \in Threads : u # t => pc'[u] = pc[u] /\ call'[u] = call[u]
        BY <1>2, GotoFacts DEF Push
  <2>2. Op(t) \in {"lock", "relock", "send"}
        BY <1>2 DEF Push, OpInv, TypeOK, Calls, OpNames, Leaving
  <2> QED BY <1>2, <1>a, <2>1, <2>2, PushEffect DEF LockRec, LockOK, Push
<1>3. CASE Pop(t) \/ PopReversed(t)
  <2>1. CASE TakeEffect(t)
    <3>1. Queue' = Queue
          BY <1>a, <2>1 DEF TakeEffect
    <3>2. pc'[t] \in {"rev", "abort"} \/ (pc'[t] = "seq" /\ Op(t) \notin {"lock", "relock"})
          BY <2>1, GotoFacts DEF TakeEffect
    <3> QED BY <2>1, <3>1, <3>2, GotoFacts DEF TakeEffect, LockRec, LockOK
  <2>2. ASSUME NEW r \in Records, PopEffect(t, r) PROVE LockOK(w)'
    <3>1. armed' = armed \ {r} /\ \A u \in Threads : u # t => pc'[u] = pc[u] /\ call'[u] = call[u]
          BY <2>2, PoppedMove, GotoFacts DEF PopEffect, Popped
    <3>2. <<t, "lock">> \in armed' => Op(t)' \in {"lock", "relock"} /\ pc'[t] \in {"sleep", "abort"}
          BY <2>2, <3>1, PoppedMove, GotoFacts, DoneIs DEF PopEffect, LockRec, LockOK
    <3> QED BY <2>2, <3>1, <3>2, <1>a DEF PopEffect, LockRec, LockOK
  <2> QED BY <1>3, <2>1, <2>2, PopCases
<1>4. CASE WakeLockPush(t)
  <2>1. \A u \in Threads : <<u, "lock">> # <<call[t].dest, "cond">>
        OBVIOUS
  <2>2. \A u \in Threads : (<<u, "lock">> \in armed' <=> <<u, "lock">> \in armed)
                        /\ (<<u, "lock">> \in Queue' <=> <<u, "lock">> \in Queue)
        BY <1>4, <1>a, <2>1, WakePushEffect
  <2>3. pc[t] = "wake" /\ \A u \in Threads : u # t => pc'[u] = pc[u] /\ call'[u] = call[u]
        BY <1>4, GotoFacts DEF WakeLockPush
  <2> QED BY <2>2, <2>3 DEF LockRec, LockOK
<1> QED BY <1>1, <1>2, <1>3, <1>4

(* A handoff is left only when the queue was found empty.                     *)
LEMMA PopEmpties ==
  ASSUME BaseInv, NEW t \in Threads, TakeEffect(t), pc'[t] = "seq",
         \A v \in Threads : v # t => pc[v] # "rev"
  PROVE  Queue = {}
<1>1. At(t, "pop") /\ poplist = <<>> /\ pushlist = <<>>
      BY GotoFacts DEF TakeEffect, BaseInv
<1>2. \A v \in Threads : taken[v] = <<>>
      BY <1>1 DEF At, BaseInv, RevInv
<1> QED BY <1>1, <1>2, InSeqEmpty DEF Queue

(* CondRec is kept.                                                           *)
LEMMA CondRecNext == ASSUME BaseInv, [Next]_vars PROVE CondRec'
<1> SUFFICES ASSUME NEW w \in Threads PROVE CondOK(w)'
    BY DEF CondRec, CondOK
<1> USE DEF BaseInv, At, Op, local, mutex
<1>0. CASE UNCHANGED vars
      BY <1>0, SameQueue DEF vars, CondRec, CondOK
<1> SUFFICES ASSUME NEW t \in Threads,
                    Steady(t) \/ Push(t) \/ Pop(t) \/ PopReversed(t) \/ WakeLockPush(t)
             PROVE  CondOK(w)'
    BY <1>0, Cases
<1>a. \A u \in Threads : <<u, "lock">> \in Records /\ <<u, "cond">> \in Records
      BY DEF Records
<1>b. Op(t) \in OpNames
      BY DEF TypeOK, Calls
<1>1. CASE Steady(t)
  <2>a. Queue' = Queue
        BY <1>1, SteadyQueue
  <2> USE <1>b, <2>a, DoneIs, CallOps DEF CondRec, CondOK, OpNames
  <2>1. CASE StartLock(t) \/ StartTry(t) \/ Spurious(t) \/ StartUnlock(t)
        BY <2>1, EnterFacts DEF StartLock, StartTry, Spurious, StartUnlock, OpInv
  <2>2. CASE LockCount(t) \/ LockCheckOwner(t) \/ SetOwner(t) \/ Woken(t)
        BY <2>2, GotoFacts DEF LockCount, LockCheckOwner, SetOwner, Woken, OpInv, OwnerInv,
                               Queueing, Leaving
  <2>3. CASE LoadHandoff(t) \/ EmptyPop(t) \/ EmptyPush(t)
        BY <2>3, GotoFacts DEF LoadHandoff, EmptyPop, EmptyPush, OpInv, Queueing, Leaving
  <2>10. CASE TakeHandoff(t)
    <3>1. handoff' \in {0, handoff} /\ \A v \in Threads : v # t => pc'[v] = pc[v] /\ call'[v] = call[v]
          BY <2>10, GotoFacts DEF TakeHandoff
    <3>2. pc'[t] \in {"pop", Done(t)} /\ armed' = armed /\ sent' = sent
          BY <2>10, GotoFacts DEF TakeHandoff
    <3>3. pc'[t] # "seq"
          BY <3>2, DoneType
    <3>4. CASE w # t
          BY <3>1, <3>2, <3>3, <3>4
    <3>5. CASE w = t
      <4>1. <<t, "cond">> \in Queue => pc'[t] = Done(t)
            BY <2>10, GotoFacts DEF TakeHandoff, OldInv
      <4>2. pc'[t] # "ucnt" /\ pc'[t] \notin {"emp1", "emp2", "cas"}
            BY <3>2, DoneType
      <4>3. Op(t) \in {"cv", "wq", "relock"} => call'[t] = call[t]
            BY <2>10, GotoFacts DEF TakeHandoff
      <4>4. call'[t] \in {call[t], NoCall}
            BY <2>10, GotoFacts DEF TakeHandoff
      <4> QED BY <3>2, <3>5, <4>1, <4>2, <4>3, <4>4
    <3> QED BY <3>4, <3>5
  <2>4. CASE TryCount(t) \/ TryCheckOwner(t) \/ TryLoadHandoff(t) \/ TryTakeHandoff(t) \/ TryAddCount(t)
        BY <2>4, GotoFacts DEF TryCount, TryCheckOwner, TryLoadHandoff, TryTakeHandoff, TryAddCount,
                               OpInv, Queueing, Leaving
  <2>5. CASE UnlockNested(t)
        BY <2>5 DEF UnlockNested
  <2>6. CASE UnlockCount(t)
        BY <2>6, GotoFacts DEF UnlockCount, OpInv, Queueing, Leaving
  <2>11. CASE LeaveHandoff(t)
        BY <2>11, GotoFacts DEF LeaveHandoff
  <2>12. CASE ReceiveLock(t)
        BY <2>12, GotoFacts DEF ReceiveLock
  <2>7. CASE PollAgain(t)
        BY <2>7, EnterFacts, GotoFacts DEF PollAgain, OpInv
  <2>8. ASSUME NEW k \in WaitKinds, StartWait(t, k) PROVE CondOK(w)'
        BY <2>8, EnterFacts, LfMutexAssumption DEF StartWait, OpInv
  <2>9. ASSUME NEW u \in Threads, SendLock(t, u) PROVE CondOK(w)'
    <3>1. \A v \in Threads : v # t => pc'[v] = pc[v] /\ call'[v] = call[v]
          BY <2>9, EnterFacts DEF SendLock
    <3>2. /\ Op(t) = "none" /\ (UNCHANGED <<pc, call>> \/ (pc'[t] = "push" /\ call'[t].op = "send"))
          /\ pc[t] \in {"idle", "held"}
          BY <2>9, SendFacts DEF SendLock, OpInv
    <3>3. /\ armed' \in {armed, armed \ {<<u, "cond">>}} /\ sent' = sent \cup {u} /\ handoff' = handoff
          /\ Op(u) = "cv" /\ pc[u] = "cwait" /\ u \notin sent
          BY <2>9 DEF SendLock
    <3>4. CASE w = u
          BY <3>1, <3>2, <3>3, <3>4
    <3>5. CASE w # u
      <4>1. <<w, "cond">> \in armed' <=> <<w, "cond">> \in armed
            BY <3>3, <3>5
      <4> QED BY <3>1, <3>2, <3>3, <3>5, <4>1
    <3> QED BY <3>4, <3>5
  <2>13. ASSUME NEW u \in Threads, WakeLockRunning(t, u) PROVE CondOK(w)'
        BY <2>13 DEF WakeLockRunning, Waiting, MaybeRunning
  <2>14. ASSUME NEW u \in Threads, WakeLock(t, u) PROVE CondOK(w)'
        BY <2>14, EnterFacts DEF WakeLock, Waiting, OpInv
  <2> QED BY <1>1, <2>1, <2>2, <2>3, <2>4, <2>5, <2>6, <2>7, <2>8, <2>9, <2>10, <2>11, <2>12,
             <2>13, <2>14 DEF Steady
<1>2. CASE Push(t)
  <2>1. /\ pc'[t] = "ho" /\ pc[t] = "push" /\ call'[t] = call[t] /\ handoff' = handoff /\ sent' = sent
        /\ \A u \in Threads : u # t => pc'[u] = pc[u] /\ call'[u] = call[u]
        BY <1>2, GotoFacts DEF Push
  <2>2. Op(t) \notin {"cv", "wq"}
        BY <1>2, <2>1 DEF OpInv, Leaving
  <2>3. CASE Op(t) = "send"
    <3>1. /\ call[t].dest \in Threads /\ call[t].dest \in sent
          /\ Op(call[t].dest) = "cv" /\ pc[call[t].dest] = "cwait"
          BY <2>1, <2>3, DestType DEF PendInv, PendOK, Pending
    <3> QED BY <1>2, <2>1, <2>2, <2>3, <3>1, PushEffect DEF CondRec, CondOK
  <2>4. CASE Op(t) # "send"
    <3>1. Queue' = Queue \cup {<<t, "lock">>} /\ armed' = armed \cup {<<t, "lock">>}
          BY <1>2, <2>4, PushEffect
    <3>2. <<w, "cond">> \in Queue' => <<w, "cond">> \in Queue
          BY <3>1
    <3>3. <<w, "cond">> \in armed' <=> <<w, "cond">> \in armed
          BY <3>1
    <3> QED BY <2>1, <2>2, <3>2, <3>3 DEF CondRec, CondOK
  <2> QED BY <2>3, <2>4
<1>3. CASE Pop(t) \/ PopReversed(t)
  <2>1. /\ pc[t] \in {"pop", "rev"} /\ handoff' = handoff /\ sent' = sent
        BY <1>3, PopCases
  <2>2. handoff = 0 /\ \A v \in Threads : v # t => pc[v] \notin {"seq", "pop", "rev"}
        BY <2>1 DEF OneToken, Popping
  <2>3. <<t, "cond">> \notin Queue
        BY <2>1 DEF CondRec, CondOK
  <2>4. CASE TakeEffect(t)
    <3>1. \A v \in Threads : v # t => pc'[v] = pc[v] /\ call'[v] = call[v]
          BY <2>4, GotoFacts DEF TakeEffect
    <3>2. call'[t] = call[t] /\ pc'[t] \in {"rev", "seq", "abort"} /\ Queue' = Queue /\ armed' = armed
          BY <2>4, GotoFacts DEF TakeEffect
    <3>3. pc'[t] = "seq" => Queue = {}
          BY <1>3, <2>1, <2>2, <2>4, PopEmpties DEF TakeEffect
    <3>4. CASE w = t
          BY <2>1, <2>3, <3>2, <3>4 DEF CondRec, CondOK
    <3>5. CASE w # t
          BY <2>1, <2>2, <3>1, <3>2, <3>3, <3>5 DEF CondRec, CondOK
    <3> QED BY <3>4, <3>5
  <2>5. ASSUME NEW r \in Records, PopEffect(t, r) PROVE CondOK(w)'
    <3>1. \A v \in Threads : v # t => pc'[v] = pc[v] /\ call'[v] = call[v]
          BY <2>5, PoppedMove, GotoFacts DEF PopEffect
    <3>2. pc'[t] \in {"own", "abort", "sleep", "held", "idle", "cwait"}
          BY <2>5, PoppedMove, GotoFacts, DoneType DEF PopEffect
    <3>3. /\ call'[t] \in {call[t], NoCall}
          /\ Op(t) \in {"cv", "wq", "relock"} => call'[t] = call[t]
          BY <2>5, PoppedMove, GotoFacts, DoneIs DEF PopEffect
    <3>4. armed' = armed \ {r} /\ Queue' = Queue \ {r} /\ r \in Queue
          BY <2>5 DEF PopEffect, Popped
    <3>5. r = <<w, "cond">> => w \in sent /\ <<w, "cond">> \notin Queue'
          BY <3>4 DEF CondRec, CondOK
    <3>6. CASE w = t
      <4>1. r # <<t, "cond">>
            BY <2>3, <3>4
      <4> QED BY <2>1, <2>3, <3>2, <3>3, <3>4, <3>6, <4>1, CallOps DEF CondRec, CondOK
    <3>7. CASE w # t
      <4>1. pc'[t] # "seq"
            BY <3>2
      <4>2. pc'[w] = "ucnt" => r # <<w, "cond">>
            BY <3>1, <3>4, <3>7 DEF CondRec, CondOK
      <4> QED BY <2>1, <3>1, <3>4, <3>5, <3>7, <4>1, <4>2 DEF CondRec, CondOK
    <3> QED BY <3>6, <3>7
  <2> QED BY <1>3, <2>4, <2>5, PopCases
<1>4. CASE WakeLockPush(t)
  <2> DEFINE u == call[t].dest
  <2>1. /\ pc'[t] = "held" /\ pc[t] = "wake" /\ call'[t] = NoCall /\ handoff' = handoff /\ sent' = sent
        /\ \A v \in Threads : v # t => pc'[v] = pc[v] /\ call'[v] = call[v]
        BY <1>4, GotoFacts DEF WakeLockPush
  <2>2. handoff = 0 /\ \A v \in Threads : pc[v] # "seq"
        BY <2>1 DEF OneToken, Holds, Popping
  <2>3. /\ u \in Threads /\ u \in sent /\ Pending(t)
        /\ <<u, "cond">> \in armed /\ <<u, "cond">> \notin Queue
        BY <1>4, <2>1, DestType, WakePushEffect DEF PendInv, PendOK, Pending
  <2>4. u # t /\ t \notin sent
        BY <2>3 DEF CondRec, CondOK, Pending
  <2>5. CASE w = u
    <3>1. CASE Op(u) = "relock"
          BY <1>4, <2>1, <2>3, <2>4, <2>5, <3>1, WakePushEffect
             DEF CondRec, CondOK, PendInv, PendOK
    <3>2. CASE Op(u) = "wq"
      <4>1. pc[u] \in {"emp1", "emp2", "cas", "cwait", "abort"}
            BY <2>1, <2>3, <3>2 DEF PendInv, PendOK
      <4>2. armed' = armed
            BY <1>4, <3>2, WakePushEffect
      <4> QED BY <2>1, <2>2, <2>3, <2>4, <2>5, <3>2, <4>1, <4>2 DEF CondRec, CondOK
    <3> QED BY <1>4, <3>1, <3>2, WakePushEffect
  <2>6. CASE w # u
    <3>1. <<w, "cond">> \in Queue' <=> <<w, "cond">> \in Queue
          BY <1>4, <2>6, WakePushEffect
    <3>2. <<w, "cond">> \in armed' <=> <<w, "cond">> \in armed
          BY <1>4, <2>6, WakePushEffect
    <3>3. pc'[t] # "seq"
          BY <2>1
    <3> QED BY <2>1, <2>2, <2>4, <3>1, <3>2, <3>3, CallOps DEF CondRec, CondOK
  <2> QED BY <2>5, <2>6
<1> QED BY <1>1, <1>2, <1>3, <1>4

(* What keeps another thread's pending send_lock or wake_lock intact.         *)
LEMMA StillPending ==
  ASSUME BaseInv, NEW t \in Threads, NEW w \in Threads, w # t, Pending(w),
         \A v \in Threads : v # t => pc'[v] = pc[v] /\ call'[v] = call[v],
         call[w].dest \in sent', <<call[w].dest, "cond">> \notin Queue',
         <<call[w].dest, "cond">> \in armed',
         call[w].dest = t =>
           /\ call'[t] = call[t] /\ Op(t) = "wq"
           /\ pc'[t] \in {"emp1", "emp2", "cas", "cwait", "abort"}
  PROVE  PendOK(w)'
BY DestType DEF BaseInv, PendInv, PendOK, Pending, Op

(* A steady step of one thread leaves the others where they are, and what was *)
(* sent to an armed record stays sent.                                        *)
LEMMA SteadyOthers ==
  ASSUME BaseInv, NEW t \in Threads, Steady(t)
  PROVE  /\ \A v \in Threads : v # t => pc'[v] = pc[v] /\ call'[v] = call[v]
         /\ \A v \in Threads : v \in sent /\ <<v, "cond">> \in armed =>
              v \in sent' /\ <<v, "cond">> \in armed'
<1> USE DEF BaseInv, mutex, local
<1>1. CASE StartLock(t) \/ StartTry(t) \/ Spurious(t) \/ StartUnlock(t)
      BY <1>1, EnterFacts DEF StartLock, StartTry, Spurious, StartUnlock
<1>2. CASE LockCount(t) \/ LockCheckOwner(t) \/ SetOwner(t) \/ Woken(t)
      BY <1>2, GotoFacts DEF LockCount, LockCheckOwner, SetOwner, Woken
<1>3. CASE LoadHandoff(t) \/ EmptyPop(t) \/ EmptyPush(t) \/ TakeHandoff(t)
      BY <1>3, GotoFacts DEF LoadHandoff, EmptyPop, EmptyPush, TakeHandoff
<1>4. CASE TryCount(t) \/ TryCheckOwner(t) \/ TryLoadHandoff(t) \/ TryTakeHandoff(t) \/ TryAddCount(t)
      BY <1>4, GotoFacts DEF TryCount, TryCheckOwner, TryLoadHandoff, TryTakeHandoff, TryAddCount
<1>5. CASE UnlockNested(t)
      BY <1>5 DEF UnlockNested
<1>6. CASE UnlockCount(t) \/ LeaveHandoff(t) \/ ReceiveLock(t)
      BY <1>6, GotoFacts DEF UnlockCount, LeaveHandoff, ReceiveLock
<1>7. CASE PollAgain(t)
      BY <1>7, EnterFacts, GotoFacts DEF PollAgain
<1>8. CASE \E k \in WaitKinds : StartWait(t, k)
      BY <1>8, EnterFacts DEF StartWait
<1>9. CASE \E u \in Threads : SendLock(t, u) \/ WakeLockRunning(t, u) \/ WakeLock(t, u)
      BY <1>9, EnterFacts DEF SendLock, WakeLockRunning, WakeLock, Waiting
<1> QED BY <1>1, <1>2, <1>3, <1>4, <1>5, <1>6, <1>7, <1>8, <1>9 DEF Steady

(* A waiter that is about to be sent the lock does not return by itself.      *)
LEMMA DestMoves ==
  ASSUME BaseInv, NEW t \in Threads, Steady(t), NEW w \in Threads, Pending(w), call[w].dest = t
  PROVE  call'[t] = call[t] /\ Op(t) = "wq" /\ pc'[t] \in {"emp1", "emp2", "cas", "cwait", "abort"}
<1> USE DEF BaseInv, At, Op, mutex, local
<1>1. /\ t \in sent /\ <<t, "cond">> \in armed
      /\ \/ Op(t) = "cv" /\ pc[t] = "cwait"
         \/ Op(t) = "wq" /\ pc[t] \in {"emp1", "emp2", "cas", "cwait", "abort"} /\ Holds(w)
         \/ Op(t) = "relock" /\ pc[t] = "sleep" /\ Holds(w)
      BY DEF PendInv, PendOK, Pending, Holds
<1>2. Holds(w) => handoff = 0 /\ (t # w => ~Holds(t))
      BY DEF OneToken
<1>3. w # t
      BY <1>1 DEF Pending
<1>4. CASE EmptyPop(t) \/ EmptyPush(t)
      BY <1>1, <1>4, GotoFacts, DoneIs DEF EmptyPop, EmptyPush
<1>5. CASE TakeHandoff(t)
      BY <1>1, <1>2, <1>5, GotoFacts, DoneIs DEF TakeHandoff, OldInv
<1>6. CASE Woken(t)
      BY <1>1, <1>2, <1>3, <1>6 DEF Woken, Holds, Queueing
<1>7. CASE ReceiveLock(t) \/ Spurious(t) \/ UnlockNested(t)
      BY <1>1, <1>7 DEF ReceiveLock, Spurious, UnlockNested
<1>8. CASE StartLock(t) \/ StartTry(t) \/ StartUnlock(t) \/ LockCount(t) \/ LockCheckOwner(t)
           \/ SetOwner(t) \/ LoadHandoff(t)
      BY <1>1, <1>8 DEF StartLock, StartTry, StartUnlock, LockCount, LockCheckOwner, SetOwner,
                       LoadHandoff
<1>9. CASE TryCount(t) \/ TryCheckOwner(t) \/ TryLoadHandoff(t) \/ TryTakeHandoff(t) \/ TryAddCount(t)
      BY <1>1, <1>9 DEF TryCount, TryCheckOwner, TryLoadHandoff, TryTakeHandoff, TryAddCount
<1>10. CASE UnlockCount(t) \/ LeaveHandoff(t) \/ PollAgain(t)
       BY <1>1, <1>10 DEF UnlockCount, LeaveHandoff, PollAgain
<1>11. CASE \E k \in WaitKinds : StartWait(t, k)
       BY <1>1, <1>11 DEF StartWait
<1>12. CASE \E u \in Threads : SendLock(t, u) \/ WakeLockRunning(t, u) \/ WakeLock(t, u)
       BY <1>1, <1>12 DEF SendLock, WakeLockRunning, WakeLock
<1> QED BY <1>4, <1>5, <1>6, <1>7, <1>8, <1>9, <1>10, <1>11, <1>12 DEF Steady

(* A send_lock or wake_lock that has just counted.                            *)
NewPending(t, u) ==
  /\ u \in Threads \ sent /\ sent' = sent \cup {u} /\ armed' = armed /\ u # t
  /\ Op(t)' = "send" /\ call'[t].dest = u
  /\ \/ pc'[t] = "push" /\ Op(u) = "cv" /\ pc[u] = "cwait"
     \/ /\ pc'[t] = "wake"
        /\ \/ Op(u) = "wq" /\ pc[u] \in {"emp1", "emp2", "cas", "cwait", "abort"}
           \/ Op(u) = "relock" /\ pc[u] = "sleep"

(* A steady step does not come from a pending send, and begins at most one.   *)
LEMMA StartsPending ==
  ASSUME BaseInv, NEW t \in Threads, Steady(t)
  PROVE  (~Pending(t)) /\ (~Pending(t)' \/ \E u \in Threads : NewPending(t, u))
<1> USE CallOps DEF BaseInv, At, Op, mutex, local, Pending
<1>1. CASE StartLock(t) \/ StartTry(t) \/ Spurious(t) \/ StartUnlock(t)
      BY <1>1, EnterFacts DEF StartLock, StartTry, Spurious, StartUnlock
<1>2. CASE LockCount(t) \/ LockCheckOwner(t) \/ SetOwner(t) \/ Woken(t)
      BY <1>2, GotoFacts DEF LockCount, LockCheckOwner, SetOwner, Woken, OpInv, Queueing
<1>3. CASE LoadHandoff(t) \/ EmptyPop(t) \/ EmptyPush(t) \/ TakeHandoff(t)
      BY <1>3, GotoFacts, DoneType DEF LoadHandoff, EmptyPop, EmptyPush, TakeHandoff
<1>4. CASE TryCount(t) \/ TryCheckOwner(t) \/ TryLoadHandoff(t) \/ TryTakeHandoff(t) \/ TryAddCount(t)
      BY <1>4, GotoFacts DEF TryCount, TryCheckOwner, TryLoadHandoff, TryTakeHandoff, TryAddCount
<1>5. CASE UnlockNested(t)
      BY <1>5 DEF UnlockNested
<1>6. CASE UnlockCount(t) \/ LeaveHandoff(t) \/ ReceiveLock(t)
      BY <1>6, GotoFacts, DoneType DEF UnlockCount, LeaveHandoff, ReceiveLock
<1>7. CASE PollAgain(t)
      BY <1>7, EnterFacts, GotoFacts DEF PollAgain
<1>8. CASE \E k \in WaitKinds : StartWait(t, k)
      BY <1>8, EnterFacts DEF StartWait
<1>9. ASSUME NEW u \in Threads, SendLock(t, u) PROVE ~Pending(t)' \/ NewPending(t, u)
  <2>1. Op(t) = "none" /\ u # t
        BY <1>9 DEF SendLock, OpInv
  <2>2. CASE count = 0
        BY <1>9, <2>1, <2>2 DEF SendLock
  <2>3. CASE count # 0
    <3>1. pc'[t] = "push" /\ call'[t].op = "send" /\ call'[t].dest = u
          BY <1>9, <2>3, EnterFacts DEF SendLock
    <3>2. /\ u \notin sent /\ sent' = sent \cup {u} /\ armed' = armed
          /\ Op(u) = "cv" /\ pc[u] = "cwait"
          BY <1>9, <2>3 DEF SendLock
    <3> QED BY <2>1, <3>1, <3>2 DEF NewPending
  <2> QED BY <2>2, <2>3
<1>10. ASSUME NEW u \in Threads, WakeLockRunning(t, u) PROVE ~Pending(t)'
       BY <1>10 DEF WakeLockRunning
<1>11. ASSUME NEW u \in Threads, WakeLock(t, u) PROVE NewPending(t, u)
  <2>1. Op(t) = "none" /\ u # t /\ Holds(t) /\ Op(u) \in {"wq", "relock"} /\ u \notin sent
        BY <1>11 DEF WakeLock, OpInv, Waiting, Holds
  <2>2. pc[u] \notin {"ucnt", "pop", "rev", "seq"}
        BY <2>1 DEF OneToken, Holds, Popping
  <2>3. Op(u) = "wq" => pc[u] \in {"emp1", "emp2", "cas", "cwait", "abort"}
        BY <2>2 DEF OpInv, Leaving
  <2>4. Op(u) = "relock" => pc[u] = "sleep"
        BY <1>11 DEF WakeLock, MaybeWaiting
  <2>5. pc'[t] = "wake" /\ call'[t].op = "send" /\ call'[t].dest = u
        BY <1>11, EnterFacts DEF WakeLock
  <2> QED BY <1>11, <2>1, <2>3, <2>4, <2>5 DEF WakeLock, NewPending
<1>12. ~Pending(t)
       BY DEF Steady, StartLock, StartTry, Spurious, StartUnlock, LockCount, LockCheckOwner, SetOwner,
              Woken, LoadHandoff, EmptyPop, EmptyPush, TakeHandoff, TryCount, TryCheckOwner,
              TryLoadHandoff, TryTakeHandoff, TryAddCount, UnlockNested, UnlockCount, LeaveHandoff,
              ReceiveLock, PollAgain, StartWait, SendLock, WakeLockRunning, WakeLock
<1>13. CASE \E u \in Threads : SendLock(t, u) \/ WakeLockRunning(t, u) \/ WakeLock(t, u)
       BY <1>9, <1>10, <1>11, <1>12, <1>13
<1> QED BY <1>1, <1>2, <1>3, <1>4, <1>5, <1>6, <1>7, <1>8, <1>12, <1>13 DEF Steady

(* PendInv is kept.                                                           *)
LEMMA PendNext == ASSUME BaseInv, [Next]_vars PROVE PendInv'
<1> USE DEF BaseInv, At, Op, local, mutex
<1>0. CASE UNCHANGED vars
      BY <1>0, SameQueue DEF vars, PendInv, PendOK, Pending
<1> SUFFICES ASSUME NEW t \in Threads,
                    Steady(t) \/ Push(t) \/ Pop(t) \/ PopReversed(t) \/ WakeLockPush(t)
             PROVE  PendInv'
    BY <1>0, Cases
<1>1. \A w \in Threads : Pending(w) =>
        /\ call[w].dest \in Threads /\ call[w].dest \in sent
        /\ <<call[w].dest, "cond">> \notin Queue /\ <<call[w].dest, "cond">> \in armed
      BY DestType DEF PendInv, PendOK, Pending
<1>2. CASE Steady(t)
  <2>1. Queue' = Queue
        BY <1>2, SteadyQueue
  <2>2. ASSUME NEW w \in Threads PROVE PendOK(w)'
    <3>1. CASE w # t
      <4>1. Pending(w)' => Pending(w)
            BY <1>2, <3>1, SteadyOthers DEF Pending
      <4>2. CASE Pending(w)
        <5>1. call[w].dest = t =>
                /\ call'[t] = call[t] /\ Op(t) = "wq"
                /\ pc'[t] \in {"emp1", "emp2", "cas", "cwait", "abort"}
              BY <1>2, <4>2, DestMoves
        <5>2. \A v \in Threads : v # t => pc'[v] = pc[v] /\ call'[v] = call[v]
              BY <1>2, SteadyOthers
        <5>3. /\ call[w].dest \in sent' /\ <<call[w].dest, "cond">> \notin Queue'
              /\ <<call[w].dest, "cond">> \in armed'
              BY <1>1, <1>2, <2>1, <4>2, SteadyOthers
        <5> QED BY <3>1, <4>2, <5>1, <5>2, <5>3, StillPending
      <4> QED BY <4>1, <4>2 DEF PendOK
    <3>2. CASE w = t
      <4>1. ASSUME NEW u \in Threads, NewPending(t, u) PROVE PendOK(t)'
        <5>1. pc'[u] = pc[u] /\ call'[u] = call[u]
              BY <1>2, <4>1, SteadyOthers DEF NewPending
        <5>2. <<u, "cond">> \notin Queue
              BY <4>1 DEF NewPending, CondRec, CondOK
        <5>3. <<u, "cond">> \in armed
              BY <4>1 DEF NewPending, CondRec, CondOK
        <5> QED BY <2>1, <4>1, <5>1, <5>2, <5>3 DEF NewPending, PendOK
      <4> QED BY <1>2, <3>2, <4>1, StartsPending DEF PendOK
    <3> QED BY <3>1, <3>2
  <2>3. ASSUME NEW v \in Threads, NEW w \in Threads, v # w, Pending(v)', Pending(w)'
        PROVE  call'[v].dest # call'[w].dest
    <3>1. ASSUME NEW x \in Threads, x # t, Pending(x)' PROVE Pending(x) /\ call'[x] = call[x]
          BY <1>2, <3>1, SteadyOthers DEF Pending
    <3>2. Pending(t)' => call'[t].dest \notin sent
          BY <1>2, StartsPending DEF NewPending
    <3> QED BY <1>1, <2>3, <3>1, <3>2 DEF PendInv
  <2> QED BY <2>2, <2>3 DEF PendInv
<1>3. ASSUME sent' = sent, ~Pending(t)',
             \A v \in Threads : v # t => pc'[v] = pc[v] /\ call'[v] = call[v],
             \A w \in Threads : w # t /\ Pending(w) =>
               /\ call[w].dest # t
               /\ <<call[w].dest, "cond">> \notin Queue' /\ <<call[w].dest, "cond">> \in armed'
      PROVE  PendInv'
  <2>1. ASSUME NEW w \in Threads PROVE PendOK(w)'
    <3>1. CASE w # t
      <4>1. Pending(w)' => Pending(w)
            BY <1>3, <3>1 DEF Pending
      <4>2. CASE Pending(w)
            BY <1>1, <1>3, <3>1, <4>2, StillPending
      <4> QED BY <4>1, <4>2 DEF PendOK
    <3> QED BY <1>3, <3>1 DEF PendOK
  <2>2. ASSUME NEW x \in Threads, Pending(x)' PROVE Pending(x) /\ call'[x] = call[x]
        BY <1>3, <2>2 DEF Pending
  <2>3. ASSUME NEW v \in Threads, NEW w \in Threads, v # w, Pending(v)', Pending(w)'
        PROVE  call'[v].dest # call'[w].dest
        BY <2>2, <2>3 DEF PendInv
  <2> QED BY <2>1, <2>3 DEF PendInv
<1>4. \A w \in Threads : Pending(w) /\ call[w].dest = t => pc[t] \notin {"push", "pop", "rev", "wake"}
      BY DEF PendInv, PendOK, Pending
<1>5. CASE Push(t)
  <2>1. /\ pc[t] = "push" /\ pc'[t] = "ho"
        /\ \A v \in Threads : v # t => pc'[v] = pc[v] /\ call'[v] = call[v]
        BY <1>5, GotoFacts DEF Push
  <2>2. ASSUME NEW w \in Threads, w # t, Pending(w)
        PROVE  /\ <<call[w].dest, "cond">> \notin Queue' /\ <<call[w].dest, "cond">> \in armed'
    <3>1. Op(t) = "send" => call[w].dest # call[t].dest
          BY <2>1, <2>2 DEF PendInv, Pending
    <3> QED BY <1>1, <1>5, <2>2, <3>1, PushEffect
  <2> QED BY <1>3, <1>4, <1>5, <2>1, <2>2 DEF Push, Pending
<1>6. CASE Pop(t) \/ PopReversed(t)
  <2>1. pc[t] \in {"pop", "rev"} /\ sent' = sent
        BY <1>6, PopCases
  <2>2. CASE TakeEffect(t)
    <3>1. /\ pc'[t] \in {"rev", "seq", "abort"}
          /\ \A v \in Threads : v # t => pc'[v] = pc[v] /\ call'[v] = call[v]
          BY <2>2, GotoFacts DEF TakeEffect
    <3> QED BY <1>1, <1>3, <1>4, <2>1, <2>2, <3>1 DEF TakeEffect, Pending
  <2>3. ASSUME NEW r \in Records, PopEffect(t, r) PROVE PendInv'
    <3>1. \A v \in Threads : v # t => pc'[v] = pc[v] /\ call'[v] = call[v]
          BY <2>3, PoppedMove, GotoFacts DEF PopEffect
    <3>2. pc'[t] \in {"own", "abort", "sleep", "held", "idle", "cwait"}
          BY <2>3, PoppedMove, GotoFacts, DoneType DEF PopEffect
    <3>3. armed' = armed \ {r} /\ Queue' = Queue \ {r} /\ r \in Queue
          BY <2>3 DEF PopEffect, Popped
    <3> QED BY <1>1, <1>3, <1>4, <2>1, <3>1, <3>2, <3>3 DEF Pending
  <2> QED BY <1>6, <2>2, <2>3, PopCases
<1>7. CASE WakeLockPush(t)
  <2>1. /\ pc[t] = "wake" /\ pc'[t] = "held"
        /\ \A v \in Threads : v # t => pc'[v] = pc[v] /\ call'[v] = call[v]
        BY <1>7, GotoFacts DEF WakeLockPush
  <2>2. ASSUME NEW w \in Threads, w # t, Pending(w)
        PROVE  /\ <<call[w].dest, "cond">> \notin Queue' /\ <<call[w].dest, "cond">> \in armed'
    <3>1. Pending(t)
          BY <1>7, WakePushEffect
    <3>2. call[w].dest # call[t].dest
          BY <2>2, <3>1 DEF PendInv
    <3> QED BY <1>1, <1>7, <2>2, <3>2, WakePushEffect
  <2> QED BY <1>3, <1>4, <1>7, <2>1, <2>2 DEF WakeLockPush, Pending
<1> QED BY <1>2, <1>5, <1>6, <1>7

(* The inductive invariant.                                                   *)
LEMMA BaseInit == Init => BaseInv
<1> SUFFICES ASSUME Init PROVE BaseInv
    OBVIOUS
<1> USE LfMutexAssumption DEF Init, Op
<1>1. TypeOK
      BY CallTypes DEF TypeOK, Labels
<1>2. \A t \in Threads : pc[t] = "idle" /\ Op(t) = "none" /\ taken[t] = <<>> /\ ~Holds(t) /\ ~Popping(t)
      BY CallOps DEF Holds, Popping
<1>3. OneToken /\ CountInv
      BY <1>2 DEF OneToken, CountInv, Token
<1>4. OpInv /\ OldInv /\ OwnerInv
      BY <1>2 DEF OpInv, OldInv, OwnerInv
<1>5. ListInv /\ RevInv /\ Queue = {}
      BY <1>2, InSeqEmpty DEF ListInv, RevInv, Queue
<1>6. LockRec /\ CondRec /\ PendInv
      BY <1>2, <1>5 DEF LockRec, LockOK, CondRec, CondOK, PendInv, PendOK, Pending
<1> QED BY <1>1, <1>3, <1>4, <1>5, <1>6 DEF BaseInv

(* BaseInv is inductive.                                                      *)
LEMMA BaseNext == BaseInv /\ [Next]_vars => BaseInv'
<1> SUFFICES ASSUME BaseInv, [Next]_vars PROVE BaseInv'
    OBVIOUS
<1>1. OneToken'
      BY TokenMoves, TokenSteps DEF BaseInv
<1>2. TypeOK' /\ OpInv' /\ OldInv' /\ OwnerInv' /\ RevInv'
      BY TypeNext, OpNext, OldNext, OwnerNext, RevNext DEF BaseInv
<1> QED BY <1>1, <1>2, CountNext, ListNext, LockRecNext, CondRecNext, PendNext DEF BaseInv

(* BaseInv always holds.                                                      *)
LEMMA BaseAlways == Spec => []BaseInv
BY BaseInit, BaseNext, PTL DEF Spec

(* The fields of the mutex and the locals of its functions keep their types;  *)
(* count and depth are never taken below 0.                                   *)
THEOREM TypeCorrect == Spec => []TypeOK
<1>1. BaseInv => TypeOK
      BY DEF BaseInv
<1> QED BY <1>1, BaseAlways, PTL

(* lfmutex.cc: no two threads hold the mutex, no two threads pop the          *)
(* single-consumer queue, and a handoff is offered only when nobody does either. *)
THEOREM TokenIsOne == Spec => []OneToken
<1>1. BaseInv => OneToken
      BY DEF BaseInv
<1> QED BY <1>1, BaseAlways, PTL
-----------------------------------------------------------------------------
(* The holder that the refinement maps to.                                    *)
holderBar == IF \E t \in Threads : Holds(t) THEN CHOOSE t \in Threads : Holds(t) ELSE None

(* With one token, the abstract holder is the thread that holds the mutex.    *)
LEMMA HolderIs ==
  ASSUME OneToken
  PROVE  /\ (\A t \in Threads : ~Holds(t)) => holderBar = None
         /\ \A t \in Threads : Holds(t) => holderBar = t
BY DEF OneToken, holderBar

(* The same in the next state.                                                *)
LEMMA HolderIsNext ==
  ASSUME OneToken'
  PROVE  /\ (\A t \in Threads : ~Holds(t)') => holderBar' = None
         /\ \A t \in Threads : Holds(t)' => holderBar' = t
BY DEF OneToken, holderBar

(* Nobody holds the mutex at the start.                                       *)
LEMMA RefineInit == Init => M!MutexInit
BY CallOps DEF Init, M!MutexInit, Holds, Op

(* The mutex changes hands only by a step of the abstract mutex: a Quiet step *)
(* keeps or drops the holder, a Passed step has none before it or none after. *)
LEMMA RefineNext ==
  ASSUME BaseInv, BaseInv', [Next]_vars
  PROVE  [M!MutexNext]_holderBar
<1>1. /\ (\A t \in Threads : ~Holds(t)) => holderBar = None
      /\ \A t \in Threads : Holds(t) => holderBar = t
      BY HolderIs DEF BaseInv
<1>2. /\ (\A t \in Threads : ~Holds(t)') => holderBar' = None
      /\ \A t \in Threads : Holds(t)' => holderBar' = t
      BY HolderIsNext DEF BaseInv
<1>3. CASE \A t \in Threads : ~Holds(t)'
      BY <1>1, <1>2, <1>3 DEF M!MutexNext, M!Release, holderBar
<1>4. ASSUME NEW t \in Threads, Holds(t)', \A u \in Threads : ~Holds(u) PROVE [M!MutexNext]_holderBar
      BY <1>1, <1>2, <1>4 DEF M!MutexNext, M!Acquire, holderBar
<1>5. ASSUME NEW t \in Threads, Holds(t)', NEW u \in Threads, Holds(u) PROVE holderBar' = holderBar
  <2>1. Quiet
        BY <1>5, TokenMoves DEF Passed, Left
  <2>2. Holds(t)
        BY <1>5, <2>1 DEF Quiet
  <2> QED BY <1>1, <1>2, <1>5, <2>2
<1> QED BY <1>3, <1>4, <1>5

(* lfmutex.cc implements a mutex: it is acquired only when it is free.        *)
THEOREM Refinement == Spec => ImplementsMutex
<1>1. Init => M!MutexInit
      BY RefineInit
<1>2. BaseInv /\ BaseInv' /\ [Next]_vars => [M!MutexNext]_holderBar
      BY RefineNext
<1> QED BY <1>1, <1>2, BaseAlways, PTL DEF Spec, ImplementsMutex, M!MutexSpec, holderBar
-----------------------------------------------------------------------------
(* What the sequence number is for: a handoff that is still the one that was  *)
(* read is offered while the queue that was seen non-empty still is.          *)
NonEmpty == poplist # <<>> \/ pushlist # <<>>

SeqInv ==
  /\ handoff <= sequence /\ \A t \in Threads : old[t] <= sequence
  /\ \A t \in Threads : pc[t] = "cas" /\ handoff = old[t] => NonEmpty
  /\ \A t \in Threads : pc[t] = "pop" /\ Op(t) \in {"lock", "relock", "send"} => NonEmpty

(* How a step changes the numbers, and where it moves its thread.             *)
Numbers(t) ==
  \/ /\ sequence' = sequence /\ handoff' \in {0, handoff} /\ old'[t] \in {0, old[t], handoff}
     /\ \A v \in Threads : v # t => old'[v] = old[v]
  \/ /\ sequence' = NextSequence /\ handoff' = NextSequence /\ old'[t] = NextSequence
     /\ \A v \in Threads : v # t => old'[v] = old[v]

Entered(t) ==
  /\ \A v \in Threads : v # t => pc'[v] = pc[v] /\ call'[v] = call[v]
  /\ pc'[t] = "cas" => NonEmpty'
  /\ pc'[t] = "pop" /\ Op(t)' \in {"lock", "relock", "send"} =>
       pc[t] = "cas" /\ handoff = old[t] /\ UNCHANGED <<poplist, pushlist>>
  /\ pc'[t] = "abort" => Pop(t) \/ PopReversed(t)

(* A steady step changes the numbers and moves its thread in these ways, and  *)
(* leaves the lists alone.                                                    *)
LEMMA SteadyEntered ==
  ASSUME BaseInv, NEW t \in Threads, Steady(t)
  PROVE  Numbers(t) /\ Entered(t) /\ UNCHANGED <<poplist, pushlist>>
<1> USE CallOps, DoneIs DEF BaseInv, mutex, local, At, Op, NonEmpty
<1>1. CASE StartLock(t) \/ StartTry(t) \/ Spurious(t) \/ StartUnlock(t)
      BY <1>1, EnterFacts DEF StartLock, StartTry, Spurious, StartUnlock, Numbers, Entered
<1>2. CASE LockCount(t) \/ LockCheckOwner(t) \/ SetOwner(t) \/ Woken(t)
      BY <1>2, GotoFacts DEF LockCount, LockCheckOwner, SetOwner, Woken, Numbers, Entered
<1>3. CASE LoadHandoff(t) \/ EmptyPush(t)
  <2>1. Numbers(t)
        BY <1>3 DEF LoadHandoff, EmptyPush, Numbers, TypeOK
  <2> QED BY <1>3, <2>1, GotoFacts, DoneType DEF LoadHandoff, EmptyPush, Entered
<1>4. CASE EmptyPop(t)
      BY <1>4, GotoFacts DEF EmptyPop, Numbers, Entered
<1>5. CASE TakeHandoff(t) \/ TryTakeHandoff(t) \/ TryLoadHandoff(t)
  <2>1. Numbers(t)
        BY <1>5 DEF TakeHandoff, TryTakeHandoff, TryLoadHandoff, Numbers, TypeOK
  <2> QED BY <1>5, <2>1, GotoFacts, DoneType DEF TakeHandoff, TryTakeHandoff, TryLoadHandoff, Entered
<1>6. CASE TryCount(t) \/ TryCheckOwner(t) \/ TryAddCount(t)
      BY <1>6, GotoFacts DEF TryCount, TryCheckOwner, TryAddCount, Numbers, Entered
<1>7. CASE UnlockNested(t)
      BY <1>7 DEF UnlockNested, Numbers, Entered
<1>8. CASE UnlockCount(t)
      BY <1>8, GotoFacts, DoneType DEF UnlockCount, OpInv, Queueing, Leaving, Numbers, Entered
<1>9. CASE LeaveHandoff(t)
  <2>1. Numbers(t)
        BY <1>9 DEF LeaveHandoff, Numbers, TypeOK
  <2> QED BY <1>9, <2>1, GotoFacts DEF LeaveHandoff, Entered
<1>10. CASE ReceiveLock(t)
       BY <1>10, GotoFacts DEF ReceiveLock, Numbers, Entered
<1>11. CASE PollAgain(t)
       BY <1>11, EnterFacts, GotoFacts DEF PollAgain, Numbers, Entered
<1>12. CASE \E k \in WaitKinds : StartWait(t, k)
       BY <1>12, EnterFacts DEF StartWait, Numbers, Entered
<1>13. CASE \E u \in Threads : SendLock(t, u) \/ WakeLockRunning(t, u) \/ WakeLock(t, u)
       BY <1>13, EnterFacts DEF SendLock, WakeLockRunning, WakeLock, Numbers, Entered
<1> QED BY <1>1, <1>2, <1>3, <1>4, <1>5, <1>6, <1>7, <1>8, <1>9, <1>10, <1>11, <1>12, <1>13 DEF Steady

(* So do the steps that move records; only the popping thread empties them.   *)
LEMMA MovedEntered ==
  ASSUME BaseInv, NEW t \in Threads, Push(t) \/ Pop(t) \/ PopReversed(t) \/ WakeLockPush(t)
  PROVE  Numbers(t) /\ Entered(t) /\ (NonEmpty => NonEmpty' \/ Popping(t))
<1> USE DEF BaseInv, mutex, local, At, Op
<1>1. CASE Push(t)
  <2>1. NonEmpty'
    <3>1. PICK r \in Records : pushlist' = Append(pushlist, r)
          BY <1>1, DestType DEF Push, Records
    <3> QED BY <3>1 DEF NonEmpty, TypeOK
  <2> QED BY <1>1, <2>1, GotoFacts DEF Push, Numbers, Entered
<1>2. CASE Pop(t) \/ PopReversed(t)
  <2>1. Numbers(t) /\ Popping(t)
        BY <1>2, PopCases DEF Numbers, Popping
  <2>2. CASE TakeEffect(t)
        BY <1>2, <2>1, <2>2, PopCases, GotoFacts DEF TakeEffect, Entered
  <2>3. ASSUME NEW r \in Records, PopEffect(t, r) PROVE Entered(t)
    <3>1. pc'[t] \in {"own", "abort", "sleep", "held", "idle", "cwait"}
          BY <2>3, PoppedMove, GotoFacts, DoneType DEF PopEffect
    <3> QED BY <1>2, <2>3, <3>1, PopCases, PoppedMove, GotoFacts DEF PopEffect, Entered
  <2> QED BY <1>2, <2>1, <2>2, <2>3, PopCases
<1>3. CASE WakeLockPush(t)
  <2>1. NonEmpty => NonEmpty'
    <3> DEFINE r == <<call[t].dest, "cond">>
    <3>1. r \in Records
          BY <1>3, DestType DEF WakeLockPush, Records
    <3>2. pushlist' \in {pushlist, Append(pushlist, r)} /\ poplist' = poplist
          BY <1>3 DEF WakeLockPush
    <3> HIDE DEF r
    <3> QED BY <3>1, <3>2 DEF NonEmpty, TypeOK
  <2> QED BY <1>3, <2>1, GotoFacts DEF WakeLockPush, Numbers, Entered
<1> QED BY <1>1, <1>2, <1>3

(* ++sequence before it wraps.                                                *)
LEMMA SmallMod == ASSUME NEW n \in Nat \ {0}, NEW k \in Nat, k < n PROVE k % n = k
OBVIOUS

(* Below its last value, sequence is counted up by one.                       *)
LEMMA NoWrap ==
  ASSUME TypeOK, sequence < SeqMod - 1 PROVE NextSequence = sequence + 1
<1>1. sequence \in Nat /\ SeqMod \in Nat \ {0} /\ sequence + 1 < SeqMod
      BY LfMutexAssumption DEF TypeOK
<1>2. (sequence + 1) % SeqMod = sequence + 1
      BY <1>1, SmallMod
<1> QED BY <1>1, <1>2 DEF NextSequence

(* A compare_exchange that succeeds finds a record to pop.                    *)
LEMMA SeqNext ==
  ASSUME BaseInv, SeqInv, NoAbort, sequence < SeqMod - 1, [Next]_vars
  PROVE  SeqInv' /\ NoAbort'
<1> USE DEF BaseInv
<1>0. CASE UNCHANGED vars
      BY <1>0 DEF vars, mutex, local, SeqInv, NonEmpty, NoAbort, Op
<1> SUFFICES ASSUME NEW t \in Threads,
                    Steady(t) \/ Push(t) \/ Pop(t) \/ PopReversed(t) \/ WakeLockPush(t)
             PROVE  SeqInv' /\ NoAbort'
    BY <1>0, Cases
<1>1. Numbers(t) /\ Entered(t) /\ (NonEmpty => NonEmpty' \/ Popping(t))
      BY SteadyEntered, MovedEntered DEF NonEmpty
<1>2. /\ sequence \in Nat /\ handoff \in Nat /\ \A v \in Threads : old[v] \in Nat
      /\ NextSequence = sequence + 1
      BY NoWrap, LfMutexAssumption DEF TypeOK
<1>3. handoff' <= sequence' /\ \A v \in Threads : old'[v] <= sequence'
      BY <1>1, <1>2 DEF Numbers, SeqInv
<1>4. ASSUME NEW u \in Threads, pc'[u] = "cas", handoff' = old'[u] PROVE NonEmpty'
  <2>1. CASE u = t
        BY <1>1, <1>4, <2>1 DEF Entered
  <2>2. CASE u # t
    <3>1. pc[u] = "cas" /\ old'[u] = old[u] /\ old[u] # 0
          BY <1>1, <1>4, <2>2 DEF Entered, Numbers, OldInv
    <3>2. handoff = old[u]
          BY <1>1, <1>2, <1>4, <2>2, <3>1 DEF Numbers, SeqInv
    <3>3. ~Popping(t)
          BY <3>1, <3>2 DEF OneToken
    <3> QED BY <1>1, <3>1, <3>2, <3>3 DEF SeqInv
  <2> QED BY <2>1, <2>2
<1>5. ASSUME NEW u \in Threads, pc'[u] = "pop", Op(u)' \in {"lock", "relock", "send"} PROVE NonEmpty'
  <2>1. CASE u = t
        BY <1>1, <1>5, <2>1 DEF Entered, SeqInv, NonEmpty
  <2>2. CASE u # t
    <3>1. pc[u] = "pop" /\ Op(u) \in {"lock", "relock", "send"}
          BY <1>1, <1>5, <2>2 DEF Entered, Op
    <3>2. ~Popping(t)
          BY <2>2, <3>1 DEF OneToken, Popping
    <3> QED BY <1>1, <3>1, <3>2 DEF SeqInv
  <2> QED BY <2>1, <2>2
<1>6. ASSUME pc'[t] = "abort" PROVE FALSE
  <2>1. Pop(t) \/ PopReversed(t)
        BY <1>1, <1>6 DEF Entered
  <2>2. pc[t] \in {"pop", "rev"} /\ ~Holds(t) /\ \A v \in Threads : v # t => pc[v] # "rev"
        BY <2>1, PopCases DEF OneToken, Popping
  <2>3. ASSUME NEW r \in Records, PopEffect(t, r) PROVE FALSE
    <3>1. r # <<t, "lock">> /\ r \in Queue
          BY <1>6, <2>3, PoppedMove, GotoFacts DEF PopEffect
    <3>2. r # <<t, "cond">>
          BY <2>2, <3>1 DEF CondRec, CondOK
    <3>3. r[1] # t
          BY <3>1, <3>2 DEF Records
    <3>4. Op(t) \in {"lock", "relock"} => <<t, "lock">> \in armed
          BY <2>2 DEF Holds, Queueing
    <3>5. Goto(t, Done(t))
          BY <2>3, <3>1, <3>3, <3>4 DEF PopEffect, Popped
    <3> QED BY <1>6, <3>5, GotoFacts, DoneType
  <2>4. CASE TakeEffect(t)
    <3>1. pc[t] = "pop" /\ ~NonEmpty /\ Op(t) \notin {"unlock", "cv", "wq"}
          BY <1>6, <2>4, GotoFacts DEF TakeEffect, At, NonEmpty
    <3>2. Op(t) \in {"lock", "relock", "send"}
          BY <3>1 DEF OpInv, TypeOK, Calls, OpNames, Op, Queueing, Leaving
    <3> QED BY <3>1, <3>2 DEF SeqInv
  <2> QED BY <2>1, <2>3, <2>4, PopCases
<1> QED BY <1>1, <1>3, <1>4, <1>5, <1>6 DEF SeqInv, NoAbort, Entered

(* No assertion of lfmutex.cc fails as long as `sequence` has not gone through *)
(* all its 2^32 values.                                                       *)
THEOREM NothingAborts == Spec /\ [](sequence < SeqMod - 1) => []NoAbort
<1>1. Init => SeqInv /\ NoAbort
      BY DEF Init, SeqInv, NoAbort
<1>2. BaseInv /\ SeqInv /\ NoAbort /\ sequence < SeqMod - 1 /\ [Next]_vars => SeqInv' /\ NoAbort'
      BY SeqNext
<1> QED BY <1>1, <1>2, BaseAlways, PTL DEF Spec
=============================================================================
