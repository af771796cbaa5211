------------------------------- MODULE RwLock -------------------------------
(***************************************************************************)
(* osv/unikernel/core/rwlock.cc with the two waitqueues of                 *)
(* core/waitqueue.cc, over the mutex _mtx: an owner and a first-in-first-  *)
(* out queue of records.                                                   *)
(*                                                                         *)
(* Every operation runs its body under _mtx, in one step of who owns it.   *)
(* wait() releases it and sleeps.  A waker takes the oldest record off the *)
(* waitqueue and, when that thread still sleeps, puts the record into the  *)
(* mutex's queue (wake_lock), so that between a wake and what the woken    *)
(* thread then finds anybody may have had the mutex.  Any thread::wake()   *)
(* ends a sleep early; such a thread takes _mtx by itself.                 *)
(***************************************************************************)
EXTENDS Naturals, Sequences, SequencesExt, FiniteSets

CONSTANTS Threads, None,
          MaxDepth,     \* bound on the recursion of a writer
          MaxOps,       \* bound on the calls that take the lock
          MaxSpurious   \* bound on early wake-ups

ASSUME RwLockAssumption ==
  /\ None \notin Threads /\ IsFiniteSet(Threads)
  /\ MaxDepth \in Nat \ {0} /\ MaxOps \in Nat /\ MaxSpurious \in Nat

VARIABLES
  owner,      \* of _mtx
  s,          \* the fields of the rwlock, the mutex's queue, lock_sent and woken records
  pc, op,     \* where a thread is, and in which call
  mode,       \* what its client holds: [read, write] counts (a history variable)
  ops, wakes

vars == <<owner, s, pc, op, mode, ops, wakes>>

Takes    == {"rlock", "try_rlock", "wlock", "try_wlock", "try_upgrade"}
Releases == {"runlock", "wunlock", "downgrade"}
Labels   == {"idle", "enter", "asleep", "awake"}
Queue    == Seq(Threads)

(* The fields of rwlock, of its waitqueues and of its mutex.                  *)
TypeOK ==
  /\ owner \in Threads \cup {None}
  /\ s \in [readers: Nat, wowner: Threads \cup {None}, wrecurse: Nat, rq: Queue, wq: Queue,
            queue: Seq(Threads \X {"lock", "cond"}), sent: SUBSET Threads, woken: SUBSET Threads]
  /\ pc \in [Threads -> Labels] /\ op \in [Threads -> Takes \cup Releases \cup {"none"}]
  /\ mode \in [Threads -> [read: 0..1, write: 0..MaxDepth]]
  /\ ops \in 0..MaxOps /\ wakes \in 0..MaxSpurious

Init ==
  /\ owner = None
  /\ s = [readers |-> 0, wowner |-> None, wrecurse |-> 0, rq |-> <<>>, wq |-> <<>>,
          queue |-> <<>>, sent |-> {}, woken |-> {}]
  /\ pc = [t \in Threads |-> "idle"] /\ op = [t \in Threads |-> "none"]
  /\ mode = [t \in Threads |-> [read |-> 0, write |-> 0]]
  /\ ops = MaxOps /\ wakes = MaxSpurious
-----------------------------------------------------------------------------
(* wake_lock: who sleeps is sent the mutex, who was woken early only sees     *)
(* that its record is cleared.                                                *)
WakeLock(x, u) ==
  IF pc[u] = "asleep"
  THEN [x EXCEPT !.queue = Append(@, <<u, "cond">>), !.sent = @ \cup {u}]
  ELSE [x EXCEPT !.woken = @ \cup {u}]

(* Bug: the woken record stays in the waitqueue.                              *)
BugWakeOneWriter(x) == IF x.wq = <<>> THEN x ELSE WakeLock(x, Head(x.wq))
WakeOneWriter(x) == IF x.wq = <<>> THEN x ELSE WakeLock([x EXCEPT !.wq = Tail(@)], Head(x.wq))
(* Bug: only the oldest reader is woken.                                      *)
BugWakeAllReaders(x) == IF x.rq = <<>> THEN x ELSE WakeLock([x EXCEPT !.rq = Tail(@)], Head(x.rq))
WakeReaders(x) ==
  LET f[n \in 0..Len(x.rq)] == IF n = 0 THEN [x EXCEPT !.rq = <<>>] ELSE WakeLock(f[n - 1], x.rq[n])
  IN  f
WakeAllReaders(x) == WakeReaders(x)[Len(x.rq)]

ReadLockable(x) == x.wowner = None /\ x.wq = <<>>
(* Bug: a writer does not look at the readers.                                *)
BugWriteLockable(x, t) == x.wowner \in {t, None}
WriteLockable(x, t) == x.wowner = t \/ (x.readers = 0 /\ x.wowner = None)

(* Bug: the last reader wakes nobody.                                         *)
BugRunlock(x) == [x EXCEPT !.readers = @ - 1]
Runlock(x) ==
  LET y == [x EXCEPT !.readers = @ - 1] IN IF y.readers = 0 THEN WakeOneWriter(y) ELSE y

Wunlock(x) ==
  LET y == IF x.wrecurse > 0 THEN [x EXCEPT !.wrecurse = @ - 1] ELSE [x EXCEPT !.wowner = None] IN
  IF y.wq # <<>> THEN WakeOneWriter(y) ELSE WakeAllReaders(y)

(* downgrade() up to its rlock(): wrecurse + 1 times wunlock().               *)
Wunlocks(x) ==
  LET f[n \in 0..(x.wrecurse + 1)] == IF n = 0 THEN x ELSE Wunlock(f[n - 1]) IN f
WunlockAll(x) == Wunlocks(x)[x.wrecurse + 1]

TakeWrite(x, t) == [x EXCEPT !.wrecurse = IF x.wowner = t THEN @ + 1 ELSE @, !.wowner = t]
-----------------------------------------------------------------------------
(* The mutex: a thread asks for it, and it is released in state x.            *)
Ask(t) ==
  IF owner = None THEN owner' = t /\ UNCHANGED s
  ELSE s' = [s EXCEPT !.queue = Append(@, <<t, "lock">>)] /\ UNCHANGED owner

Release(x) ==
  IF x.queue = <<>> THEN owner' = None /\ s' = x
  ELSE LET r == Head(x.queue) IN
       /\ owner' = r[1]
       /\ s' = [x EXCEPT !.queue = Tail(@),
                         !.woken = IF r[2] = "cond" THEN @ \cup {r[1]} ELSE @]

Goto(t, l)   == pc' = [pc EXCEPT ![t] = l]
Become(t, l) == op' = [op EXCEPT ![t] = l]
Return(t)    == Goto(t, "idle") /\ Become(t, "none")

Holds(t) == mode[t].read + mode[t].write

(* The calls a client may make with what it holds.                            *)
Legal(t, o) ==
  CASE o \in {"rlock", "try_rlock"}  -> Holds(t) = 0
    [] o \in {"wlock", "try_wlock"}  -> mode[t].read = 0 /\ mode[t].write < MaxDepth
    [] o \in {"runlock", "try_upgrade"} -> mode[t].read = 1
    [] OTHER                         -> mode[t].write > 0

Call(t, o) ==
  /\ pc[t] = "idle" /\ op[t] = "none" /\ Legal(t, o)
  /\ IF o \in Takes THEN ops > 0 /\ ops' = ops - 1 ELSE UNCHANGED ops
  /\ Ask(t) /\ Goto(t, "enter") /\ Become(t, o)
  /\ UNCHANGED <<mode, wakes>>

In(t, o) == pc[t] = "enter" /\ owner = t /\ op[t] = o

(* rlock, and reader_wait_lockable's loop; try_rlock returns instead.         *)
EnterRead(t) ==
  /\ In(t, "rlock") \/ In(t, "try_rlock")
  /\ \/ /\ ReadLockable(s)
        /\ Release([s EXCEPT !.readers = @ + 1]) /\ Return(t)
        /\ mode' = [mode EXCEPT ![t].read = 1]
     \/ /\ ~ReadLockable(s) /\ op[t] = "try_rlock"
        /\ Release(s) /\ Return(t) /\ UNCHANGED mode
     \/ /\ ~ReadLockable(s) /\ op[t] = "rlock"
        /\ Release([s EXCEPT !.rq = Append(@, t)]) /\ Goto(t, "asleep")
        /\ UNCHANGED <<op, mode>>
  /\ UNCHANGED <<ops, wakes>>

EnterWrite(t) ==
  /\ In(t, "wlock") \/ In(t, "try_wlock")
  /\ \/ /\ WriteLockable(s, t)
        /\ Release(TakeWrite(s, t)) /\ Return(t)
        /\ mode' = [mode EXCEPT ![t].write = @ + 1]
     \/ /\ ~WriteLockable(s, t) /\ op[t] = "try_wlock"
        /\ Release(s) /\ Return(t) /\ UNCHANGED mode
     \/ /\ ~WriteLockable(s, t) /\ op[t] = "wlock"
        /\ Release([s EXCEPT !.wq = Append(@, t)]) /\ Goto(t, "asleep")
        /\ UNCHANGED <<op, mode>>
  /\ UNCHANGED <<ops, wakes>>

EnterUpgrade(t) ==
  /\ In(t, "try_upgrade")
  /\ IF s.readers = 1 /\ s.wq = <<>>
     THEN /\ Release([s EXCEPT !.readers = 0, !.wowner = t])
          /\ mode' = [mode EXCEPT ![t] = [read |-> 0, write |-> 1]]
     ELSE Release(s) /\ UNCHANGED mode
  /\ Return(t)
  /\ UNCHANGED <<ops, wakes>>

EnterRunlock(t) ==
  /\ In(t, "runlock")
  /\ Release(Runlock(s)) /\ Return(t)
  /\ mode' = [mode EXCEPT ![t].read = 0]
  /\ UNCHANGED <<ops, wakes>>

EnterWunlock(t) ==
  /\ In(t, "wunlock")
  /\ Release(Wunlock(s)) /\ Return(t)
  /\ mode' = [mode EXCEPT ![t].write = @ - 1]
  /\ UNCHANGED <<ops, wakes>>

(* downgrade() releases _mtx before its rlock() takes it again.               *)
EnterDowngrade(t) ==
  /\ In(t, "downgrade")
  /\ Release(WunlockAll(s))
  /\ mode' = [mode EXCEPT ![t].write = 0]
  /\ Goto(t, "idle") /\ UNCHANGED <<op, ops, wakes>>

DowngradeRlock(t) ==
  /\ pc[t] = "idle" /\ op[t] = "downgrade"
  /\ Ask(t) /\ Goto(t, "enter") /\ Become(t, "rlock")
  /\ UNCHANGED <<mode, ops, wakes>>

(* wait() of a waitqueue returns once the record is woken; the caller looks   *)
(* at the lock again.  Who finds its record not woken sleeps on.              *)
Resume(t) ==
  /\ pc[t] \in {"asleep", "awake"} /\ owner = t
  /\ IF t \in s.woken
     THEN /\ s' = [s EXCEPT !.woken = @ \ {t}, !.sent = @ \ {t}]
          /\ Goto(t, "enter") /\ UNCHANGED owner
     ELSE Release(s) /\ Goto(t, "asleep")
  /\ UNCHANGED <<op, mode, ops, wakes>>

(* thread::wake() by anyone: not while the lock is being sent.                *)
WakeEarly(t) ==
  /\ pc[t] = "asleep" /\ t \notin s.sent /\ wakes > 0
  /\ Ask(t) /\ Goto(t, "awake") /\ wakes' = wakes - 1
  /\ UNCHANGED <<op, mode, ops>>

Step(t) ==
  \/ EnterRead(t) \/ EnterWrite(t) \/ EnterUpgrade(t) \/ EnterRunlock(t) \/ EnterWunlock(t)
  \/ EnterDowngrade(t) \/ DowngradeRlock(t) \/ Resume(t)

LetGo(t) == \E o \in {"runlock", "wunlock"} : Call(t, o)

Next == \E t \in Threads : Step(t) \/ WakeEarly(t) \/ \E o \in Takes \cup Releases : Call(t, o)
Spec == Init /\ [][Next]_vars

(* Threads are scheduled, and clients release what they hold.                 *)
FairSpec == Spec /\ \A t \in Threads : WF_vars(Step(t)) /\ WF_vars(LetGo(t))
-----------------------------------------------------------------------------
Readers == {t \in Threads : mode[t].read > 0}
Writers == {t \in Threads : mode[t].write > 0}

(* A writer is alone, and the counts of the rwlock are those of its holders:  *)
(* the assertions of runlock, wunlock and try_upgrade rest on it.             *)
ReadersWriters ==
  /\ Cardinality(Writers) <= 1 /\ (Writers # {} => Readers = {})
  /\ s.readers = Cardinality(Readers)
  /\ IF Writers = {} THEN s.wowner = None /\ s.wrecurse = 0
     ELSE \A t \in Writers : s.wowner = t /\ mode[t].write = s.wrecurse + 1

(* A sleeper's record is in exactly one place, its waitqueue, the mutex's     *)
(* queue or woken, and is nowhere once it is awake for good.                  *)
NoDangling == \A t \in Threads :
  LET places == <<Contains(s.rq, t), Contains(s.wq, t),
                  Contains(s.queue, <<t, "cond">>), t \in s.woken>> IN
  Cardinality({i \in 1..4 : places[i]}) = IF pc[t] \in {"asleep", "awake"} THEN 1 ELSE 0

(* Nobody sleeps in a waitqueue of a lock that is free when nobody has, or    *)
(* waits for, the mutex: that sleeper would not be woken.                     *)
NobodyStranded ==
  owner = None /\ s.readers = 0 /\ s.wowner = None => s.rq = <<>> /\ s.wq = <<>>

(* When the clients release what they took, every rlock and wlock returns.    *)
EverybodyReturns == <>[](\A t \in Threads : op[t] = "none" /\ Holds(t) = 0)
=============================================================================
