-------------------------------- MODULE Rcu ---------------------------------
(***************************************************************************)
(* osv/unikernel/core/rcu.cc: deferred callbacks and grace periods.        *)
(*                                                                         *)
(* Each CPU has a double buffer of callbacks and a pinned thread rcu<n>.   *)
(* A reader disables preemption, so while a section is open on a CPU       *)
(* nothing else runs there; a CPU is known to have passed a generation     *)
(* when its rcu thread ran.  The threads ask each other for generations    *)
(* and wake each other; each atomic store and each wake is a step, memory  *)
(* is sequentially consistent.  wait_until is a check that, when it fails, *)
(* puts the thread to sleep in the same step: a wake after prepare_wait is *)
(* never lost, one before it is.                                           *)
(*                                                                         *)
(* A callback k disposes of one object, which its writer has unlinked when *)
(* it calls rcu_defer, or, for the members of Syncs, rcu_synchronize.      *)
(* rcu_flush is one rcu_defer with a wake on every CPU.                    *)
(***************************************************************************)
EXTENDS Naturals, Sequences, SequencesExt

CONSTANTS CPUs,      \* their numbers: cpu_quiescent_state_threads is in this order
          Callbacks,
          Syncs,     \* the callbacks whose caller wakes the rcu thread and waits
          Home,      \* the CPU that each callback is deferred on
          Room,      \* 2000, the size of a buffer
          MaxReads   \* bound on the sections that are opened

ASSUME RcuAssumption ==
  /\ CPUs \subseteq Nat /\ Syncs \subseteq Callbacks /\ Home \in [Callbacks -> CPUs]
  /\ Room \in Nat \ {0} /\ MaxReads \in Nat

VARIABLES
  buf, cb,                  \* percpu_callbacks
  waiting,                  \* percpu_waiting_defers
  nextGeneration,
  generation, request, requested,   \* of each rcu thread
  pc, g, todo, run,         \* its locals: run is what it took from a buffer
  asleep,
  st,                       \* the progress of each rcu_defer
  reading, seen, reads,     \* open sections, and the objects linked when they began
  before                    \* callbacks already in the CPU's buffers when k was added

cqst    == <<nextGeneration, generation, request, requested, pc, g, todo, run>>
buffers == <<buf, cb, waiting>>
readers == <<reading, seen, reads>>
vars    == <<buffers, cqst, asleep, st, readers, before>>

Labels == {"top", "gen", "flag", "req", "set", "tell", "grace", "run", "idle"}

(* The per-CPU state, the locals of the rcu threads and of the callers.       *)
TypeOK ==
  /\ buf \in [CPUs -> {0, 1}] /\ cb \in [CPUs -> [{0, 1} -> Seq(Callbacks)]]
  /\ waiting \in [CPUs -> SUBSET Callbacks]
  /\ nextGeneration \in Nat /\ generation \in [CPUs -> Nat] /\ request \in [CPUs -> Nat]
  /\ requested \in [CPUs -> BOOLEAN] /\ pc \in [CPUs -> Labels] /\ g \in [CPUs -> Nat]
  /\ todo \in [CPUs -> SUBSET CPUs] /\ run \in [CPUs -> Seq(Callbacks)]
  /\ asleep \in [CPUs -> BOOLEAN]
  /\ st \in [Callbacks -> {"linked", "full", "blocked", "retry", "wake", "deferred", "done"}]
  /\ reading \in [CPUs -> BOOLEAN] /\ seen \in [CPUs -> SUBSET Callbacks]
  /\ reads \in 0..MaxReads /\ before \in [Callbacks -> SUBSET Callbacks]
  /\ \A c \in CPUs, b \in {0, 1} : Len(cb[c][b]) <= Room

(* The rcu threads have been started and found nothing to do.                 *)
Init ==
  /\ buf = [c \in CPUs |-> 0] /\ cb = [c \in CPUs |-> [b \in {0, 1} |-> <<>>]]
  /\ waiting = [c \in CPUs |-> {}]
  /\ nextGeneration = 0 /\ generation = [c \in CPUs |-> 0] /\ request = [c \in CPUs |-> 0]
  /\ requested = [c \in CPUs |-> FALSE] /\ pc = [c \in CPUs |-> "idle"]
  /\ g = [c \in CPUs |-> 0] /\ todo = [c \in CPUs |-> {}] /\ run = [c \in CPUs |-> <<>>]
  /\ asleep = [c \in CPUs |-> TRUE]
  /\ st = [k \in Callbacks |-> "linked"]
  /\ reading = [c \in CPUs |-> FALSE] /\ seen = [c \in CPUs |-> {}]
  /\ reads = MaxReads /\ before = [k \in Callbacks |-> {}]
-----------------------------------------------------------------------------
(* rcu_read_lock.lock() and unlock(): preempt_disable() and preempt_enable(). *)
ReadLock(c) ==
  /\ ~reading[c] /\ reads > 0
  /\ reading' = [reading EXCEPT ![c] = TRUE] /\ reads' = reads - 1
  /\ seen' = [seen EXCEPT ![c] = {k \in Callbacks : st[k] = "linked"}]
  /\ UNCHANGED <<buffers, cqst, asleep, st, before>>

ReadUnlock(c) ==
  /\ reading[c]
  /\ reading' = [reading EXCEPT ![c] = FALSE] /\ seen' = [seen EXCEPT ![c] = {}]
  /\ UNCHANGED <<buffers, cqst, asleep, st, reads, before>>
-----------------------------------------------------------------------------
Move(k, s) == st' = [st EXCEPT ![k] = s]

(* rcu_defer() under preempt_lock: the callback is added, or its caller is    *)
(* put on the list of those that wait for room.                               *)
Defer(k) ==
  LET c == Home[k]
      b == buf[c] IN
  /\ st[k] \in {"linked", "retry"} /\ ~reading[c]
  /\ IF Len(cb[c][b]) = Room
     THEN /\ waiting' = [waiting EXCEPT ![c] = @ \cup {k}]
          /\ Move(k, "full") /\ UNCHANGED <<cb, before>>
     ELSE /\ cb' = [cb EXCEPT ![c][b] = Append(@, k)]
          /\ before' = [before EXCEPT ![k] = ToSet(cb[c][0]) \cup ToSet(cb[c][1]) \cup ToSet(run[c])]
          /\ Move(k, IF k \in Syncs THEN "wake" ELSE "deferred") /\ UNCHANGED waiting
  /\ UNCHANGED <<buf, cqst, asleep, readers>>

(* The wake of the CPU's rcu thread: for room, or by rcu_synchronize.         *)
DeferWake(k) ==
  /\ st[k] \in {"full", "wake"} /\ ~reading[Home[k]]
  /\ asleep' = [asleep EXCEPT ![Home[k]] = FALSE]
  /\ Move(k, IF st[k] = "full" THEN "blocked" ELSE "deferred")
  /\ UNCHANGED <<buffers, cqst, readers, before>>
-----------------------------------------------------------------------------
(* The rcu thread of c runs, and no section is open there.                    *)
At(c, l)   == pc[c] = l /\ ~asleep[c] /\ ~reading[c]
Goto(c, l) == pc' = [pc EXCEPT ![c] = l]
Others(c)  == CPUs \ {c}
First(S)   == CHOOSE d \in S : \A e \in S : d <= e

(* do_work, its first lines under preempt_lock: the buffers are switched when *)
(* there is anything to clean, and who waits for room is woken.               *)
Switch(c) ==
  /\ At(c, "top")
  /\ IF cb[c][buf[c]] # <<>>
     THEN buf' = [buf EXCEPT ![c] = 1 - @] /\ Goto(c, "gen")
     ELSE Goto(c, "idle") /\ UNCHANGED buf
  /\ waiting' = [waiting EXCEPT ![c] = {}]
  /\ st' = [k \in Callbacks |-> IF k \in waiting[c] THEN "retry" ELSE st[k]]
  /\ UNCHANGED <<cb, nextGeneration, generation, request, requested, g, todo, run, asleep, readers, before>>

(* A new generation, then the announcement that this thread waits for it.     *)
NewGeneration(c) ==
  /\ At(c, "gen") /\ Goto(c, "flag")
  /\ nextGeneration' = nextGeneration + 1 /\ g' = [g EXCEPT ![c] = nextGeneration + 1]
  /\ UNCHANGED <<buffers, generation, request, requested, todo, run, asleep, st, readers, before>>

Announce(c) ==
  /\ At(c, "flag")
  /\ requested' = [requested EXCEPT ![c] = TRUE]
  /\ todo' = [todo EXCEPT ![c] = Others(c)] /\ Goto(c, IF Others(c) = {} THEN "set" ELSE "req")
  /\ UNCHANGED <<buffers, nextGeneration, generation, request, g, run, asleep, st, readers, before>>

(* request(): the maximum is stored, then the other thread is woken.          *)
Request(c) ==
  /\ At(c, "req")
  /\ LET d == First(todo[c]) IN
       /\ request' = [request EXCEPT ![d] = IF g[c] > @ THEN g[c] ELSE @]
       /\ asleep' = [asleep EXCEPT ![d] = FALSE]
       /\ todo' = [todo EXCEPT ![c] = @ \ {d}]
       /\ Goto(c, IF todo[c] = {d} THEN "set" ELSE "req")
  /\ UNCHANGED <<buffers, nextGeneration, generation, requested, g, run, st, readers, before>>

(* The end of set_generation: to the wait for g, or to the top of the loop.   *)
Told(c) == IF requested[c] THEN "grace" ELSE "top"

(* set_generation(): the store, then a look at every other thread.            *)
SetGeneration(c, n) ==
  /\ generation' = [generation EXCEPT ![c] = n]
  /\ todo' = [todo EXCEPT ![c] = Others(c)] /\ Goto(c, IF Others(c) = {} THEN Told(c) ELSE "tell")
  /\ UNCHANGED <<buffers, nextGeneration, request, requested, g, run, asleep, st, readers, before>>

SetOwn(c) == At(c, "set") /\ SetGeneration(c, g[c])

(* Bug: nobody is woken when a generation is reached.                         *)
BugTell(c) ==
  /\ At(c, "tell")
  /\ LET d == First(todo[c]) IN
       /\ todo' = [todo EXCEPT ![c] = @ \ {d}]
       /\ Goto(c, IF todo[c] = {d} THEN Told(c) ELSE "tell")
  /\ UNCHANGED <<buffers, nextGeneration, generation, request, requested, g, run, asleep, st, readers, before>>

Tell(c) ==
  /\ At(c, "tell")
  /\ LET d == First(todo[c]) IN
       /\ asleep' = IF requested[d] THEN [asleep EXCEPT ![d] = FALSE] ELSE asleep
       /\ todo' = [todo EXCEPT ![c] = @ \ {d}]
       /\ Goto(c, IF todo[c] = {d} THEN Told(c) ELSE "tell")
  /\ UNCHANGED <<buffers, nextGeneration, generation, request, requested, g, run, st, readers, before>>

(* Bug: one generation too early.                                             *)
BugAllAtGeneration(n) == \A c \in CPUs : generation[c] + 1 >= n
AllAtGeneration(n) == \A c \in CPUs : generation[c] >= n
Asked(c) == generation[c] < request[c]

(* The wait for the grace period, which serves the requests of other CPUs.    *)
Serve(c) == (At(c, "grace") \/ At(c, "idle")) /\ Asked(c) /\ SetGeneration(c, request[c])

(* Bug: the buffer in use is run.                                             *)
BugGraceOver(c) ==
  /\ At(c, "grace") /\ ~Asked(c) /\ AllAtGeneration(g[c])
  /\ requested' = [requested EXCEPT ![c] = FALSE] /\ Goto(c, "run")
  /\ run' = [run EXCEPT ![c] = cb[c][buf[c]]]
  /\ cb' = [cb EXCEPT ![c][1 - buf[c]] = <<>>]
  /\ UNCHANGED <<buf, waiting, nextGeneration, generation, request, g, todo, asleep, st, readers, before>>

(* When it is over the buffer that is not in use is emptied ...               *)
GraceOver(c) ==
  /\ At(c, "grace") /\ ~Asked(c) /\ AllAtGeneration(g[c])
  /\ requested' = [requested EXCEPT ![c] = FALSE] /\ Goto(c, "run")
  /\ run' = [run EXCEPT ![c] = cb[c][1 - buf[c]]]
  /\ cb' = [cb EXCEPT ![c][1 - buf[c]] = <<>>]
  /\ UNCHANGED <<buf, waiting, nextGeneration, generation, request, g, todo, asleep, st, readers, before>>

(* Bug: the callbacks of a buffer are called from its end.                    *)
BugNewestFirst(c) ==
  /\ At(c, "run")
  /\ Move(Last(run[c]), "done") /\ run' = [run EXCEPT ![c] = Front(@)]
  /\ Goto(c, IF Len(run[c]) = 1 THEN "top" ELSE "run")
  /\ UNCHANGED <<buffers, nextGeneration, generation, request, requested, g, todo, asleep, readers, before>>

(* ... and its callbacks are called, the oldest first.                        *)
RunCallback(c) ==
  /\ At(c, "run")
  /\ Move(Head(run[c]), "done") /\ run' = [run EXCEPT ![c] = Tail(@)]
  /\ Goto(c, IF Len(run[c]) = 1 THEN "top" ELSE "run")
  /\ UNCHANGED <<buffers, nextGeneration, generation, request, requested, g, todo, asleep, readers, before>>

(* The wait for something to do.                                              *)
FoundWork(c) ==
  /\ At(c, "idle") /\ ~Asked(c) /\ cb[c][buf[c]] # <<>>
  /\ Goto(c, "top")
  /\ UNCHANGED <<buffers, nextGeneration, generation, request, requested, g, todo, run, asleep, st, readers, before>>

Sleep(c) ==
  /\ ~Asked(c)
  /\ \/ At(c, "grace") /\ ~AllAtGeneration(g[c])
     \/ At(c, "idle") /\ cb[c][buf[c]] = <<>>
  /\ asleep' = [asleep EXCEPT ![c] = TRUE]
  /\ UNCHANGED <<buffers, cqst, st, readers, before>>
-----------------------------------------------------------------------------
Work(c) ==
  \/ Switch(c) \/ NewGeneration(c) \/ Announce(c) \/ SetOwn(c) \/ Serve(c) \/ GraceOver(c)
  \/ FoundWork(c) \/ Sleep(c) \/ RunCallback(c) \/ Request(c) \/ Tell(c)

Next ==
  \/ \E c \in CPUs : ReadLock(c) \/ ReadUnlock(c) \/ Work(c)
  \/ \E k \in Callbacks : Defer(k) \/ DeferWake(k)

Spec == Init /\ [][Next]_vars

(* Threads are scheduled, sections end, and a call to rcu_defer goes on.      *)
FairSpec ==
  /\ Spec
  /\ \A c \in CPUs : WF_vars(Work(c)) /\ WF_vars(ReadUnlock(c))
  /\ \A k \in Callbacks : WF_vars(st[k] # "linked" /\ Defer(k)) /\ WF_vars(DeferWake(k))
-----------------------------------------------------------------------------
(* No callback is called while a section is open that began before its        *)
(* rcu_defer: the object may be in use there.                                 *)
GracePeriod == \A c \in CPUs : \A k \in seen[c] : st[k] # "done"

(* The callbacks that c still has to call, the oldest first.                  *)
Pending(c) == run[c] \o cb[c][1 - buf[c]] \o cb[c][buf[c]]

(* A callback that was added and not called is in one place of its CPU, and   *)
(* no other is in any: none is lost when buffers are switched, and none is    *)
(* called twice.                                                              *)
NoneLost == \A c \in CPUs :
  /\ IsInjective(Pending(c))
  /\ ToSet(Pending(c)) = {k \in Callbacks : Home[k] = c /\ st[k] \in {"wake", "deferred"}}

(* rcu_flush is a barrier: when a callback was called, all that were in the   *)
(* CPU's buffers before it were called.                                       *)
InOrder == \A k \in Callbacks : st[k] = "done" => \A j \in before[k] : st[j] = "done"

(* rcu_synchronize returns, and an rcu_defer that found no room too: no wake  *)
(* between the rcu threads is lost, and they do not wait for each other.      *)
SynchronizeReturns ==
  <>[](\A k \in Callbacks : /\ st[k] \in {"linked", "wake", "deferred", "done"}
                            /\ k \in Syncs => st[k] \in {"linked", "done"})
=============================================================================
