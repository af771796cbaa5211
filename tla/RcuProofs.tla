----------------------------- MODULE RcuProofs ------------------------------
(***************************************************************************)
(* Proofs about module Rcu, for any CPUs and callbacks, any size of the    *)
(* buffers and any number of sections.                                     *)
(*                                                                         *)
(* GracePeriod needs to know why the generations tell when a section has   *)
(* ended (SeenInv), which rests on their bounds (GenInv) and on what the   *)
(* buffer that is not in use holds at each line of do_work (CtlInv).       *)
(* NoneLost and InOrder rest on one observation: run[c], the other buffer  *)
(* and the buffer in use, in this order, are one queue, to which rcu_defer *)
(* appends, from which a call takes the first, and which neither the       *)
(* switch of the buffers nor the end of a grace period changes.            *)
(***************************************************************************)
EXTENDS Rcu, SequenceTheorems, TLAPS
-----------------------------------------------------------------------------
(* From the switch of the buffers to the end of the grace period there are    *)
(* callbacks to run, and from NewGeneration on g[c] is the generation that    *)
(* they wait for.                                                             *)
Collecting(c) ==
  pc[c] \in {"gen", "flag", "req", "set", "grace"} \/ (pc[c] = "tell" /\ requested[c])
Bound(c) == Collecting(c) /\ pc[c] # "gen"
(* The buffer that is not in use.                                             *)
Old(c) == cb[c][1 - buf[c]]

(* The flag and the buffers of a thread at each of its lines.                 *)
Ctl(c) ==
  /\ requested[c] => pc[c] \in {"req", "set", "tell", "grace"}
  /\ pc[c] \in {"req", "set", "grace"} => requested[c]
  /\ Old(c) # <<>> <=> Collecting(c)
  /\ run[c] # <<>> <=> pc[c] = "run"
CtlInv == \A c \in CPUs : Ctl(c)

(* next_generation bounds every generation.                                   *)
GenInv == \A c \in CPUs :
  /\ generation[c] <= nextGeneration /\ request[c] <= nextGeneration /\ g[c] <= nextGeneration

(* Those that wait for room, each on the CPU that it defers on.               *)
WaitInv == \A c \in CPUs : \A k \in waiting[c] : Home[k] = c /\ st[k] \in {"full", "blocked"}

(* What an open section of d can still see is not being run, and d has not    *)
(* reached the generation that it waits for.                                  *)
Clear(d) ==
  /\ seen[d] # {} => reading[d]
  /\ \A c \in CPUs, k \in seen[d] :
       /\ k \notin ToSet(run[c])
       /\ Bound(c) /\ k \in ToSet(Old(c)) => generation[d] < g[c]
SeenInv == \A d \in CPUs : Clear(d)

(* What was in the CPU's buffers before a callback was called, or is still before it. *)
Preceded(c, i) == \A j \in before[Pending(c)[i]] :
  st[j] = "done" \/ \E h \in 1..(i - 1) : Pending(c)[h] = j
OrderInv == \A c \in CPUs : \A i \in 1..Len(Pending(c)) : Preceded(c, i)

(* The inductive invariant.                                                   *)
IInv ==
  /\ TypeOK /\ CtlInv /\ GenInv /\ WaitInv /\ SeenInv /\ OrderInv
  /\ GracePeriod /\ NoneLost /\ InOrder
-----------------------------------------------------------------------------
(* TypeOK in three parts.                                                     *)
BufType ==
  /\ buf \in [CPUs -> {0, 1}] /\ cb \in [CPUs -> [{0, 1} -> Seq(Callbacks)]]
  /\ run \in [CPUs -> Seq(Callbacks)]
  /\ \A c \in CPUs, b \in {0, 1} : Len(cb[c][b]) <= Room
ThreadType ==
  /\ nextGeneration \in Nat /\ generation \in [CPUs -> Nat] /\ request \in [CPUs -> Nat]
  /\ requested \in [CPUs -> BOOLEAN] /\ pc \in [CPUs -> Labels] /\ g \in [CPUs -> Nat]
  /\ todo \in [CPUs -> SUBSET CPUs] /\ asleep \in [CPUs -> BOOLEAN]
CallerType ==
  /\ waiting \in [CPUs -> SUBSET Callbacks]
  /\ st \in [Callbacks -> {"linked", "full", "blocked", "retry", "wake", "deferred", "done"}]
  /\ reading \in [CPUs -> BOOLEAN] /\ seen \in [CPUs -> SUBSET Callbacks]
  /\ reads \in 0..MaxReads /\ before \in [Callbacks -> SUBSET Callbacks]

(* TypeOK part by part: each part is disturbed by few actions.                *)
LEMMA TypeParts == TypeOK <=> BufType /\ ThreadType /\ CallerType
BY DEF TypeOK, BufType, ThreadType, CallerType

(* Facts about sequences that the buffers need: their elements ...            *)
LEMMA SetOfSeq == ASSUME NEW S, NEW q \in Seq(S) PROVE ToSet(q) \in SUBSET S
BY DEF ToSet

(* The first element.                                                         *)
LEMMA HeadIsFirst ==
  ASSUME NEW S, NEW q \in Seq(S), q # <<>>
  PROVE  Head(q) = q[1]
OBVIOUS

(* Only the empty sequence has length 0.                                      *)
LEMMA LenZero == ASSUME NEW S, NEW q \in Seq(S) PROVE q = <<>> <=> Len(q) = 0
BY EmptySeq

(* The last callback of a run leaves an empty one (do_work's loop ends).      *)
LEMMA TailEmpty ==
  ASSUME NEW S, NEW q \in Seq(S), q # <<>>
  PROVE  Tail(q) = <<>> <=> Len(q) = 1
<1>1. Tail(q) \in Seq(S) /\ Len(Tail(q)) = Len(q) - 1 BY HeadTailProperties
<1>2. Len(q) \in Nat BY LenProperties
<1>3. Tail(q) = <<>> <=> Len(Tail(q)) = 0 BY <1>1, LenZero
<1> QED BY <1>1, <1>2, <1>3

(* What is left of a run was in it.                                           *)
LEMMA HeadTailIn ==
  ASSUME NEW S, NEW q \in Seq(S), q # <<>>
  PROVE  Head(q) \in ToSet(q) /\ ToSet(Tail(q)) \subseteq ToSet(q)
<1> DEFINE r == Tail(q)
<1>1. /\ r \in Seq(S) /\ Len(r) = Len(q) - 1 /\ \A i \in 1..Len(r) : r[i] = q[i + 1]
      /\ Len(q) \in Nat \ {0} /\ Head(q) = q[1]
  BY HeadTailProperties, LenProperties, EmptySeq, HeadIsFirst
<1>2. DOMAIN q = 1..Len(q) /\ DOMAIN r = 1..Len(r) BY <1>1, LenProperties
<1> HIDE DEF r
<1>3. ASSUME NEW x \in ToSet(r) PROVE x \in ToSet(q)
  <2>1. PICK i \in DOMAIN r : x = r[i] BY DEF ToSet
  <2>2. i + 1 \in DOMAIN q /\ x = q[i + 1] BY <1>1, <1>2, <2>1
  <2> QED BY <2>2 DEF ToSet
<1>4. 1 \in DOMAIN q BY <1>1, <1>2
<1> QED BY <1>1, <1>3, <1>4 DEF ToSet, r

(* The buffer that is in use and the other one (ncallbacks.buf and !buf).     *)
LEMMA Flip == ASSUME NEW b \in {0, 1} PROVE 1 - b \in {0, 1} /\ 1 - (1 - b) = b /\ 1 - b # b
OBVIOUS

(* A CPU's two buffers and the callbacks it runs.                             *)
LEMMA Buffers ==
  ASSUME BufType, NEW c \in CPUs
  PROVE  /\ buf[c] \in {0, 1} /\ 1 - buf[c] \in {0, 1} /\ 1 - buf[c] # buf[c]
         /\ cb[c] \in [{0, 1} -> Seq(Callbacks)]
         /\ cb[c][buf[c]] \in Seq(Callbacks) /\ cb[c][1 - buf[c]] \in Seq(Callbacks)
         /\ run[c] \in Seq(Callbacks)
<1>1. buf[c] \in {0, 1} /\ cb[c] \in [{0, 1} -> Seq(Callbacks)] /\ run[c] \in Seq(Callbacks)
  BY DEF BufType
<1>2. 1 - buf[c] \in {0, 1} /\ 1 - buf[c] # buf[c] BY <1>1, Flip
<1> QED BY <1>1, <1>2

(* The buffers keep their type and their bound: rcu_defer adds only when      *)
(* there is room, do_work takes a whole buffer.                               *)
LEMMA StepBufType == ASSUME BufType, CtlInv, [Next]_vars PROVE BufType'
<1>1. ASSUME NEW k \in Callbacks, Defer(k), ~ UNCHANGED <<buf, cb, run>> PROVE BufType'
  <2> DEFINE c == Home[k]
             b == buf[c]
             q == cb[c][b]
  <2>0. c \in CPUs /\ b \in {0, 1} /\ q \in Seq(Callbacks) /\ Len(q) <= Room /\ Room \in Nat
    BY RcuAssumption, Buffers DEF BufType
  <2>1. Len(q) # Room /\ cb' = [cb EXCEPT ![c][b] = Append(@, k)] /\ buf' = buf /\ run' = run
    BY <1>1 DEF Defer, cqst
  <2> HIDE DEF c, b
  <2>2. Append(q, k) \in Seq(Callbacks) /\ Len(Append(q, k)) <= Room
    BY <2>0, <2>1
  <2>3. cb'[c][b] = Append(q, k) /\ \A d \in CPUs, e \in {0, 1} : d # c \/ e # b => cb'[d][e] = cb[d][e]
    BY <2>0, <2>1 DEF BufType
  <2>4. cb' = [d \in CPUs |-> [e \in {0, 1} |-> cb'[d][e]]]
    BY <2>0, <2>1 DEF BufType
  <2>5. \A d \in CPUs, e \in {0, 1} : cb'[d][e] \in Seq(Callbacks) /\ Len(cb'[d][e]) <= Room
    BY <2>2, <2>3 DEF BufType
  <2>6. cb' \in [CPUs -> [{0, 1} -> Seq(Callbacks)]]
    BY <2>4, <2>5
  <2> QED BY <2>1, <2>5, <2>6 DEF BufType
<1>2. ASSUME NEW c \in CPUs, GraceOver(c) PROVE BufType'
  <2> DEFINE b == 1 - buf[c]
  <2>0. b \in {0, 1} /\ cb[c][b] \in Seq(Callbacks) BY Buffers
  <2>1. cb' = [cb EXCEPT ![c][b] = <<>>] /\ run' = [run EXCEPT ![c] = cb[c][b]] /\ buf' = buf
    BY <1>2 DEF GraceOver
  <2> HIDE DEF b
  <2>3. cb'[c][b] = <<>> /\ \A d \in CPUs, e \in {0, 1} : d # c \/ e # b => cb'[d][e] = cb[d][e]
    BY <2>0, <2>1 DEF BufType
  <2>4. cb' = [d \in CPUs |-> [e \in {0, 1} |-> cb'[d][e]]]
    BY <2>0, <2>1 DEF BufType
  <2>5. \A d \in CPUs, e \in {0, 1} : cb'[d][e] \in Seq(Callbacks) /\ Len(cb'[d][e]) <= Room
    <3>1. <<>> \in Seq(Callbacks) /\ Len(<<>>) = 0 /\ 0 <= Room BY RcuAssumption
    <3> TAKE d \in CPUs, e \in {0, 1}
    <3>2. CASE d = c /\ e = b BY <2>3, <3>1, <3>2
    <3>3. CASE d # c \/ e # b BY <2>3, <3>3 DEF BufType
    <3> QED BY <3>2, <3>3
  <2>6. cb' \in [CPUs -> [{0, 1} -> Seq(Callbacks)]]
    BY <2>4, <2>5
  <2> QED BY <2>0, <2>1, <2>5, <2>6 DEF BufType
<1>3. ASSUME NEW c \in CPUs, RunCallback(c) PROVE BufType'
  <2>1. run[c] \in Seq(Callbacks) /\ run[c] # <<>> BY <1>3 DEF BufType, CtlInv, Ctl, RunCallback, At
  <2>2. Tail(run[c]) \in Seq(Callbacks) BY <2>1
  <2>3. buf' = buf /\ cb' = cb /\ run' = [run EXCEPT ![c] = Tail(run[c])]
    BY <1>3 DEF RunCallback, buffers
  <2> QED BY <2>2, <2>3 DEF BufType
<1>4. ASSUME NEW c \in CPUs, Switch(c) PROVE BufType'
  <2>1. cb' = cb /\ run' = run /\ (buf' = buf \/ buf' = [buf EXCEPT ![c] = 1 - buf[c]])
    BY <1>4 DEF Switch
  <2> QED BY <2>1, Buffers DEF BufType
<1>5. CASE UNCHANGED <<buf, cb, run>>
  BY <1>5 DEF BufType
<1>6. ASSUME NEW c \in CPUs, \/ ReadLock(c) \/ ReadUnlock(c) \/ NewGeneration(c) \/ Announce(c) \/ SetOwn(c)
                             \/ Serve(c) \/ FoundWork(c) \/ Sleep(c) \/ Request(c) \/ Tell(c)
      PROVE UNCHANGED <<buf, cb, run>>
  BY <1>6 DEF ReadLock, ReadUnlock, NewGeneration, Announce, SetOwn, Serve, SetGeneration, FoundWork,
              Sleep, Request, Tell, cqst, buffers
<1>7. ASSUME NEW k \in Callbacks, DeferWake(k) PROVE UNCHANGED <<buf, cb, run>>
  BY <1>7 DEF DeferWake, cqst, buffers
<1>8. CASE UNCHANGED vars
  BY <1>5, <1>8 DEF vars, cqst, buffers
<1> QED BY <1>1, <1>2, <1>3, <1>4, <1>5, <1>6, <1>7, <1>8 DEF Next, Work

(* So do the generations, the requests and the locals of the rcu threads.     *)
LEMMA StepThreadType == ASSUME ThreadType, [Next]_vars PROVE ThreadType'
<1>1. ASSUME NEW c \in CPUs, NewGeneration(c) PROVE ThreadType'
  BY <1>1 DEF ThreadType, NewGeneration, Goto, Labels
<1>2. ASSUME NEW c \in CPUs, Announce(c) PROVE ThreadType'
  BY <1>2 DEF ThreadType, Announce, Goto, Labels, Others
<1>3. ASSUME NEW c \in CPUs, NEW n \in Nat, SetGeneration(c, n) PROVE ThreadType'
  BY <1>3 DEF ThreadType, SetGeneration, Goto, Labels, Others, Told
<1>4. ASSUME NEW c \in CPUs, SetOwn(c) \/ Serve(c) PROVE ThreadType'
  BY <1>3, <1>4 DEF SetOwn, Serve, ThreadType
<1>5. ASSUME NEW c \in CPUs, Request(c) PROVE ThreadType'
  BY <1>5 DEF ThreadType, Request, Goto, Labels
<1>6. ASSUME NEW c \in CPUs, Tell(c) PROVE ThreadType'
  BY <1>6 DEF ThreadType, Tell, Told, Goto, Labels
<1>7. ASSUME NEW c \in CPUs, FoundWork(c) \/ Sleep(c) PROVE ThreadType'
  BY <1>7 DEF ThreadType, FoundWork, Sleep, cqst, Goto, Labels
<1>8. ASSUME NEW c \in CPUs, GraceOver(c) \/ RunCallback(c) PROVE ThreadType'
  BY <1>8 DEF ThreadType, GraceOver, RunCallback, Goto, Labels
<1>9. ASSUME NEW c \in CPUs, Switch(c) PROVE ThreadType'
  BY <1>9 DEF ThreadType, Switch, Goto, Labels
<1>10. ASSUME NEW c \in CPUs, ReadLock(c) \/ ReadUnlock(c) PROVE ThreadType'
  BY <1>10 DEF ThreadType, ReadLock, ReadUnlock, cqst
<1>11. ASSUME NEW k \in Callbacks, Defer(k) \/ DeferWake(k) PROVE ThreadType'
  BY <1>11 DEF ThreadType, Defer, DeferWake, cqst
<1>12. CASE UNCHANGED vars
  BY <1>12 DEF ThreadType, vars, cqst
<1> QED BY <1>1, <1>2, <1>4, <1>5, <1>6, <1>7, <1>8, <1>9, <1>10, <1>11, <1>12 DEF Next, Work

(* And what the callers of rcu_defer and the readers keep.                    *)
LEMMA StepCallerType == ASSUME BufType, CallerType, [Next]_vars PROVE CallerType'
<1> USE RcuAssumption
<1>1. ASSUME NEW c \in CPUs, ReadLock(c) \/ ReadUnlock(c) PROVE CallerType'
  <2>1. CASE ReadLock(c)
    <3>1. reads \in 0..MaxReads /\ reads > 0 /\ reads' = reads - 1 /\ MaxReads \in Nat
      BY <2>1 DEF CallerType, ReadLock
    <3>2. reads' \in 0..MaxReads BY <3>1
    <3> QED BY <2>1, <3>2 DEF CallerType, ReadLock, buffers
  <2>2. CASE ReadUnlock(c)
    BY <2>2 DEF CallerType, ReadUnlock, buffers
  <2> QED BY <1>1, <2>1, <2>2
<1>2. ASSUME NEW k \in Callbacks, Defer(k) PROVE CallerType'
  <2> DEFINE c == Home[k]
             q == ToSet(cb[c][0]) \cup ToSet(cb[c][1]) \cup ToSet(run[c])
  <2>1. c \in CPUs BY RcuAssumption
  <2>2. q \in SUBSET Callbacks
    <3>1. cb[c][0] \in Seq(Callbacks) /\ cb[c][1] \in Seq(Callbacks) /\ run[c] \in Seq(Callbacks)
      BY <2>1 DEF BufType
    <3> QED BY <3>1, SetOfSeq
  <2>3. /\ waiting' = waiting \/ waiting' = [waiting EXCEPT ![c] = @ \cup {k}]
        /\ before' = before \/ before' = [before EXCEPT ![k] = q]
        /\ \E x \in {"full", "wake", "deferred"} : st' = [st EXCEPT ![k] = x]
        /\ UNCHANGED readers
    BY <1>2 DEF Defer, Move
  <2> HIDE DEF q, c
  <2> QED BY <2>1, <2>2, <2>3 DEF CallerType, readers
<1>3. ASSUME NEW k \in Callbacks, DeferWake(k) PROVE CallerType'
  BY <1>3 DEF CallerType, DeferWake, Move, readers, buffers
<1>4. ASSUME NEW c \in CPUs, Switch(c) PROVE CallerType'
  BY <1>4 DEF CallerType, Switch, readers
<1>5. ASSUME NEW c \in CPUs, RunCallback(c) PROVE CallerType'
  BY <1>5 DEF CallerType, RunCallback, Move, readers, buffers
<1>6. CASE UNCHANGED <<waiting, st, readers, before>>
  BY <1>6 DEF CallerType, readers
<1>7. ASSUME NEW c \in CPUs, \/ NewGeneration(c) \/ Announce(c) \/ SetOwn(c) \/ Serve(c) \/ GraceOver(c)
                             \/ FoundWork(c) \/ Sleep(c) \/ Request(c) \/ Tell(c)
      PROVE UNCHANGED <<waiting, st, readers, before>>
  BY <1>7 DEF NewGeneration, Announce, SetOwn, Serve, SetGeneration, FoundWork, GraceOver, Sleep,
              Request, Tell, buffers
<1>8. CASE UNCHANGED vars
  BY <1>6, <1>8 DEF vars, buffers
<1> QED BY <1>1, <1>2, <1>3, <1>4, <1>5, <1>6, <1>7, <1>8 DEF Next, Work
-----------------------------------------------------------------------------
(* requested is set from the announcement to the end of the grace period, and *)
(* the buffer that is not in use holds callbacks exactly then.                *)
LEMMA StepControl == ASSUME BufType, ThreadType, CtlInv, [Next]_vars PROVE CtlInv'
<1> SUFFICES ASSUME NEW d \in CPUs PROVE Ctl(d)'
  BY DEF CtlInv
<1>0. Ctl(d) BY DEF CtlInv
<1>1. CASE UNCHANGED <<buf, cb, run, pc, requested>>
  BY <1>0, <1>1 DEF Ctl, Old, Collecting
<1>2. ASSUME NEW k \in Callbacks, Defer(k) PROVE Ctl(d)'
  <2>1. UNCHANGED <<buf, pc, requested, run>> BY <1>2 DEF Defer, cqst
  <2>2. cb'[d][1 - buf[d]] = cb[d][1 - buf[d]]
    <3>1. cb' = cb \/ cb' = [cb EXCEPT ![Home[k]][buf[Home[k]]] = Append(@, k)]
      BY <1>2 DEF Defer
    <3>2. 1 - buf[d] # buf[d] /\ 1 - buf[d] \in {0, 1} /\ buf[d] \in {0, 1} BY Buffers
    <3>3. CASE d = Home[k] BY <3>1, <3>2, <3>3 DEF BufType
    <3>4. CASE d # Home[k] BY <3>1, <3>4 DEF BufType
    <3> QED BY <3>3, <3>4
  <2> QED BY <1>0, <2>1, <2>2 DEF Ctl, Old, Collecting
<1>3. ASSUME NEW c \in CPUs, c # d, Work(c) PROVE Ctl(d)'
  <2>1. UNCHANGED <<cb[d], buf[d], run[d], pc[d], requested[d]>>
    <3>1. CASE GraceOver(c)
      BY <1>3, <3>1 DEF GraceOver, Goto, BufType, ThreadType
    <3>2. CASE Switch(c)
      BY <1>3, <3>2 DEF Switch, Goto, BufType, ThreadType
    <3>3. CASE NewGeneration(c) \/ Announce(c) \/ SetOwn(c) \/ Serve(c) \/ FoundWork(c) \/ Sleep(c)
      BY <1>3, <3>3 DEF NewGeneration, Announce, SetOwn, Serve, SetGeneration, FoundWork, Sleep, cqst, buffers, Goto, ThreadType
    <3>4. CASE RunCallback(c) \/ Request(c) \/ Tell(c)
      BY <1>3, <3>4 DEF RunCallback, Request, Tell, buffers, Goto, ThreadType, BufType
    <3> QED BY <1>3, <3>1, <3>2, <3>3, <3>4 DEF Work
  <2> QED BY <1>0, <2>1 DEF Ctl, Old, Collecting
<1>4. CASE Switch(d)
  <2>1. cb[d][1 - buf[d]] = <<>> /\ pc[d] = "top" /\ run[d] = <<>> /\ ~requested[d]
    BY <1>0, <1>4 DEF Ctl, Old, Collecting, Switch, At
  <2>2. UNCHANGED <<cb, requested, run>>
    BY <1>4 DEF Switch
  <2>3. CASE cb[d][buf[d]] # <<>>
    <3>1. buf'[d] = 1 - buf[d] /\ pc'[d] = "gen" BY <1>4, <2>3 DEF Switch, Goto, BufType, ThreadType
    <3>2. 1 - (1 - buf[d]) = buf[d] BY Flip DEF BufType
    <3> QED BY <2>1, <2>2, <2>3, <3>1, <3>2 DEF Ctl, Old, Collecting
  <2>4. CASE cb[d][buf[d]] = <<>>
    <3>1. buf' = buf /\ pc'[d] = "idle" BY <1>4, <2>4 DEF Switch, Goto, ThreadType
    <3> QED BY <2>1, <2>2, <2>4, <3>1 DEF Ctl, Old, Collecting
  <2> QED BY <2>3, <2>4
<1>5. CASE NewGeneration(d) \/ Announce(d) \/ FoundWork(d) \/ Request(d)
  BY <1>0, <1>5 DEF Ctl, Old, Collecting, ThreadType, NewGeneration, Announce, FoundWork, Request, buffers, At, Goto
<1>6. CASE SetOwn(d) \/ Serve(d) \/ Tell(d)
  BY <1>0, <1>6 DEF Ctl, Old, Collecting, ThreadType, SetOwn, Serve, SetGeneration, Tell, Told, buffers, At, Goto
<1>7. CASE GraceOver(d)
  <2>1. 1 - buf[d] \in {0, 1} /\ cb[d][1 - buf[d]] # <<>> /\ pc[d] = "grace"
    BY <1>0, <1>7, Buffers DEF Ctl, Old, Collecting, GraceOver, At
  <2>2. /\ cb'[d][1 - buf[d]] = <<>> /\ run'[d] = cb[d][1 - buf[d]]
        /\ pc'[d] = "run" /\ requested'[d] = FALSE /\ buf' = buf
    BY <1>7, <2>1 DEF BufType, ThreadType, GraceOver, Goto
  <2> QED BY <2>1, <2>2 DEF Ctl, Old, Collecting
<1>8. CASE RunCallback(d)
  <2>1. run[d] \in Seq(Callbacks) /\ run[d] # <<>> BY <1>8, <1>0 DEF BufType, Ctl, RunCallback, At
  <2>2. Tail(run[d]) = <<>> <=> Len(run[d]) = 1 BY <2>1, TailEmpty
  <2>3. UNCHANGED <<buf, cb, requested>> /\ run'[d] = Tail(run[d]) /\ pc[d] = "run"
        /\ pc'[d] = IF Len(run[d]) = 1 THEN "top" ELSE "run"
    BY <1>8 DEF RunCallback, At, Goto, buffers, BufType, ThreadType
  <2> QED BY <1>0, <2>2, <2>3 DEF Ctl, Old, Collecting
<1>9. ASSUME NEW c \in CPUs, ReadLock(c) \/ ReadUnlock(c) \/ Sleep(c) PROVE Ctl(d)'
  BY <1>1, <1>9 DEF ReadLock, ReadUnlock, Sleep, buffers, cqst
<1>10. ASSUME NEW k \in Callbacks, DeferWake(k) PROVE Ctl(d)'
  BY <1>1, <1>10 DEF DeferWake, buffers, cqst
<1>11. CASE UNCHANGED vars
  BY <1>1, <1>11 DEF vars, buffers, cqst
<1> QED BY <1>2, <1>3, <1>4, <1>5, <1>6, <1>7, <1>8, <1>9, <1>10, <1>11 DEF Next, Work

(* No generation that is stored or asked for is greater than next_generation. *)
LEMMA StepGen == ASSUME ThreadType, GenInv, [Next]_vars PROVE GenInv'
<1>1. ASSUME NEW c \in CPUs, NewGeneration(c) PROVE GenInv'
  BY <1>1 DEF GenInv, ThreadType, NewGeneration
<1>2. ASSUME NEW c \in CPUs, SetOwn(c) \/ Serve(c) \/ Request(c) PROVE GenInv'
  BY <1>2 DEF GenInv, ThreadType, SetOwn, Serve, SetGeneration, Request
<1>3. CASE UNCHANGED <<nextGeneration, generation, request, g>>
  BY <1>3 DEF GenInv
<1>4. ASSUME NEW c \in CPUs, ReadLock(c) \/ ReadUnlock(c) \/ Switch(c) \/ Announce(c) \/ GraceOver(c) \/ FoundWork(c) \/ Sleep(c) \/ RunCallback(c) \/ Tell(c)
      PROVE UNCHANGED <<nextGeneration, generation, request, g>>
  BY <1>4 DEF ReadLock, ReadUnlock, Switch, Announce, GraceOver, FoundWork, Sleep, RunCallback, Tell, cqst
<1>5. ASSUME NEW k \in Callbacks, Defer(k) \/ DeferWake(k)
      PROVE UNCHANGED <<nextGeneration, generation, request, g>>
  BY <1>5 DEF Defer, DeferWake, cqst
<1>6. CASE UNCHANGED vars
  BY <1>6, <1>3 DEF vars, cqst
<1> QED BY <1>1, <1>2, <1>3, <1>4, <1>5, <1>6 DEF Next, Work
-----------------------------------------------------------------------------
(* What is pending on all CPUs, and the states of a callback that is in no    *)
(* queue and of one that is.                                                  *)
Pend == [c \in CPUs |-> Pending(c)]
Outside == {"linked", "full", "blocked", "retry"}
Inside  == {"wake", "deferred"}

(* A step leaves the queues as they are, adds one callback at the end of its  *)
(* queue, or takes the first of a queue and calls it.                         *)
Quiet ==
  /\ Pend' = Pend /\ before' = before
  /\ st' \in [Callbacks -> {"linked", "full", "blocked", "retry", "wake", "deferred", "done"}]
  /\ \A k \in Callbacks : /\ st'[k] \in Inside <=> st[k] \in Inside
                          /\ st'[k] = "done" <=> st[k] = "done"
Added(k) ==
  /\ st[k] \in Outside /\ \E x \in Inside : st' = [st EXCEPT ![k] = x]
  /\ Pend' = [Pend EXCEPT ![Home[k]] = Append(@, k)]
  /\ before' = [before EXCEPT ![k] = ToSet(Pend[Home[k]])]
Called(c) ==
  /\ Pend[c] # <<>> /\ Pend' = [Pend EXCEPT ![c] = Tail(@)]
  /\ st' = [st EXCEPT ![Head(Pend[c])] = "done"] /\ before' = before

(* The elements of a concatenation.                                           *)
LEMMA SetOfConcat ==
  ASSUME NEW S, NEW q \in Seq(S), NEW r \in Seq(S)
  PROVE  ToSet(q \o r) = ToSet(q) \cup ToSet(r)
<1>1. \A x \in Seq(S) : ToSet(x) = Range(x) BY DEF ToSet, Range
<1> DEFINE w == q \o r
<1>2. w \in Seq(S) BY ConcatProperties
<1>3. Range(w) = Range(q) \cup Range(r) BY RangeConcatenation
<1> HIDE DEF w
<1>4. ToSet(w) = ToSet(q) \cup ToSet(r) BY <1>1, <1>2, <1>3
<1> QED BY <1>4 DEF w

(* Pending(c) is made of the two buffers and of what is being run.            *)
LEMMA PendingType ==
  ASSUME BufType, NEW c \in CPUs
  PROVE  /\ Pending(c) \in Seq(Callbacks)
         /\ ToSet(Pending(c)) = ToSet(run[c]) \cup ToSet(cb[c][0]) \cup ToSet(cb[c][1])
<1> DEFINE x == run[c]
           y == cb[c][1 - buf[c]]
           z == cb[c][buf[c]]
<1>1. x \in Seq(Callbacks) /\ y \in Seq(Callbacks) /\ z \in Seq(Callbacks) BY Buffers
<1>2. ToSet(y) \cup ToSet(z) = ToSet(cb[c][0]) \cup ToSet(cb[c][1])
  <2>1. buf[c] \in {0, 1} BY DEF BufType
  <2> QED BY <2>1
<1> HIDE DEF x, y, z
<1>3. x \o y \in Seq(Callbacks) /\ (x \o y) \o z \in Seq(Callbacks) BY <1>1, ConcatProperties
<1>4. ToSet((x \o y) \o z) = ToSet(x) \cup ToSet(y) \cup ToSet(z)
  <2>1. ToSet(x \o y) = ToSet(x) \cup ToSet(y) BY <1>1, SetOfConcat
  <2> DEFINE w == x \o y
  <2>2. w \in Seq(Callbacks) BY <1>3
  <2> HIDE DEF w
  <2>3. ToSet(w \o z) = ToSet(w) \cup ToSet(z) BY <1>1, <2>2, SetOfConcat
  <2> QED BY <2>1, <2>3 DEF w
<1>5. Pending(c) = (x \o y) \o z BY DEF Pending, x, y, z
<1>6. ToSet(Pending(c)) = ToSet(x) \cup (ToSet(cb[c][0]) \cup ToSet(cb[c][1])) BY <1>2, <1>4, <1>5
<1> QED BY <1>3, <1>5, <1>6 DEF x

(* The first of a queue of several parts is taken off its first part, one     *)
(* more is added to its last part.                                            *)
LEMMA TailOfConcat ==
  ASSUME NEW S, NEW q \in Seq(S), NEW r \in Seq(S), q # <<>>
  PROVE  q \o r # <<>> /\ Head(q \o r) = Head(q) /\ Tail(q \o r) = Tail(q) \o r
<1>1. Len(q) \in Nat \ {0} /\ Len(r) \in Nat BY EmptySeq, LenProperties
<1>2. /\ q \o r \in Seq(S) /\ Len(q \o r) = Len(q) + Len(r)
      /\ \A i \in 1 .. Len(q) + Len(r) : (q \o r)[i] = IF i <= Len(q) THEN q[i] ELSE r[i - Len(q)]
  BY ConcatProperties
<1>3. q \o r # <<>> BY <1>1, <1>2
<1>4. Head(q \o r) = (q \o r)[1] /\ Head(q) = q[1] BY <1>2, <1>3, HeadIsFirst
<1>5. /\ Tail(q) \in Seq(S) /\ Len(Tail(q)) = Len(q) - 1
      /\ \A i \in 1 .. Len(Tail(q)) : Tail(q)[i] = q[i + 1]
  BY HeadTailProperties
<1>6. /\ Tail(q \o r) \in Seq(S) /\ Len(Tail(q \o r)) = Len(q \o r) - 1
      /\ \A i \in 1 .. Len(Tail(q \o r)) : Tail(q \o r)[i] = (q \o r)[i + 1]
  BY <1>2, <1>3, HeadTailProperties
<1>7. /\ Tail(q) \o r \in Seq(S) /\ Len(Tail(q) \o r) = Len(Tail(q)) + Len(r)
      /\ \A i \in 1 .. Len(Tail(q)) + Len(r) :
           (Tail(q) \o r)[i] = IF i <= Len(Tail(q)) THEN Tail(q)[i] ELSE r[i - Len(Tail(q))]
  BY <1>5, ConcatProperties
<1>8. Len(Tail(q \o r)) = Len(Tail(q) \o r) BY <1>1, <1>2, <1>5, <1>6, <1>7
<1>9. ASSUME NEW i \in 1 .. Len(Tail(q \o r)) PROVE Tail(q \o r)[i] = (Tail(q) \o r)[i]
  <2>1. Tail(q \o r)[i] = (q \o r)[i + 1] BY <1>6
  <2>2. i + 1 \in 1 .. Len(q) + Len(r) /\ i \in 1 .. Len(Tail(q)) + Len(r) BY <1>1, <1>2, <1>5, <1>6
  <2>3. CASE i <= Len(Tail(q))
    <3>1. i + 1 <= Len(q) /\ i \in 1 .. Len(Tail(q)) BY <1>1, <1>5, <2>3, <2>2
    <3> QED BY <1>2, <1>5, <1>7, <2>1, <2>2, <2>3, <3>1
  <2>4. CASE ~(i <= Len(Tail(q)))
    <3>1. ~(i + 1 <= Len(q)) /\ (i + 1) - Len(q) = i - Len(Tail(q)) BY <1>1, <1>5, <2>4, <2>2
    <3> QED BY <1>2, <1>7, <2>1, <2>2, <2>4, <3>1
  <2> QED BY <2>3, <2>4
<1>10. Tail(q \o r) = Tail(q) \o r BY <1>6, <1>7, <1>8, <1>9, SeqEqual
<1> QED BY <1>1, <1>2, <1>3, <1>4, <1>10

(* An element appended to the last part of a queue.                           *)
LEMMA AppendToConcat ==
  ASSUME NEW S, NEW q \in Seq(S), NEW r \in Seq(S), NEW e \in S
  PROVE  q \o Append(r, e) = Append(q \o r, e)
<1>1. Append(r, e) = r \o <<e>> /\ <<e>> \in Seq(S) BY AppendIsConcat
<1>2. q \o r \in Seq(S) BY ConcatProperties
<1>3. Append(q \o r, e) = (q \o r) \o <<e>> BY <1>2, AppendIsConcat
<1> QED BY <1>1, <1>3, ConcatAssociative
-----------------------------------------------------------------------------
(* rcu_defer appends to what is pending.                                      *)
LEMMA PendingAdd ==
  ASSUME BufType, NEW k \in Callbacks, Defer(k), ~ UNCHANGED cb
  PROVE  Pend' = [Pend EXCEPT ![Home[k]] = Append(@, k)]
<1> DEFINE c == Home[k]
<1>0. c \in CPUs BY RcuAssumption
<1>1. cb' = [cb EXCEPT ![c][buf[c]] = Append(@, k)] /\ buf' = buf /\ run' = run
  BY DEF Defer, cqst
<1> HIDE DEF c
<1>2. \A d \in CPUs : d # c => Pending(d)' = Pending(d)
  BY <1>1 DEF Pending, BufType
<1>3. Pending(c)' = Append(Pending(c), k)
  <2> DEFINE x == run[c]
             y == cb[c][1 - buf[c]]
             z == cb[c][buf[c]]
             w == x \o y
  <2>1. x \in Seq(Callbacks) /\ y \in Seq(Callbacks) /\ z \in Seq(Callbacks) BY <1>0, Buffers
  <2>2. cb'[c][buf[c]] = Append(z, k) /\ cb'[c][1 - buf[c]] = y
    <3>1. 1 - buf[c] # buf[c] /\ 1 - buf[c] \in {0, 1} /\ buf[c] \in {0, 1} BY <1>0, Buffers
    <3> QED BY <1>0, <1>1, <3>1 DEF BufType
  <2>3. Pending(c)' = w \o Append(z, k) BY <1>1, <2>2 DEF Pending
  <2>4. w \in Seq(Callbacks) BY <2>1, ConcatProperties
  <2>5. Pending(c) = w \o z BY DEF Pending
  <2> HIDE DEF w, x, y, z
  <2>6. w \o Append(z, k) = Append(w \o z, k) BY <2>1, <2>4, AppendToConcat
  <2> QED BY <2>3, <2>5, <2>6
<1> QED BY <1>0, <1>2, <1>3 DEF Pend, c

(* A call takes the oldest pending callback.                                  *)
LEMMA PendingRun ==
  ASSUME BufType, CtlInv, NEW c \in CPUs, RunCallback(c)
  PROVE  /\ Pend[c] # <<>> /\ Head(Pend[c]) = Head(run[c]) /\ Pend' = [Pend EXCEPT ![c] = Tail(@)]
<1>1. run' = [run EXCEPT ![c] = Tail(@)] /\ cb' = cb /\ buf' = buf /\ pc[c] = "run"
  BY DEF RunCallback, buffers, At
<1>2. \A d \in CPUs : d # c => Pending(d)' = Pending(d)
  BY <1>1 DEF Pending, BufType
<1>3. Pending(c) # <<>> /\ Head(Pending(c)) = Head(run[c]) /\ Pending(c)' = Tail(Pending(c))
  <2> DEFINE x == run[c]
             y == cb[c][1 - buf[c]]
             z == cb[c][buf[c]]
             w == x \o y
  <2>1. x \in Seq(Callbacks) /\ y \in Seq(Callbacks) /\ z \in Seq(Callbacks) BY Buffers
  <2>2. x # <<>> BY <1>1 DEF CtlInv, Ctl
  <2>3. Pending(c)' = (Tail(x) \o y) \o z BY <1>1 DEF Pending, BufType
  <2>4. Pending(c) = w \o z BY DEF Pending
  <2>5. w \in Seq(Callbacks) BY <2>1, ConcatProperties
  <2>6. w # <<>> /\ Head(w) = Head(x) /\ Tail(w) = Tail(x) \o y BY <2>1, <2>2, TailOfConcat
  <2> HIDE DEF w, x, y, z
  <2>7. w \o z # <<>> /\ Head(w \o z) = Head(w) /\ Tail(w \o z) = Tail(w) \o z
    BY <2>1, <2>5, <2>6, TailOfConcat
  <2> QED BY <2>3, <2>4, <2>6, <2>7 DEF x
<1> QED BY <1>2, <1>3 DEF Pend

(* The switch of the buffers leaves what is pending as it is: the buffer that *)
(* becomes the one in use was emptied.                                        *)
LEMMA PendingSwitch ==
  ASSUME BufType, CtlInv, NEW c \in CPUs, Switch(c)
  PROVE  Pend' = Pend
<1>1. cb' = cb /\ run' = run /\ (buf' = buf \/ buf' = [buf EXCEPT ![c] = 1 - buf[c]])
  BY DEF Switch
<1>2. CASE buf' = buf BY <1>1, <1>2 DEF Pend, Pending
<1>3. CASE buf' # buf
  <2>1. \A d \in CPUs : d # c => Pending(d)' = Pending(d)
    BY <1>1 DEF Pending, BufType
  <2> DEFINE z == cb[c][buf[c]]
  <2>2. cb[c][1 - buf[c]] = <<>> /\ run[c] = <<>>
    BY DEF CtlInv, Ctl, Switch, At, Old, Collecting
  <2>3. z \in Seq(Callbacks) /\ 1 - (1 - buf[c]) = buf[c] /\ buf'[c] = 1 - buf[c]
    BY <1>1, <1>3, Buffers, Flip DEF BufType
  <2>4. Pending(c) = (<<>> \o <<>>) \o z BY <2>2 DEF Pending
  <2>5. Pending(c)' = (<<>> \o z) \o <<>> BY <1>1, <2>2, <2>3 DEF Pending
  <2> HIDE DEF z
  <2>6. (<<>> \o <<>>) \o z = z /\ (<<>> \o z) \o <<>> = z
    <3>1. <<>> \o <<>> = <<>> BY ConcatEmptySeq
    <3>2. <<>> \o z = z /\ z \o <<>> = z BY <2>3, ConcatEmptySeq
    <3> QED BY <3>1, <3>2
  <2> QED BY <2>1, <2>4, <2>5, <2>6 DEF Pend
<1> QED BY <1>2, <1>3

(* And so does the end of a grace period, as nothing was left of the          *)
(* callbacks run before.                                                      *)
LEMMA PendingGrace ==
  ASSUME BufType, CtlInv, NEW c \in CPUs, GraceOver(c)
  PROVE  Pend' = Pend
<1> DEFINE y == cb[c][1 - buf[c]]
           z == cb[c][buf[c]]
<1>1. cb' = [cb EXCEPT ![c][1 - buf[c]] = <<>>] /\ run' = [run EXCEPT ![c] = y] /\ buf' = buf
  BY DEF GraceOver
<1>2. \A d \in CPUs : d # c => Pending(d)' = Pending(d)
  BY <1>1 DEF Pending, BufType
<1>3. run[c] = <<>> BY DEF CtlInv, Ctl, GraceOver, At
<1>4. 1 - buf[c] # buf[c] /\ 1 - buf[c] \in {0, 1} /\ buf[c] \in {0, 1}
      /\ y \in Seq(Callbacks) /\ z \in Seq(Callbacks) BY Buffers
<1>5. cb'[c][1 - buf[c]] = <<>> /\ cb'[c][buf[c]] = z /\ run'[c] = y
  BY <1>1, <1>4 DEF BufType
<1>6. Pending(c) = (<<>> \o y) \o z BY <1>3 DEF Pending
<1>7. Pending(c)' = (y \o <<>>) \o z BY <1>1, <1>5 DEF Pending
<1> HIDE DEF y, z
<1>8. <<>> \o y = y /\ y \o <<>> = y BY <1>4, ConcatEmptySeq
<1> QED BY <1>2, <1>6, <1>7, <1>8 DEF Pend

(* Every step of the program is one of the three kinds.                       *)
LEMMA StepKinds ==
  ASSUME TypeOK, CtlInv, WaitInv, [Next]_vars
  PROVE  Quiet \/ (\E k \in Callbacks : Added(k)) \/ (\E c \in CPUs : Called(c))
<1>0. BufType /\ CallerType BY TypeParts
<1>1. ASSUME NEW k \in Callbacks, Defer(k) PROVE Quiet \/ Added(k)
  <2> DEFINE c == Home[k]
             q == ToSet(cb[c][0]) \cup ToSet(cb[c][1]) \cup ToSet(run[c])
  <2>1. CASE cb' = cb
    <3>1. st[k] \in {"linked", "retry"} BY <1>1 DEF Defer
    <3>2. before' = before /\ st' = [st EXCEPT ![k] = "full"] /\ buf' = buf /\ run' = run
      <4>1. c \in CPUs /\ buf[c] \in {0, 1} /\ cb[c] \in [{0, 1} -> Seq(Callbacks)] /\ cb[c][buf[c]] \in Seq(Callbacks)
        BY <1>0, RcuAssumption, Buffers
      <4>2. cb \in [CPUs -> [{0, 1} -> Seq(Callbacks)]] BY <1>0 DEF BufType
      <4>3. Append(cb[c][buf[c]], k) # cb[c][buf[c]]
        <5>1. Len(Append(cb[c][buf[c]], k)) = Len(cb[c][buf[c]]) + 1 /\ Len(cb[c][buf[c]]) \in Nat
          BY <4>1, AppendProperties, LenProperties
        <5> QED BY <5>1
      <4>4. cb # [cb EXCEPT ![c][buf[c]] = Append(@, k)]
        <5> DEFINE cc == [cb EXCEPT ![c][buf[c]] = Append(@, k)]
        <5>1. cc[c][buf[c]] = Append(cb[c][buf[c]], k) BY <4>1, <4>2
        <5> QED BY <5>1, <4>3
      <4> QED BY <1>1, <2>1, <4>4 DEF Defer, Move, cqst
    <3>3. Pend' = Pend BY <2>1, <3>2 DEF Pend, Pending
    <3> QED BY <1>0, <3>1, <3>2, <3>3 DEF Quiet, Inside, CallerType
  <2>2. CASE cb' # cb
    <3>1. Pend' = [Pend EXCEPT ![c] = Append(@, k)] BY <1>0, <1>1, <2>2, PendingAdd
    <3>2. c \in CPUs BY RcuAssumption
    <3>3. ToSet(Pend[c]) = q BY <1>0, <3>2, PendingType DEF Pend
    <3>4. /\ st[k] \in {"linked", "retry"} /\ before' = [before EXCEPT ![k] = q]
          /\ st' = [st EXCEPT ![k] = IF k \in Syncs THEN "wake" ELSE "deferred"]
      BY <1>1, <2>2 DEF Defer, Move
    <3> HIDE DEF q
    <3> QED BY <3>1, <3>3, <3>4 DEF Added, Outside, Inside
  <2> QED BY <2>1, <2>2
<1>2. ASSUME NEW c \in CPUs, RunCallback(c) PROVE Called(c)
  BY <1>0, <1>2, PendingRun DEF Called, RunCallback, Move
<1>3. ASSUME NEW c \in CPUs, Switch(c) PROVE Quiet
  <2>1. st' = [k \in Callbacks |-> IF k \in waiting[c] THEN "retry" ELSE st[k]] /\ before' = before
    BY <1>3 DEF Switch
  <2>2. \A k \in waiting[c] : st[k] \in {"full", "blocked"} BY DEF WaitInv
  <2>3. st \in [Callbacks -> {"linked", "full", "blocked", "retry", "wake", "deferred", "done"}]
    BY <1>0 DEF CallerType
  <2>4. st' \in [Callbacks -> {"linked", "full", "blocked", "retry", "wake", "deferred", "done"}]
    BY <2>1, <2>3
  <2>5. ASSUME NEW k \in Callbacks
        PROVE  (st'[k] \in Inside <=> st[k] \in Inside) /\ (st'[k] = "done" <=> st[k] = "done")
    BY <2>1, <2>2 DEF Inside
  <2>6. Pend' = Pend BY <1>0, <1>3, PendingSwitch
  <2> QED BY <2>1, <2>4, <2>5, <2>6 DEF Quiet
<1>4. ASSUME Pend' = Pend, UNCHANGED <<before, st>> PROVE Quiet
  BY <1>0, <1>4 DEF Quiet, CallerType
<1>5. ASSUME UNCHANGED <<buf, cb, run, before, st>> PROVE Quiet
  BY <1>4, <1>5 DEF Pend, Pending
<1>6. ASSUME NEW c \in CPUs, GraceOver(c) PROVE Quiet
  <2>1. Pend' = Pend BY <1>0, <1>6, PendingGrace
  <2>2. UNCHANGED <<before, st>> BY <1>6 DEF GraceOver
  <2> QED BY <1>4, <2>1, <2>2
<1>7. ASSUME NEW k \in Callbacks, DeferWake(k) PROVE Quiet
  <2>1. UNCHANGED <<buf, cb, run, before>> BY <1>7 DEF DeferWake, buffers, cqst
  <2>2. Pend' = Pend BY <2>1 DEF Pend, Pending
  <2> QED BY <1>0, <1>7, <2>1, <2>2 DEF Quiet, Inside, CallerType, DeferWake, Move
<1>8. ASSUME NEW c \in CPUs, \/ ReadLock(c) \/ ReadUnlock(c) \/ NewGeneration(c) \/ Announce(c) \/ SetOwn(c)
                             \/ Serve(c) \/ FoundWork(c) \/ Sleep(c) \/ Request(c) \/ Tell(c)
      PROVE UNCHANGED <<buf, cb, run, before, st>>
  BY <1>8 DEF ReadLock, ReadUnlock, NewGeneration, Announce, SetOwn, Serve, SetGeneration, FoundWork,
              Sleep, Request, Tell, buffers, cqst
<1>9. CASE UNCHANGED vars
  BY <1>5, <1>9 DEF vars, buffers, cqst
<1> QED BY <1>1, <1>2, <1>3, <1>5, <1>6, <1>7, <1>8, <1>9 DEF Next, Work
-----------------------------------------------------------------------------
(* A queue without duplicates stays one when a callback is added that is not  *)
(* in it.                                                                     *)
LEMMA InjectiveAppend ==
  ASSUME NEW S, NEW q \in Seq(S), NEW e \in S, IsInjective(q), e \notin ToSet(q)
  PROVE  IsInjective(Append(q, e)) /\ ToSet(Append(q, e)) = ToSet(q) \cup {e}
<1> DEFINE r == Append(q, e)
<1>1. /\ r \in Seq(S) /\ Len(r) = Len(q) + 1 /\ r[Len(q) + 1] = e /\ \A i \in 1..Len(q) : r[i] = q[i]
      /\ Len(q) \in Nat
  BY AppendProperties, LenProperties
<1>2. DOMAIN q = 1..Len(q) /\ DOMAIN r = 1..(Len(q) + 1) BY <1>1, LenProperties
<1> HIDE DEF r
<1>3. \A i \in 1..Len(q) : q[i] # e BY <1>2 DEF ToSet
<1>4. ASSUME NEW i \in DOMAIN r, NEW j \in DOMAIN r, r[i] = r[j] PROVE i = j
  <2>1. \A h \in DOMAIN r : h \in 1..Len(q) \/ h = Len(q) + 1 BY <1>1, <1>2
  <2> QED BY <1>1, <1>2, <1>3, <1>4, <2>1 DEF IsInjective
<1>5. IsInjective(r) BY <1>4 DEF IsInjective
<1>6. ToSet(r) = ToSet(q) \cup {e}
  <2>1. DOMAIN r = DOMAIN q \cup {Len(q) + 1} BY <1>1, <1>2
  <2> QED BY <1>1, <1>2, <2>1 DEF ToSet
<1> QED BY <1>5, <1>6 DEF r

(* The first is not in the rest.                                              *)
LEMMA InjectiveTail ==
  ASSUME NEW S, NEW q \in Seq(S), q # <<>>, IsInjective(q)
  PROVE  IsInjective(Tail(q)) /\ ToSet(Tail(q)) = ToSet(q) \ {Head(q)} /\ Head(q) \in ToSet(q)
<1> DEFINE r == Tail(q)
<1>1. /\ r \in Seq(S) /\ Len(r) = Len(q) - 1 /\ \A i \in 1..Len(r) : r[i] = q[i + 1]
      /\ Len(q) \in Nat \ {0} /\ Head(q) = q[1]
  BY HeadTailProperties, LenProperties, EmptySeq, HeadIsFirst
<1>2. DOMAIN q = 1..Len(q) /\ DOMAIN r = 1..Len(r) BY <1>1, LenProperties
<1> HIDE DEF r
<1>3. ASSUME NEW i \in DOMAIN r, NEW j \in DOMAIN r, r[i] = r[j] PROVE i = j
  <2>1. i + 1 \in DOMAIN q /\ j + 1 \in DOMAIN q BY <1>1, <1>2
  <2>2. q[i + 1] = q[j + 1] BY <1>1, <1>2, <1>3
  <2>3. i + 1 = j + 1 BY <2>1, <2>2 DEF IsInjective
  <2> QED BY <1>1, <1>2, <2>3
<1>4. IsInjective(r) BY <1>3 DEF IsInjective
<1>5. 1 \in DOMAIN q BY <1>1, <1>2
<1>6. ASSUME NEW x \in ToSet(r) PROVE x \in ToSet(q) /\ x # Head(q)
  <2>1. PICK i \in DOMAIN r : x = r[i] BY DEF ToSet
  <2>2. i + 1 \in DOMAIN q /\ i + 1 # 1 /\ x = q[i + 1] BY <1>1, <1>2, <2>1
  <2> QED BY <1>1, <1>5, <2>2 DEF ToSet, IsInjective
<1>7. ASSUME NEW x \in ToSet(q), x # Head(q) PROVE x \in ToSet(r)
  <2>1. PICK i \in DOMAIN q : x = q[i] BY DEF ToSet
  <2>2. i # 1 BY <1>1, <1>7, <2>1
  <2>3. i - 1 \in DOMAIN r /\ r[i - 1] = q[i] BY <1>1, <1>2, <2>1, <2>2
  <2> QED BY <2>1, <2>3 DEF ToSet
<1>8. Head(q) \in ToSet(q) BY <1>1, <1>5 DEF ToSet
<1> QED BY <1>4, <1>6, <1>7, <1>8 DEF r

(* The callbacks that c's queue should hold.                                  *)
InQueue(c) == {k \in Callbacks : Home[k] = c /\ st[k] \in Inside}

(* NoneLost said of the queues.                                               *)
LEMMA NoneLostPend ==
  NoneLost <=> \A c \in CPUs : IsInjective(Pend[c]) /\ ToSet(Pend[c]) = InQueue(c)
BY DEF NoneLost, Pend, InQueue, Inside

(* Every kind of step keeps each callback in one place.                       *)
LEMMA StepNoneLost ==
  ASSUME TypeOK, NoneLost, CtlInv, WaitInv, [Next]_vars
  PROVE  NoneLost'
<1>0. BufType /\ CallerType BY TypeParts
<1>1. \A c \in CPUs : Pend[c] \in Seq(Callbacks) BY <1>0, PendingType DEF Pend
<1>t. st \in [Callbacks -> {"linked", "full", "blocked", "retry", "wake", "deferred", "done"}]
  BY <1>0 DEF CallerType
<1>2. \A c \in CPUs : IsInjective(Pend[c]) /\ ToSet(Pend[c]) = InQueue(c)
  BY NoneLostPend
<1>3. SUFFICES ASSUME NEW d \in CPUs PROVE IsInjective(Pend'[d]) /\ ToSet(Pend'[d]) = InQueue(d)'
  BY DEF NoneLost, Pend, InQueue, Inside
<1>4. CASE Quiet
  <2>1. InQueue(d)' = InQueue(d) BY <1>4 DEF Quiet, InQueue
  <2>2. Pend' = Pend BY <1>4 DEF Quiet
  <2> QED BY <1>2, <2>1, <2>2
<1>5. ASSUME NEW k \in Callbacks, Added(k) PROVE IsInjective(Pend'[d]) /\ ToSet(Pend'[d]) = InQueue(d)'
  <2>0. Pend \in [CPUs -> Seq(Callbacks)] BY <1>1 DEF Pend
  <2>1. CASE d = Home[k]
    <3>1. Pend'[d] = Append(Pend[d], k) BY <1>5, <2>0, <2>1 DEF Added
    <3>2. InQueue(d)' = InQueue(d) \cup {k} BY <1>5, <1>t, <2>1 DEF Added, InQueue, Inside
    <3>3. k \notin InQueue(d) BY <1>5 DEF Added, Outside, InQueue, Inside
    <3> QED BY <1>1, <1>2, <3>1, <3>2, <3>3, InjectiveAppend
  <2>2. CASE d # Home[k]
    <3>1. Pend'[d] = Pend[d] BY <1>5, <2>0, <2>2 DEF Added
    <3>2. InQueue(d)' = InQueue(d) BY <1>5, <1>t, <2>2 DEF Added, InQueue, Inside
    <3> QED BY <1>2, <3>1, <3>2
  <2> QED BY <2>1, <2>2
<1>6. ASSUME NEW c \in CPUs, Called(c) PROVE IsInjective(Pend'[d]) /\ ToSet(Pend'[d]) = InQueue(d)'
  <2>0. Pend \in [CPUs -> Seq(Callbacks)] BY <1>1 DEF Pend
  <2> DEFINE k == Head(Pend[c])
  <2>1. Pend[c] \in Seq(Callbacks) /\ Pend[c] # <<>> /\ IsInjective(Pend[c]) BY <1>1, <1>2, <1>6 DEF Called
  <2>2. k \in ToSet(Pend[c]) /\ IsInjective(Tail(Pend[c])) /\ ToSet(Tail(Pend[c])) = ToSet(Pend[c]) \ {k}
    BY <2>1, InjectiveTail
  <2>3. k \in Callbacks /\ Home[k] = c BY <1>2, <2>2 DEF InQueue
  <2>4. st' = [st EXCEPT ![k] = "done"] /\ Pend' = [Pend EXCEPT ![c] = Tail(@)] BY <1>6 DEF Called
  <2> HIDE DEF k
  <2>5. CASE d = c
    <3>1. Pend'[d] = Tail(Pend[c]) BY <2>0, <2>4, <2>5
    <3>2. InQueue(d)' = InQueue(d) \ {k} BY <1>t, <2>3, <2>4, <2>5 DEF InQueue, Inside
    <3> QED BY <1>2, <2>2, <2>5, <3>1, <3>2
  <2>6. CASE d # c
    <3>1. Pend'[d] = Pend[d] BY <2>0, <2>4, <2>6
    <3>2. InQueue(d)' = InQueue(d) BY <1>t, <2>3, <2>4, <2>6 DEF InQueue, Inside
    <3> QED BY <1>2, <3>1, <3>2
  <2> QED BY <2>5, <2>6
<1> QED BY <1>4, <1>5, <1>6, StepKinds
-----------------------------------------------------------------------------
(* Every kind of step keeps the order: the callback that is called is the     *)
(* oldest, so all that were there before it have been called.                 *)
LEMMA StepOrder ==
  ASSUME TypeOK, NoneLost, OrderInv, InOrder, CtlInv, WaitInv, [Next]_vars
  PROVE  OrderInv' /\ InOrder'
<1> DEFINE Prec(c, i) == \A j \in before[Pend[c][i]] :
                           st[j] = "done" \/ \E h \in 1..(i - 1) : Pend[c][h] = j
<1>0. BufType /\ CallerType BY TypeParts
<1>1. \A c \in CPUs : Pend[c] \in Seq(Callbacks) BY <1>0, PendingType DEF Pend
<1>p. Pend \in [CPUs -> Seq(Callbacks)] BY <1>1 DEF Pend
<1>t. /\ st \in [Callbacks -> {"linked", "full", "blocked", "retry", "wake", "deferred", "done"}]
      /\ before \in [Callbacks -> SUBSET Callbacks]
  BY <1>0 DEF CallerType
<1>2. \A c \in CPUs : ToSet(Pend[c]) = InQueue(c) /\ IsInjective(Pend[c])
  BY NoneLostPend
<1>3. \A c \in CPUs : \A i \in 1..Len(Pend[c]) : Prec(c, i)
  BY DEF OrderInv, Preceded, Pend
<1>4. SUFFICES (\A c \in CPUs : \A i \in 1..Len(Pend'[c]) : \A j \in before'[Pend'[c][i]] :
                   st'[j] = "done" \/ \E h \in 1..(i - 1) : Pend'[c][h] = j) /\ InOrder'
  BY DEF OrderInv, Preceded, Pend
<1>5. CASE Quiet
  <2>1. Pend' = Pend /\ before' = before /\ \A k \in Callbacks : st'[k] = "done" <=> st[k] = "done"
    BY <1>5 DEF Quiet
  <2>2. ASSUME NEW c \in CPUs, NEW i \in 1..Len(Pend[c]), NEW j \in before[Pend[c][i]]
        PROVE  st'[j] = "done" \/ \E h \in 1..(i - 1) : Pend[c][h] = j
    <3>1. Pend[c][i] \in Callbacks BY <1>1, ElementOfSeq
    <3>2. j \in Callbacks BY <1>t, <3>1
    <3> QED BY <1>3, <2>1, <3>2
  <2>3. InOrder' BY <1>t, <2>1 DEF InOrder
  <2> QED BY <2>1, <2>2, <2>3
<1>6. ASSUME NEW k \in Callbacks, Added(k)
      PROVE  (\A c \in CPUs : \A i \in 1..Len(Pend'[c]) : \A j \in before'[Pend'[c][i]] :
                 st'[j] = "done" \/ \E h \in 1..(i - 1) : Pend'[c][h] = j) /\ InOrder'
  <2> DEFINE q == Pend[Home[k]]
  <2>1. /\ \A l \in Callbacks : st'[l] = "done" <=> st[l] = "done"
        /\ st'[k] # "done"
    BY <1>6, <1>t DEF Added, Inside, Outside
  <2>2. \A l \in Callbacks : l # k => before'[l] = before[l]
    BY <1>6, <1>t DEF Added
  <2>3. Home[k] \in CPUs /\ q \in Seq(Callbacks) /\ Len(q) \in Nat BY RcuAssumption, <1>1, LenProperties
  <2>4. before'[k] = ToSet(q) BY <1>6, <1>t DEF Added
  <2>5. k \notin ToSet(q) BY <1>2, <1>6, <2>3 DEF InQueue, Added, Outside, Inside
  <2>6. InOrder' BY <1>t, <2>1, <2>2 DEF InOrder
  <2>7. ASSUME NEW c \in CPUs, NEW i \in 1..Len(Pend'[c]), NEW j \in before'[Pend'[c][i]]
        PROVE  st'[j] = "done" \/ \E h \in 1..(i - 1) : Pend'[c][h] = j
    <3>1. CASE c # Home[k]
      <4>1. Pend'[c] = Pend[c] BY <1>6, <1>p, <3>1 DEF Added
      <4>2. Pend[c][i] \in Callbacks /\ Pend[c][i] \in ToSet(Pend[c])
        <5>1. i \in DOMAIN Pend[c] BY <1>1, <4>1, LenProperties
        <5> QED BY <1>1, <4>1, <5>1, ElementOfSeq DEF ToSet
      <4>3. Pend[c][i] # k BY <1>2, <3>1, <4>2 DEF InQueue
      <4>4. j \in before[Pend[c][i]] BY <2>2, <4>1, <4>2, <4>3
      <4>5. j \in Callbacks BY <1>t, <4>2, <4>4
      <4> QED BY <1>3, <2>1, <4>1, <4>4, <4>5
    <3>2. CASE c = Home[k]
      <4>1. Pend'[c] = Append(q, k) BY <1>6, <1>p, <3>2 DEF Added
      <4> HIDE DEF q
      <4>2. /\ Len(Pend'[c]) = Len(q) + 1 /\ Pend'[c][Len(q) + 1] = k
            /\ \A h \in 1..Len(q) : Pend'[c][h] = q[h]
        BY <2>3, <4>1, AppendProperties
      <4>3. CASE i = Len(q) + 1
        <5>1. j \in ToSet(q) BY <2>4, <4>2, <4>3
        <5>2. PICK h \in DOMAIN q : q[h] = j BY <5>1 DEF ToSet
        <5>3. h \in 1..Len(q) BY <2>3, <5>2, LenProperties
        <5>4. 1..(i - 1) = 1..Len(q) BY <2>3, <4>3
        <5> QED BY <4>2, <5>2, <5>3, <5>4
      <4>4. CASE i # Len(q) + 1
        <5>1. i \in 1..Len(q) BY <2>3, <4>2, <4>4
        <5>2. q[i] \in Callbacks /\ q[i] \in ToSet(q)
          <6>1. i \in DOMAIN q BY <2>3, <5>1, LenProperties
          <6> QED BY <2>3, <5>1, <6>1, ElementOfSeq DEF ToSet
        <5>3. j \in before[q[i]] BY <2>2, <2>5, <4>2, <5>1, <5>2
        <5>4. j \in Callbacks BY <1>t, <5>2, <5>3
        <5>5. st[j] = "done" \/ \E h \in 1..(i - 1) : q[h] = j BY <1>3, <3>2, <5>1, <5>3 DEF q
        <5>6. \A h \in 1..(i - 1) : h \in 1..Len(q) BY <2>3, <5>1
        <5> QED BY <2>1, <4>2, <5>4, <5>5, <5>6
      <4> QED BY <4>3, <4>4
    <3> QED BY <3>1, <3>2
  <2> QED BY <2>6, <2>7
<1>7. ASSUME NEW d \in CPUs, Called(d)
      PROVE  (\A c \in CPUs : \A i \in 1..Len(Pend'[c]) : \A j \in before'[Pend'[c][i]] :
                 st'[j] = "done" \/ \E h \in 1..(i - 1) : Pend'[c][h] = j) /\ InOrder'
  <2> DEFINE q == Pend[d]
             k == Head(q)
  <2>1. q \in Seq(Callbacks) /\ q # <<>> /\ before' = before
        /\ st' = [st EXCEPT ![k] = "done"] /\ Pend' = [Pend EXCEPT ![d] = Tail(q)]
    BY <1>1, <1>7 DEF Called
  <2> HIDE DEF q
  <2>2. /\ Len(q) \in Nat \ {0} /\ k = q[1] /\ k \in Callbacks
        /\ Tail(q) \in Seq(Callbacks) /\ Len(Tail(q)) = Len(q) - 1
        /\ \A i \in 1..Len(Tail(q)) : Tail(q)[i] = q[i + 1]
    BY <2>1, HeadTailProperties, HeadIsFirst, EmptySeq
  <2> HIDE DEF k
  <2>3. \A l \in Callbacks : st'[l] = IF l = k THEN "done" ELSE st[l] BY <1>t, <2>1, <2>2
  <2>4. InOrder'
    <3>1. Prec(d, 1) BY <1>3, <2>2 DEF q
    <3>2. \A j \in before[k] : st[j] = "done" BY <3>1, <2>2 DEF q
    <3> QED BY <1>t, <2>1, <2>3, <3>2 DEF InOrder
  <2>5. ASSUME NEW c \in CPUs, NEW i \in 1..Len(Pend'[c]), NEW j \in before'[Pend'[c][i]]
        PROVE  st'[j] = "done" \/ \E h \in 1..(i - 1) : Pend'[c][h] = j
    <3>1. CASE c # d
      <4>1. Pend'[c] = Pend[c] BY <1>p, <2>1, <3>1
      <4>2. Pend[c][i] \in Callbacks BY <1>1, <4>1, ElementOfSeq
      <4>3. j \in Callbacks /\ j \in before[Pend[c][i]] BY <1>t, <2>1, <4>1, <4>2
      <4> QED BY <1>3, <2>3, <4>1, <4>3
    <3>2. CASE c = d
      <4>1. Pend'[c] = Tail(q) BY <1>p, <2>1, <3>2
      <4>2. i \in 1..Len(Tail(q)) /\ i + 1 \in 1..Len(q) /\ Pend'[c][i] = q[i + 1]
        BY <2>2, <4>1
      <4>3. q[i + 1] \in Callbacks BY <2>1, <4>2, ElementOfSeq
      <4>4. j \in Callbacks /\ j \in before[q[i + 1]] BY <1>t, <2>1, <4>2, <4>3
      <4>5. st[j] = "done" \/ \E h \in 1..((i + 1) - 1) : q[h] = j
        BY <1>3, <4>2, <4>4 DEF q
      <4>6. CASE st[j] = "done" \/ j = k BY <2>3, <4>4, <4>6
      <4>7. CASE st[j] # "done" /\ j # k
        <5>1. PICK h \in 1..((i + 1) - 1) : q[h] = j BY <4>5, <4>7
        <5>2. h # 1 BY <2>2, <4>7, <5>1
        <5>3. h - 1 \in 1..(i - 1) /\ h - 1 \in 1..Len(Tail(q)) /\ (h - 1) + 1 = h
          BY <2>2, <4>2, <5>1, <5>2
        <5>4. Pend'[c][h - 1] = j BY <2>2, <4>1, <5>1, <5>3
        <5> QED BY <5>3, <5>4
      <4> QED BY <4>6, <4>7
    <3> QED BY <3>1, <3>2
  <2> QED BY <2>4, <2>5
<1> QED BY <1>5, <1>6, <1>7, StepKinds
-----------------------------------------------------------------------------
(* Who waits for room has no callback in a buffer.                            *)
LEMMA StepWait == ASSUME CallerType, WaitInv, BufType, CtlInv, NoneLost, [Next]_vars PROVE WaitInv'
<1>1. CASE waiting' = waiting /\ \A k \in Callbacks : st'[k] = st[k] \/ (st[k] = "full" /\ st'[k] = "blocked") \/ st[k] \in {"wake", "deferred"}
  <2> SUFFICES ASSUME NEW c \in CPUs, NEW k \in waiting[c] PROVE Home[k] = c /\ st'[k] \in {"full", "blocked"}
    BY <1>1 DEF WaitInv
  <2>1. k \in Callbacks BY DEF CallerType
  <2> QED BY <1>1, <2>1 DEF WaitInv
<1>2. ASSUME NEW k \in Callbacks, Defer(k) PROVE WaitInv'
  <2>0. Home[k] \in CPUs BY RcuAssumption
  <2>1. waiting[Home[k]] \subseteq Callbacks BY <2>0 DEF CallerType
  <2>2. st[k] \in {"linked", "retry"} BY <1>2 DEF Defer
  <2>3. \A c \in CPUs : k \notin waiting[c] BY <2>2 DEF WaitInv
  <2>4. CASE waiting' = waiting
    <3>1. \A j \in Callbacks : j # k => st'[j] = st[j] BY <1>2 DEF Defer, Move, CallerType
    <3>2. \A c \in CPUs : waiting[c] \subseteq Callbacks BY DEF CallerType
    <3> QED BY <2>3, <2>4, <3>1, <3>2 DEF WaitInv
  <2>5. CASE waiting' # waiting
    <3>1. waiting' = [waiting EXCEPT ![Home[k]] = @ \cup {k}] /\ st' = [st EXCEPT ![k] = "full"]
      BY <1>2, <2>5 DEF Defer, Move
    <3>2. \A c \in CPUs : waiting[c] \subseteq Callbacks BY DEF CallerType
    <3> QED BY <2>0, <2>3, <3>1, <3>2 DEF WaitInv, CallerType
  <2> QED BY <2>4, <2>5
<1>3. ASSUME NEW k \in Callbacks, DeferWake(k) PROVE WaitInv'
  BY <1>1, <1>3 DEF DeferWake, Move, CallerType, buffers
<1>4. ASSUME NEW c \in CPUs, Switch(c) PROVE WaitInv'
  <2>1. /\ waiting' = [waiting EXCEPT ![c] = {}]
        /\ st' = [k \in Callbacks |-> IF k \in waiting[c] THEN "retry" ELSE st[k]]
    BY <1>4 DEF Switch
  <2>2. \A d \in CPUs : waiting[d] \subseteq Callbacks BY DEF CallerType
  <2> SUFFICES ASSUME NEW d \in CPUs, NEW k \in waiting'[d] PROVE Home[k] = d /\ st'[k] \in {"full", "blocked"}
    BY DEF WaitInv
  <2>3. d # c /\ k \in waiting[d] BY <2>1 DEF CallerType
  <2>4. k \notin waiting[c] BY <2>3 DEF WaitInv
  <2> QED BY <2>1, <2>2, <2>3, <2>4 DEF WaitInv
<1>5. ASSUME NEW c \in CPUs, RunCallback(c) PROVE WaitInv'
  <2>1. run[c] \in Seq(Callbacks) /\ run[c] # <<>> BY <1>5 DEF BufType, CtlInv, Ctl, RunCallback, At
  <2>2. Head(run[c]) \in Callbacks /\ st[Head(run[c])] \in {"wake", "deferred"}
    <3>1. run[c][1] \in ToSet(run[c]) /\ run[c][1] = Head(run[c]) BY <2>1 DEF ToSet
    <3>2. Head(run[c]) \in ToSet(Pending(c)) BY <3>1, PendingType
    <3> QED BY <3>2 DEF NoneLost
  <2> QED BY <1>1, <1>5, <2>2 DEF RunCallback, Move, CallerType, buffers
<1>7. ASSUME NEW c \in CPUs, \/ ReadLock(c) \/ ReadUnlock(c) \/ NewGeneration(c) \/ Announce(c) \/ SetOwn(c)
                             \/ Serve(c) \/ GraceOver(c) \/ FoundWork(c) \/ Sleep(c) \/ Request(c) \/ Tell(c)
      PROVE UNCHANGED <<waiting, st>>
  BY <1>7 DEF ReadLock, ReadUnlock, NewGeneration, Announce, SetOwn, Serve, SetGeneration, FoundWork,
              GraceOver, Sleep, Request, Tell, buffers
<1>8. CASE UNCHANGED vars
  BY <1>1, <1>8 DEF vars, buffers
<1> QED BY <1>1, <1>2, <1>3, <1>4, <1>5, <1>7, <1>8 DEF Next, Work
-----------------------------------------------------------------------------
(* A section that is open keeps its CPU from storing a generation, so its     *)
(* generation stays below that of every grace period that began after it.  A  *)
(* callback whose object it can see was added later than it began, and is run *)
(* only when all CPUs have reached the generation of a later grace period.    *)
LEMMA StepSeen ==
  ASSUME TypeOK, CtlInv, GenInv, NoneLost, SeenInv, GracePeriod, [Next]_vars
  PROVE  SeenInv' /\ GracePeriod'
<1>0. BufType /\ ThreadType /\ CallerType BY TypeParts
<1> SUFFICES ASSUME NEW d \in CPUs PROVE Clear(d)' /\ \A k \in seen'[d] : st'[k] # "done"
  BY DEF SeenInv, GracePeriod
<1>1. Clear(d) /\ \A k \in seen[d] : st[k] # "done" BY DEF SeenInv, GracePeriod
<1>s. \A c \in CPUs : seen[c] \subseteq Callbacks BY <1>0 DEF CallerType
<1>2. CASE UNCHANGED <<buf, cb, run, pc, requested, generation, g, seen, reading, st>>
  BY <1>1, <1>2 DEF Clear, Bound, Collecting, Old
<1>3. ASSUME NEW c \in CPUs, ReadLock(c) PROVE Clear(d)' /\ \A k \in seen'[d] : st'[k] # "done"
  <2>1. UNCHANGED <<buf, cb, run, pc, requested, generation, g, st>>
    BY <1>3 DEF ReadLock, buffers, cqst
  <2>2. CASE c = d
    <3>1. seen'[d] = {k \in Callbacks : st[k] = "linked"} /\ reading'[d]
      BY <1>0, <1>3, <2>2 DEF ReadLock, CallerType
    <3>2. \A e \in CPUs, k \in seen'[d] : k \notin ToSet(run[e]) /\ k \notin ToSet(Old(e))
      <4> TAKE e \in CPUs, k \in seen'[d]
      <4>1. k \notin ToSet(Pending(e)) BY <3>1 DEF NoneLost
      <4>2. Old(e) = cb[e][0] \/ Old(e) = cb[e][1] BY <1>0, Buffers DEF Old
      <4> QED BY <1>0, <4>1, <4>2, PendingType
    <3> QED BY <2>1, <3>1, <3>2 DEF Clear, Old
  <2>3. CASE c # d
    <3>1. seen'[d] = seen[d] /\ reading'[d] = reading[d]
      BY <1>0, <1>3, <2>3 DEF ReadLock, CallerType
    <3> QED BY <1>1, <2>1, <3>1 DEF Clear, Bound, Collecting, Old
  <2> QED BY <2>2, <2>3
<1>4. ASSUME NEW c \in CPUs, ReadUnlock(c) PROVE Clear(d)' /\ \A k \in seen'[d] : st'[k] # "done"
  <2>1. UNCHANGED <<buf, cb, run, pc, requested, generation, g, st>>
    BY <1>4 DEF ReadUnlock, buffers, cqst
  <2>2. (seen'[d] = seen[d] /\ reading'[d] = reading[d]) \/ seen'[d] = {}
    BY <1>0, <1>4 DEF ReadUnlock, CallerType
  <2> QED BY <1>1, <2>1, <2>2 DEF Clear, Bound, Collecting, Old
<1>5. ASSUME NEW j \in Callbacks, Defer(j) PROVE Clear(d)' /\ \A k \in seen'[d] : st'[k] # "done"
  <2>1. UNCHANGED <<buf, run, pc, requested, generation, g, seen, reading>>
    BY <1>5 DEF Defer, cqst, readers
  <2>2. ASSUME NEW c \in CPUs PROVE Old(c)' = Old(c)
    <3>1. cb' = cb \/ cb' = [cb EXCEPT ![Home[j]][buf[Home[j]]] = Append(@, j)]
      BY <1>5 DEF Defer
    <3>2. 1 - buf[c] # buf[c] /\ 1 - buf[c] \in {0, 1} /\ buf[c] \in {0, 1} BY <1>0, Buffers
    <3>3. CASE c = Home[j] BY <1>0, <2>1, <3>1, <3>2, <3>3 DEF BufType, Old
    <3>4. CASE c # Home[j] BY <1>0, <2>1, <3>1, <3>4 DEF BufType, Old
    <3> QED BY <3>3, <3>4
  <2>3. \A k \in Callbacks : st[k] # "done" => st'[k] # "done"
    BY <1>0, <1>5 DEF Defer, Move, CallerType
  <2> QED BY <1>1, <1>s, <2>1, <2>2, <2>3 DEF Clear, Bound, Collecting
<1>6. ASSUME NEW j \in Callbacks, DeferWake(j) PROVE Clear(d)' /\ \A k \in seen'[d] : st'[k] # "done"
  <2>1. UNCHANGED <<buf, cb, run, pc, requested, generation, g, seen, reading>>
    BY <1>6 DEF DeferWake, buffers, cqst, readers
  <2>3. \A k \in Callbacks : st[k] # "done" => st'[k] # "done"
    BY <1>0, <1>6 DEF DeferWake, Move, CallerType
  <2> QED BY <1>1, <1>s, <2>1, <2>3 DEF Clear, Bound, Collecting, Old
<1>7. ASSUME NEW c \in CPUs, Switch(c) PROVE Clear(d)' /\ \A k \in seen'[d] : st'[k] # "done"
  <2>1. UNCHANGED <<cb, run, requested, generation, g, seen, reading>>
    BY <1>7 DEF Switch, readers
  <2>2. \A k \in Callbacks : st[k] # "done" => st'[k] # "done"
    BY <1>7 DEF Switch
  <2>3. pc[c] = "top" /\ pc'[c] \in {"gen", "idle"} /\ \A e \in CPUs : e # c => pc'[e] = pc[e] /\ buf'[e] = buf[e]
    BY <1>0, <1>7 DEF Switch, At, Goto, ThreadType, BufType
  <2>4. ASSUME NEW e \in CPUs, NEW k \in seen[d], Bound(e)', k \in ToSet(Old(e)') PROVE generation[d] < g[e]
    <3>1. e # c BY <2>3, <2>4 DEF Bound, Collecting
    <3>2. Bound(e) /\ k \in ToSet(Old(e)) BY <2>1, <2>3, <2>4, <3>1 DEF Bound, Collecting, Old
    <3> QED BY <1>1, <3>2 DEF Clear
  <2>5. Clear(d)' BY <1>1, <2>1, <2>4 DEF Clear
  <2> QED BY <1>1, <1>s, <2>1, <2>2, <2>5
<1>8. ASSUME NEW c \in CPUs, NewGeneration(c) PROVE Clear(d)' /\ \A k \in seen'[d] : st'[k] # "done"
  <2>1. UNCHANGED <<buf, cb, run, requested, generation, seen, reading, st>>
    BY <1>8 DEF NewGeneration, buffers, readers
  <2>2. g' = [g EXCEPT ![c] = nextGeneration + 1] /\ \A e \in CPUs : e # c => pc'[e] = pc[e]
    BY <1>0, <1>8 DEF NewGeneration, Goto, ThreadType
  <2>3. generation[d] < g'[c] BY <1>0, <2>2 DEF GenInv, ThreadType
  <2>4. \A e \in CPUs : e # c => g'[e] = g[e] BY <1>0, <2>2 DEF ThreadType
  <2>5. ASSUME NEW e \in CPUs, NEW k \in seen[d], Bound(e)', k \in ToSet(Old(e)) PROVE generation[d] < g'[e]
    <3>1. CASE e = c BY <2>3, <3>1
    <3>2. CASE e # c
      <4>1. Bound(e) BY <2>1, <2>2, <2>5, <3>2 DEF Bound, Collecting
      <4> QED BY <1>1, <2>4, <2>5, <3>2, <4>1 DEF Clear
    <3> QED BY <3>1, <3>2
  <2>6. \A e \in CPUs : Old(e)' = Old(e) BY <2>1 DEF Old
  <2> QED BY <1>1, <2>1, <2>5, <2>6 DEF Clear
<1>9. ASSUME NEW c \in CPUs, UNCHANGED <<buf, cb, run, generation, g, seen, reading, st>>,
             \A e \in CPUs : Bound(e)' => Bound(e)
      PROVE  Clear(d)' /\ \A k \in seen'[d] : st'[k] # "done"
  BY <1>1, <1>9 DEF Clear, Old
<1>10. ASSUME NEW c \in CPUs, Announce(c) \/ Request(c) \/ Tell(c) \/ FoundWork(c)
       PROVE Clear(d)' /\ \A k \in seen'[d] : st'[k] # "done"
  <2>1. UNCHANGED <<buf, cb, run, generation, g, seen, reading, st>>
    BY <1>10 DEF Announce, Request, Tell, FoundWork, buffers, readers
  <2>2. \A e \in CPUs : Bound(e)' => Bound(e)
    BY <1>0, <1>10 DEF Announce, Request, Tell, FoundWork, Told, At, Goto, Bound, Collecting, ThreadType
  <2> QED BY <1>9, <2>1, <2>2
<1>11. ASSUME NEW c \in CPUs, NEW n \in Nat, SetGeneration(c, n), ~reading[c], pc[c] \in {"set", "grace", "idle"}
       PROVE  Clear(d)' /\ \A k \in seen'[d] : st'[k] # "done"
  <2>1. UNCHANGED <<buf, cb, run, g, seen, reading, st, requested>>
    BY <1>11 DEF SetGeneration, buffers, readers
  <2>2. \A e \in CPUs : Bound(e)' => Bound(e)
    <3>1. Ctl(c) BY DEF CtlInv
    <3> QED BY <1>0, <1>11, <3>1 DEF SetGeneration, Told, Goto, Bound, Collecting, ThreadType, Ctl
  <2>3. CASE d = c
    <3>1. seen[d] = {} BY <1>1, <1>11, <2>3 DEF Clear
    <3> QED BY <2>1, <3>1 DEF Clear
  <2>4. CASE d # c
    <3>1. generation'[d] = generation[d] BY <1>0, <1>11, <2>4 DEF SetGeneration, ThreadType
    <3> QED BY <1>1, <2>1, <2>2, <3>1 DEF Clear, Old
  <2> QED BY <2>3, <2>4
<1>12. ASSUME NEW c \in CPUs, SetOwn(c) \/ Serve(c) PROVE Clear(d)' /\ \A k \in seen'[d] : st'[k] # "done"
  BY <1>0, <1>11, <1>12 DEF SetOwn, Serve, At, ThreadType
<1>13. ASSUME NEW c \in CPUs, GraceOver(c) PROVE Clear(d)' /\ \A k \in seen'[d] : st'[k] # "done"
  <2>1. UNCHANGED <<buf, generation, g, seen, reading, st>>
    BY <1>13 DEF GraceOver, readers
  <2>2. /\ cb' = [cb EXCEPT ![c][1 - buf[c]] = <<>>] /\ run' = [run EXCEPT ![c] = Old(c)]
        /\ \A e \in CPUs : e # c => pc'[e] = pc[e] /\ requested'[e] = requested[e]
        /\ pc'[c] = "run" /\ pc[c] = "grace"
    BY <1>0, <1>13 DEF GraceOver, Old, Goto, At, ThreadType
  <2>3. generation[d] >= g[c] BY <1>13 DEF GraceOver, AllAtGeneration
  <2>4. Bound(c) BY <2>2 DEF Bound, Collecting
  <2>5. \A k \in seen[d] : k \notin ToSet(Old(c)) BY <1>0, <1>1, <2>3, <2>4 DEF Clear, ThreadType
  <2>6. ~Bound(c)' BY <2>2 DEF Bound, Collecting
  <2>7. \A e \in CPUs : e # c => run'[e] = run[e] /\ Old(e)' = Old(e) BY <1>0, <2>1, <2>2 DEF BufType, Old
  <2>8. run'[c] = Old(c) BY <1>0, <2>2 DEF BufType
  <2>9. \A e \in CPUs : e # c => (Bound(e)' => Bound(e)) BY <2>2 DEF Bound, Collecting
  <2>10. \A e \in CPUs, k \in seen[d] : k \notin ToSet(run'[e])
    BY <1>1, <2>5, <2>7, <2>8 DEF Clear
  <2>11. \A e \in CPUs, k \in seen[d] : Bound(e)' /\ k \in ToSet(Old(e)') => generation[d] < g[e]
    BY <1>1, <2>6, <2>7, <2>9 DEF Clear
  <2> QED BY <1>1, <2>1, <2>10, <2>11 DEF Clear
<1>14. ASSUME NEW c \in CPUs, RunCallback(c) PROVE Clear(d)' /\ \A k \in seen'[d] : st'[k] # "done"
  <2>1. UNCHANGED <<buf, cb, generation, g, seen, reading, requested>>
    BY <1>14 DEF RunCallback, buffers, readers
  <2>2. run[c] \in Seq(Callbacks) /\ run[c] # <<>> BY <1>0, <1>14 DEF BufType, CtlInv, Ctl, RunCallback, At
  <2>3. Head(run[c]) \in ToSet(run[c]) /\ ToSet(Tail(run[c])) \subseteq ToSet(run[c])
    BY <2>2, HeadTailIn
  <2>4. /\ run' = [run EXCEPT ![c] = Tail(run[c])] /\ st' = [st EXCEPT ![Head(run[c])] = "done"]
        /\ pc' = [pc EXCEPT ![c] = pc'[c]] /\ pc'[c] \in {"top", "run"}
    BY <1>0, <1>14 DEF RunCallback, Move, Goto, ThreadType
  <2>5. \A e \in CPUs : Bound(e)' => Bound(e) BY <1>0, <2>1, <2>4 DEF Bound, Collecting, ThreadType
  <2>6. \A e \in CPUs : ToSet(run'[e]) \subseteq ToSet(run[e]) BY <1>0, <2>3, <2>4 DEF BufType
  <2>7. \A k \in seen[d] : k # Head(run[c]) BY <1>1, <2>3 DEF Clear
  <2>8. \A k \in seen[d] : st'[k] # "done" BY <1>0, <1>1, <1>s, <2>4, <2>7 DEF CallerType
  <2> QED BY <1>1, <2>1, <2>5, <2>6, <2>8 DEF Clear, Old
<1>15. ASSUME NEW c \in CPUs, Sleep(c) PROVE Clear(d)' /\ \A k \in seen'[d] : st'[k] # "done"
  BY <1>2, <1>15 DEF Sleep, buffers, cqst, readers
<1>16. CASE UNCHANGED vars
  BY <1>2, <1>16 DEF vars, buffers, cqst, readers
<1> QED BY <1>3, <1>4, <1>5, <1>6, <1>7, <1>8, <1>10, <1>12, <1>13, <1>14, <1>15, <1>16 DEF Next, Work
-----------------------------------------------------------------------------
(* The rcu threads start with nothing to do.                                  *)
LEMMA EmptyAtInit == ASSUME Init PROVE Pend = [c \in CPUs |-> <<>>]
<1>1. ASSUME NEW c \in CPUs PROVE Pending(c) = <<>>
  <2>1. run[c] = <<>> /\ cb[c][0] = <<>> /\ cb[c][1 - 0] = <<>> /\ buf[c] = 0 BY <1>1 DEF Init
  <2>2. Pending(c) = (<<>> \o <<>>) \o <<>> BY <2>1 DEF Pending
  <2>3. <<>> \o <<>> = <<>> BY ConcatEmptySeq, EmptySeq
  <2> QED BY <2>2, <2>3
<1> QED BY <1>1 DEF Pend

(* It holds at the start.                                                     *)
LEMMA InitInv == ASSUME Init PROVE IInv
<1>1. TypeOK
  <2>1. BufType
    <3>1. <<>> \in Seq(Callbacks) /\ Len(<<>>) = 0 /\ 0 <= Room BY RcuAssumption
    <3> QED BY <3>1 DEF Init, BufType
  <2>2. ThreadType BY DEF Init, ThreadType, Labels
  <2>3. CallerType BY RcuAssumption DEF Init, CallerType
  <2> QED BY <2>1, <2>2, <2>3, TypeParts
<1>2. CtlInv
  <2>1. ASSUME NEW c \in CPUs PROVE Ctl(c)
    <3>1. cb[c][1 - buf[c]] = <<>> BY DEF Init
    <3> QED BY <3>1 DEF Init, Ctl, Old, Collecting
  <2> QED BY <2>1 DEF CtlInv
<1>3. GenInv /\ WaitInv /\ GracePeriod /\ InOrder BY DEF Init, GenInv, WaitInv, GracePeriod, InOrder
<1>4. SeenInv BY DEF Init, SeenInv, Clear
<1>5. \A c \in CPUs : Pend[c] = <<>> BY EmptyAtInit
<1>6. NoneLost
  <2>1. IsInjective(<<>>) /\ ToSet(<<>>) = {} BY DEF IsInjective, ToSet
  <2>2. \A c \in CPUs : InQueue(c) = {} BY DEF Init, InQueue, Inside
  <2> QED BY <1>5, <2>1, <2>2, NoneLostPend
<1>7. OrderInv
  <2>1. \A c \in CPUs : Pending(c) = <<>> BY <1>5 DEF Pend
  <2> QED BY <2>1 DEF OrderInv
<1> QED BY <1>1, <1>2, <1>3, <1>4, <1>6, <1>7 DEF IInv

(* The invariant is inductive.                                                *)
LEMMA StepInv == ASSUME IInv, [Next]_vars PROVE IInv'
<1>1. BufType /\ ThreadType /\ CallerType BY TypeParts DEF IInv
<1>2. BufType' /\ ThreadType' /\ CallerType'
  BY <1>1, StepBufType, StepThreadType, StepCallerType DEF IInv
<1>3. TypeOK' BY <1>2 DEF TypeOK, BufType, ThreadType, CallerType
<1>4. CtlInv' BY <1>1, StepControl DEF IInv
<1>5. GenInv' BY <1>1, StepGen DEF IInv
<1>6. WaitInv' BY <1>1, StepWait DEF IInv
<1>7. SeenInv' /\ GracePeriod' BY StepSeen DEF IInv
<1>8. NoneLost' BY StepNoneLost DEF IInv
<1>9. OrderInv' /\ InOrder' BY StepOrder DEF IInv
<1> QED BY <1>3, <1>4, <1>5, <1>6, <1>7, <1>8, <1>9 DEF IInv

(* And so it holds always.                                                    *)
LEMMA Invariance == Spec => []IInv
<1>1. IInv /\ [Next]_vars => IInv' BY StepInv
<1> QED BY InitInv, <1>1, PTL DEF Spec

(* The fields and locals keep their types; no buffer holds more callbacks     *)
(* than it has room for.                                                      *)
THEOREM TypeCorrect == Spec => []TypeOK
<1>1. IInv => TypeOK BY DEF IInv
<1> QED BY Invariance, <1>1, PTL

(* rcu.cc's promise: an object is not disposed of while a section is open     *)
(* that began before its rcu_defer, for any number of CPUs, callbacks,        *)
(* sections and any size of the buffers.                                      *)
THEOREM GracePeriodHolds == Spec => []GracePeriod
<1>1. IInv => GracePeriod BY DEF IInv
<1> QED BY Invariance, <1>1, PTL

(* No callback is lost and none is called twice, whatever defers, switches    *)
(* and grace periods interleave.                                              *)
THEOREM NoneIsLost == Spec => []NoneLost
<1>1. IInv => NoneLost BY DEF IInv
<1> QED BY Invariance, <1>1, PTL

(* rcu_flush may wait for its own callback alone: those deferred before it on *)
(* the same CPU have been called.                                             *)
THEOREM FlushIsBarrier == Spec => []InOrder
<1>1. IInv => InOrder BY DEF IInv
<1> QED BY Invariance, <1>1, PTL
=============================================================================
