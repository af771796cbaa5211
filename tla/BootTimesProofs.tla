--------------------------- MODULE BootTimesProofs --------------------------
(***************************************************************************)
(* Proofs about module BootTimes, for any number of iterations and of      *)
(* invocations, and for every set of faults.                               *)
(*                                                                         *)
(* The reports are made from temporary.txt, so the invariant follows its   *)
(* lines: PairInv and LineInv say what the two scripts and the guests put  *)
(* there, PyInv where clean-boot-time.py is in it and what it remembers,   *)
(* RowInv what it has written.                                             *)
(***************************************************************************)
EXTENDS BootTimes, SequenceTheorems, TLAPS

(* What a line of temporary.txt and a row of a report can be, and the runs in *)
(* which no invocation is interrupted.                                        *)
Lines    == [kind : {"start", "booted"}, of : Boots]
RowsSet  == [itr : Nat, end : Boots, start : Boots]
Unkilled == "kill" \notin faults

(* The cases in which each row is of the boot with its number, and in which   *)
(* rows are in boot order.                                                    *)
Numbers == Unkilled /\ (timer = "sqlite" \/ faults = {})
Orders  == Unkilled /\ timer = "builtin"

(* The boot of the line before line n.                                        *)
Prev(n) == IF n = 1 THEN 0 ELSE tmp[n - 1].of.boot

(* With the clocks of the host, a boot's line follows the one that its start  *)
(* wrote, even when invocations were stopped.                                 *)
PairInv == timer = "sqlite" =>
  /\ \A n \in 1..Len(tmp) :
       tmp[n].kind = "booted" => n > 1 /\ tmp[n - 1].kind = "start" /\ tmp[n - 1].of = tmp[n].of
  /\ pc = "running" => tmp # <<>> /\ tmp[Len(tmp)] = Line("start", boot)

(* What line n is in a file that only this invocation wrote.                  *)
Hosted(n)  == /\ tmp[n].of.run = run
              /\ tmp[n].of.boot = Prev(n) + (IF tmp[n].kind = "start" THEN 1 ELSE 0)
Counted(n) == /\ tmp[n].kind = "booted" /\ tmp[n].of.run = run
              /\ tmp[n].of.boot > Prev(n) /\ tmp[n].of.boot >= n
              /\ faults = {} => tmp[n].of.boot = n
LineInv == Unkilled =>
  /\ pc \in {"idle", "cp"} => tmp = <<>>
  /\ pc \in {"boot", "running", "clean"} =>
       \A n \in 1..Len(tmp) : IF timer = "sqlite" THEN Hosted(n) ELSE Counted(n)
  /\ timer = "sqlite" /\ pc \in {"boot", "running"} => Prev(Len(tmp) + 1) = boot
  /\ timer = "builtin" /\ pc = "boot" =>
       Len(tmp) <= boot /\ Prev(Len(tmp) + 1) <= boot /\ (faults = {} => Len(tmp) = boot)
  /\ timer = "builtin" /\ pc = "running" =>
       Len(tmp) < boot /\ Prev(Len(tmp) + 1) < boot /\ (faults = {} => Len(tmp) + 1 = boot)

(* Where clean-boot-time.py is.                                               *)
PyInv == pc = "clean" =>
  /\ pos <= Len(tmp)
  /\ timer = "sqlite" /\ pos > 0 /\ tmp[pos].kind = "start" =>
       current # <<>> /\ current[Len(current)] = tmp[pos].of
  /\ timer = "builtin" => iteration = pos
  /\ Unkilled /\ timer = "sqlite" => iteration = Prev(pos + 1)
  /\ Orders => /\ Len(bootcsv) = (IF pos > WarmUps THEN pos - WarmUps ELSE 0)
               /\ \A n \in 1..Len(bootcsv) : bootcsv[n].end = tmp[n + WarmUps].of

(* What a report says of its boots.                                           *)
Same(c)     == \A n \in 1..Len(c) : c[n].start = c[n].end
Numbered(c, r) == \A n \in 1..Len(c) : c[n].end = Boot(r, c[n].itr + WarmUps)
Ordered(c)  == \A n \in 1..Len(c) :
  /\ c[n].itr = n /\ c[n].end.boot > WarmUps
  /\ n > 1 => c[n - 1].end.boot < c[n].end.boot
RowInv ==
  /\ Same(bootcsv) /\ Same(result)
  /\ pc \in {"clean", "rm", "cp"} => (Numbers => Numbered(bootcsv, run)) /\ (Orders => Ordered(bootcsv))
  /\ Numbers => \E r \in 0..run : Numbered(result, r)
  /\ Orders => Ordered(result)

IInv == TypeOK /\ PairInv /\ LineInv /\ PyInv /\ RowInv
-----------------------------------------------------------------------------
(* TypeOK in parts.                                                           *)
CtlType ==
  /\ timer \in {"builtin", "sqlite"} /\ faults \in SUBSET FaultNames
  /\ pc \in {"idle", "boot", "running", "clean", "rm", "cp"} /\ run \in Nat /\ boot \in Nat
  /\ pos \in Nat /\ iteration \in Nat
SeqType == tmp \in Seq(Lines) /\ current \in Seq(Boots) /\ bootcsv \in Seq(RowsSet) /\ result \in Seq(RowsSet)

(* TypeOK is its two parts, so a step proves them one at a time.              *)
LEMMA TypeParts == TypeOK <=> CtlType /\ SeqType
BY DEF TypeOK, CtlType, SeqType, Lines, RowsSet

(* The same in the next state.                                                *)
LEMMA TypeNext == CtlType' /\ SeqType' => TypeOK'
BY DEF TypeOK, CtlType, SeqType, Lines, RowsSet

(* What every proof below takes from IInv.                                    *)
LEMMA Before ==
  ASSUME IInv
  PROVE  CtlType /\ SeqType /\ PairInv /\ LineInv /\ PyInv /\ RowInv /\ Len(tmp) \in Nat /\ Len(bootcsv) \in Nat
BY TypeParts, LenProperties DEF IInv, SeqType

(* What a script or a guest that appends a line to temporary.txt changes, and *)
(* that it leaves the lines before it and their predecessors alone.           *)
LEMMA AppendLine ==
  ASSUME SeqType, NEW k \in {"start", "booted"}, NEW b \in Boots, tmp' = Append(tmp, [kind |-> k, of |-> b])
  PROVE  /\ tmp' \in Seq(Lines) /\ Len(tmp') = Len(tmp) + 1 /\ Len(tmp) \in Nat
         /\ tmp'[Len(tmp) + 1].kind = k /\ tmp'[Len(tmp) + 1].of = b
         /\ tmp'[Len(tmp) + 1] = [kind |-> k, of |-> b]
         /\ \A n \in 1..Len(tmp) : tmp'[n] = tmp[n]
         /\ \A n \in 1..(Len(tmp) + 1) : Prev(n)' = Prev(n)
         /\ (Prev(Len(tmp) + 1))' = b.boot
<1> DEFINE l == [kind |-> k, of |-> b]
<1>1. l \in Lines /\ l.kind = k /\ l.of = b /\ tmp \in Seq(Lines) BY DEF Lines, SeqType
<1> HIDE DEF l
<1>2. tmp' = Append(tmp, l) BY DEF l
<1>3. /\ tmp' \in Seq(Lines) /\ Len(tmp') = Len(tmp) + 1 /\ Len(tmp) \in Nat
      /\ tmp'[Len(tmp) + 1] = l
      /\ \A n \in 1..Len(tmp) : tmp'[n] = tmp[n]
  BY <1>1, <1>2, AppendProperties, LenProperties
<1>4. ASSUME NEW n \in 1..(Len(tmp) + 1) PROVE Prev(n)' = Prev(n)
  <2>1. CASE n = 1 BY <2>1 DEF Prev
  <2>2. CASE n # 1
    <3>1. n - 1 \in 1..Len(tmp) BY <1>3, <2>2
    <3> QED BY <1>3, <2>2, <3>1 DEF Prev
  <2> QED BY <2>1, <2>2
<1>5. (Prev(Len(tmp) + 1))' = b.boot
  <2>1. Len(tmp') + 1 # 1 /\ Len(tmp') + 1 - 1 = Len(tmp) + 1 BY <1>3
  <2> QED BY <1>1, <1>3, <2>1 DEF Prev
<1> QED BY <1>1, <1>3, <1>4, <1>5 DEF l

(* The boot of the line before one, or before the end of the file, is a       *)
(* number.                                                                    *)
LEMMA PrevType ==
  ASSUME SeqType, NEW n \in 1..(Len(tmp) + 1)
  PROVE  Prev(n) \in Nat
<1>1. tmp \in Seq(Lines) /\ Len(tmp) \in Nat BY LenProperties DEF SeqType
<1>2. CASE n = 1 BY <1>2 DEF Prev
<1>3. CASE n # 1
  <2>1. n - 1 \in 1..Len(tmp) BY <1>1, <1>3
  <2>2. tmp[n - 1] \in Lines BY <1>1, <2>1, ElementOfSeq
  <2> QED BY <1>3, <2>2 DEF Prev, Lines, Boots
<1> QED BY <1>2, <1>3

(* A row appended to a report keeps what the report says, when the row says   *)
(* the same.                                                                  *)
LEMMA AppendRow ==
  ASSUME NEW c \in Seq(RowsSet), NEW e \in RowsSet, NEW d, d = Append(c, e)
  PROVE  /\ d \in Seq(RowsSet) /\ Len(d) = Len(c) + 1 /\ d[Len(c) + 1] = e /\ Len(c) \in Nat
         /\ \A n \in 1..Len(c) : d[n] = c[n]
         /\ Same(c) /\ e.start = e.end => Same(d)
         /\ \A r : Numbered(c, r) /\ e.end = Boot(r, e.itr + WarmUps) => Numbered(d, r)
         /\ /\ Ordered(c) /\ e.itr = Len(c) + 1 /\ e.end.boot > WarmUps
            /\ Len(c) > 0 => c[Len(c)].end.boot < e.end.boot
            => Ordered(d)
<1>1. /\ d \in Seq(RowsSet) /\ Len(d) = Len(c) + 1 /\ d[Len(c) + 1] = e /\ Len(c) \in Nat
      /\ \A n \in 1..Len(c) : d[n] = c[n]
  BY AppendProperties, LenProperties
<1>2. \A n \in 1..Len(d) : n \in 1..Len(c) \/ n = Len(c) + 1 BY <1>1
<1>3. ASSUME Same(c), e.start = e.end PROVE Same(d) BY <1>1, <1>2, <1>3 DEF Same
<1>4. ASSUME NEW r, Numbered(c, r), e.end = Boot(r, e.itr + WarmUps) PROVE Numbered(d, r)
  BY <1>1, <1>2, <1>4 DEF Numbered
<1>5. ASSUME Ordered(c), e.itr = Len(c) + 1, e.end.boot > WarmUps, Len(c) > 0 => c[Len(c)].end.boot < e.end.boot
      PROVE  Ordered(d)
  <2> SUFFICES ASSUME NEW n \in 1..Len(d)
               PROVE  d[n].itr = n /\ d[n].end.boot > WarmUps /\ (n > 1 => d[n - 1].end.boot < d[n].end.boot)
    BY DEF Ordered
  <2>1. CASE n \in 1..Len(c)
    <3>1. n > 1 => n - 1 \in 1..Len(c) BY <1>1, <2>1
    <3> QED BY <1>1, <1>5, <2>1, <3>1 DEF Ordered
  <2>2. CASE n = Len(c) + 1
    <3>1. n > 1 => Len(c) > 0 /\ n - 1 = Len(c) /\ Len(c) \in 1..Len(c) BY <1>1, <2>2
    <3> QED BY <1>1, <1>5, <2>2, <3>1
  <2> QED BY <1>2, <2>1, <2>2
<1> QED BY <1>1, <1>3, <1>4, <1>5

(* The empty report and the empty file.                                       *)
LEMMA EmptyReport ==
  /\ <<>> \in Seq(RowsSet) /\ Len(<<>>) = 0 /\ Same(<<>>) /\ Ordered(<<>>) /\ \A r : Numbered(<<>>, r)
  /\ <<>> \in Seq(Lines) /\ <<>> \in Seq(Boots)
<1>1. <<>> \in Seq(RowsSet) /\ Len(<<>>) = 0 /\ <<>> \in Seq(Lines) /\ <<>> \in Seq(Boots) BY EmptySeq
<1> QED BY <1>1 DEF Same, Ordered, Numbered

(* Nothing was booted: all files are empty.                                   *)
LEMMA Starts == Init => IInv
<1> SUFFICES ASSUME Init PROVE IInv OBVIOUS
<1>0. /\ timer \in {"builtin", "sqlite"} /\ faults \in SUBSET FaultNames
      /\ pc = "idle" /\ run = 0 /\ boot = 0 /\ tmp = <<>> /\ pos = 0 /\ iteration = 0 /\ current = <<>>
      /\ bootcsv = <<>> /\ result = <<>>
  BY BootTimesAssumption DEF Init
<1>1. SeqType BY <1>0, EmptyReport DEF SeqType
<1>2. CtlType BY <1>0 DEF CtlType
<1>3. PairInv BY <1>0, EmptyReport DEF PairInv
<1>4. LineInv BY <1>0 DEF LineInv
<1>5. PyInv BY <1>0 DEF PyInv
<1>6. RowInv BY <1>0, EmptyReport DEF RowInv
<1> QED BY <1>1, <1>2, <1>3, <1>4, <1>5, <1>6, TypeParts DEF IInv

(* A step that writes to no report keeps what they say, unless it makes an    *)
(* old one that of this invocation.                                           *)
LEMMA SameRows ==
  ASSUME IInv, bootcsv' = bootcsv, result' = result, timer' = timer, faults' = faults,
         run' \in {run, run + 1},
         Unkilled /\ pc' \in {"clean", "rm", "cp"} => run' = run /\ pc \in {"clean", "rm", "cp"}
  PROVE  RowInv'
<1>0. RowInv /\ run \in Nat BY Before DEF CtlType
<1>1. (Numbers' <=> Numbers) /\ (Orders' <=> Orders) /\ (Numbers => Unkilled) /\ (Orders => Unkilled)
  BY DEF Numbers, Orders, Unkilled
<1>2. Same(bootcsv') /\ Same(result') BY <1>0 DEF RowInv
<1>3. pc' \in {"clean", "rm", "cp"} =>
        (Numbers => Numbered(bootcsv', run')) /\ (Orders => Ordered(bootcsv'))
  BY <1>0, <1>1 DEF RowInv
<1>4. Numbers => \E r \in 0..run' : Numbered(result', r)
  <2>1. ASSUME NEW r \in 0..run PROVE r \in 0..run' BY <1>0
  <2> QED BY <1>0, <2>1 DEF RowInv
<1>5. Orders => Ordered(result') BY <1>0 DEF RowInv
<1> QED BY <1>1, <1>2, <1>3, <1>4, <1>5 DEF RowInv, Same, Numbered, Ordered, Boot, WarmUps

(* The scripts do not remove temporary.txt when they start: it is empty       *)
(* because the last invocation got past its rm.                               *)
LEMMA StartKeeps ==
  ASSUME IInv, Start
  PROVE  IInv'
<1>0. CtlType /\ SeqType /\ PairInv /\ LineInv BY Before
<1>1. /\ pc = "idle" /\ run' = run + 1 /\ boot' = 0 /\ pc' = "boot" /\ timer' = timer /\ faults' = faults /\ tmp' = tmp
      /\ pos' = pos /\ iteration' = iteration /\ current' = current /\ bootcsv' = bootcsv /\ result' = result
  BY DEF Start, python
<1>2. CtlType' /\ SeqType' BY <1>0, <1>1 DEF CtlType, SeqType
<1>3. PairInv' BY <1>0, <1>1 DEF PairInv
<1>4. LineInv'
  <2>1. Unkilled' => tmp' = <<>> BY <1>0, <1>1 DEF LineInv, Unkilled
  <2>2. Len(<<>>) = 0 BY EmptyReport
  <2>3. Unkilled' => Len(tmp') = 0 /\ (Prev(Len(tmp) + 1))' = 0 BY <2>1, <2>2 DEF Prev
  <2> QED BY <1>1, <2>1, <2>3 DEF LineInv
<1>5. PyInv' BY <1>1 DEF PyInv
<1>6. RowInv' BY <1>1, SameRows
<1> QED BY <1>2, <1>3, <1>4, <1>5, <1>6, TypeNext DEF IInv

(* With the clocks of the host a line is written, with the built-in timer     *)
(* none.                                                                      *)
LEMMA StartBootKeeps ==
  ASSUME IInv, StartBoot
  PROVE  IInv'
<1>0. CtlType /\ SeqType /\ PairInv /\ LineInv BY Before
<1>1. /\ pc = "boot" /\ run' = run /\ boot' = boot + 1 /\ pc' = "running" /\ timer' = timer /\ faults' = faults
      /\ pos' = pos /\ iteration' = iteration /\ current' = current /\ bootcsv' = bootcsv /\ result' = result
  BY DEF StartBoot, python
<1>a. boot \in Nat /\ run \in Nat /\ boot' \in Nat BY <1>0, <1>1 DEF CtlType
<1>5. PyInv' BY <1>1 DEF PyInv
<1>6. RowInv' BY <1>1, SameRows
<1>7. CASE timer = "sqlite"
  <2> DEFINE b == Boot(run, boot + 1)
  <2>0. b \in Boots /\ b.run = run /\ b.boot = boot + 1 BY <1>a DEF Boot, Boots
  <2>1. tmp' = Append(tmp, [kind |-> "start", of |-> b]) BY <1>7 DEF StartBoot, Line
  <2> HIDE DEF b
  <2>2. /\ tmp' \in Seq(Lines) /\ Len(tmp') = Len(tmp) + 1 /\ Len(tmp) \in Nat
        /\ tmp'[Len(tmp) + 1].kind = "start" /\ tmp'[Len(tmp) + 1].of = b
        /\ tmp'[Len(tmp) + 1] = [kind |-> "start", of |-> b]
        /\ \A n \in 1..Len(tmp) : tmp'[n] = tmp[n]
        /\ \A n \in 1..(Len(tmp) + 1) : Prev(n)' = Prev(n)
        /\ (Prev(Len(tmp) + 1))' = b.boot
    BY <1>0, <2>0, <2>1, AppendLine
  <2>3. \A n \in 1..Len(tmp') : n \in 1..Len(tmp) \/ n = Len(tmp) + 1 BY <2>2
  <2>4. CtlType' /\ SeqType' BY <1>0, <1>1, <1>a, <2>2 DEF CtlType, SeqType
  <2>5. PairInv'
    <3>1. ASSUME NEW n \in 1..Len(tmp'), tmp'[n].kind = "booted"
          PROVE  n > 1 /\ tmp'[n - 1].kind = "start" /\ tmp'[n - 1].of = tmp'[n].of
      <4>1. n \in 1..Len(tmp) /\ tmp'[n] = tmp[n] BY <2>2, <2>3, <3>1
      <4>2. n > 1 => n - 1 \in 1..Len(tmp) BY <2>2, <4>1
      <4> QED BY <1>0, <1>7, <2>2, <3>1, <4>1, <4>2 DEF PairInv
    <3>2. tmp' # <<>> /\ tmp'[Len(tmp')] = [kind |-> "start", of |-> b] BY <2>2, EmptyReport
    <3>3. Line("start", boot)' = [kind |-> "start", of |-> b] BY <1>1 DEF Line, Boot, b
    <3> QED BY <3>1, <3>2, <3>3 DEF PairInv
  <2>6. LineInv'
    <3>1. ASSUME Unkilled, NEW n \in 1..Len(tmp') PROVE Hosted(n)'
      <4>0. \A m \in 1..Len(tmp) : Hosted(m) BY <1>0, <1>1, <1>7, <3>1 DEF LineInv
      <4>1. CASE n \in 1..Len(tmp) BY <1>1, <2>2, <4>0, <4>1 DEF Hosted
      <4>2. CASE n = Len(tmp) + 1
        <5>1. Prev(Len(tmp) + 1) = boot BY <1>0, <1>1, <1>7, <3>1 DEF LineInv
        <5>2. Prev(n)' = boot /\ tmp'[n].of = b /\ tmp'[n].kind = "start" BY <2>2, <4>2, <5>1
        <5> QED BY <1>1, <2>0, <5>2 DEF Hosted
      <4> QED BY <2>3, <4>1, <4>2
    <3>2. (Prev(Len(tmp) + 1))' = boot' BY <1>1, <2>0, <2>2
    <3>3. Unkilled' = Unkilled BY <1>1 DEF Unkilled
    <3> QED BY <1>1, <1>7, <3>1, <3>2, <3>3 DEF LineInv
  <2> QED BY <1>5, <1>6, <2>4, <2>5, <2>6, TypeNext DEF IInv
<1>8. CASE timer # "sqlite"
  <2>1. tmp' = tmp BY <1>8 DEF StartBoot
  <2>2. CtlType' /\ SeqType' BY <1>0, <1>1, <1>a, <2>1 DEF CtlType, SeqType
  <2>3. PairInv' BY <1>1, <1>8 DEF PairInv
  <2>4. LineInv'
    <3>1. (Unkilled' <=> Unkilled) /\ (Prev(Len(tmp) + 1))' = Prev(Len(tmp) + 1) BY <1>1, <2>1 DEF Unkilled, Prev
    <3>2. ASSUME Unkilled, NEW n \in 1..Len(tmp') PROVE Counted(n)'
      <4>1. Counted(n) BY <1>0, <1>1, <1>8, <2>1, <3>2 DEF LineInv
      <4> QED BY <1>1, <2>1, <4>1 DEF Counted, Prev
    <3>3. timer = "builtin" BY <1>0, <1>8 DEF CtlType
    <3>4. Unkilled => Len(tmp) <= boot /\ Prev(Len(tmp) + 1) <= boot /\ (faults = {} => Len(tmp) = boot)
      BY <1>0, <1>1, <3>3 DEF LineInv
    <3>5. Len(tmp) \in Nat /\ Prev(Len(tmp) + 1) \in Nat
      <4>1. Len(tmp) \in Nat BY Before
      <4>2. Len(tmp) + 1 \in 1..(Len(tmp) + 1) BY <4>1
      <4> QED BY <1>0, <4>1, <4>2, PrevType
    <3>6. Unkilled => /\ Len(tmp) < boot' /\ Prev(Len(tmp) + 1) < boot'
                      /\ faults = {} => Len(tmp) + 1 = boot'
      BY <1>1, <1>a, <3>4, <3>5
    <3> QED BY <1>1, <2>1, <3>1, <3>2, <3>3, <3>6 DEF LineInv
  <2> QED BY <1>5, <1>6, <2>2, <2>3, <2>4, TypeNext DEF IInv
<1> QED BY <1>7, <1>8

(* The line of the guest comes after that of its own start, and one boot      *)
(* prints one line.                                                           *)
LEMMA GuestPrintsKeeps ==
  ASSUME IInv, GuestPrints
  PROVE  IInv'
<1>0. CtlType /\ SeqType /\ PairInv /\ LineInv /\ Len(tmp) \in Nat BY Before
<1>1. /\ pc = "running" /\ run' = run /\ boot' = boot /\ pc' = "boot" /\ timer' = timer /\ faults' = faults
      /\ pos' = pos /\ iteration' = iteration /\ current' = current /\ bootcsv' = bootcsv /\ result' = result
  BY DEF GuestPrints, python
<1>a. boot \in Nat /\ run \in Nat /\ timer \in {"builtin", "sqlite"} BY <1>0 DEF CtlType
<1> DEFINE b == Boot(run, boot)
<1>2. b \in Boots /\ b.run = run /\ b.boot = boot BY <1>a DEF Boot, Boots
<1>3. tmp' = Append(tmp, [kind |-> "booted", of |-> b]) BY DEF GuestPrints, Line
<1>b. Line("start", boot).kind = "start" /\ Line("start", boot).of = b BY DEF Line
<1> HIDE DEF b
<1>4. /\ tmp' \in Seq(Lines) /\ Len(tmp') = Len(tmp) + 1
      /\ tmp'[Len(tmp) + 1].kind = "booted" /\ tmp'[Len(tmp) + 1].of = b
      /\ \A n \in 1..Len(tmp) : tmp'[n] = tmp[n]
      /\ \A n \in 1..(Len(tmp) + 1) : Prev(n)' = Prev(n)
      /\ (Prev(Len(tmp) + 1))' = b.boot
  BY <1>0, <1>2, <1>3, AppendLine
<1>5. \A n \in 1..Len(tmp') : n \in 1..Len(tmp) \/ n = Len(tmp) + 1 BY <1>0, <1>4
<1>6. CtlType' /\ SeqType' BY <1>0, <1>1, <1>4 DEF CtlType, SeqType
<1>7. PairInv'
  <2>1. ASSUME timer = "sqlite", NEW n \in 1..Len(tmp'), tmp'[n].kind = "booted"
        PROVE  n > 1 /\ tmp'[n - 1].kind = "start" /\ tmp'[n - 1].of = tmp'[n].of
    <3>1. CASE n \in 1..Len(tmp)
      <4>1. n > 1 => n - 1 \in 1..Len(tmp) BY <1>0, <3>1
      <4> QED BY <1>0, <1>4, <2>1, <3>1, <4>1 DEF PairInv
    <3>2. CASE n = Len(tmp) + 1
      <4>1. tmp # <<>> /\ tmp[Len(tmp)] = Line("start", boot) BY <1>0, <1>1, <2>1 DEF PairInv
      <4>2. Len(tmp) # 0
        <5>1. tmp \in Seq(Lines) BY <1>0 DEF SeqType
        <5> QED BY <4>1, <5>1, EmptySeq
      <4>3. Len(tmp) \in 1..Len(tmp) /\ n > 1 /\ n - 1 = Len(tmp) BY <1>0, <3>2, <4>2
      <4> QED BY <1>4, <1>b, <3>2, <4>1, <4>3
    <3> QED BY <1>5, <3>1, <3>2
  <2> QED BY <1>1, <2>1 DEF PairInv
<1>8. LineInv'
  <2>1. Unkilled' <=> Unkilled BY <1>1 DEF Unkilled
  <2>2. Len(tmp) + 1 \in 1..(Len(tmp) + 1) BY <1>0
  <2>3. Prev(Len(tmp) + 1) \in Nat BY <1>0, <2>2, PrevType
  <2>4. CASE timer = "sqlite"
    <3>1. ASSUME Unkilled, NEW n \in 1..Len(tmp') PROVE Hosted(n)'
      <4>0. (\A m \in 1..Len(tmp) : Hosted(m)) /\ Prev(Len(tmp) + 1) = boot BY <1>0, <1>1, <2>4, <3>1 DEF LineInv
      <4>1. CASE n \in 1..Len(tmp) BY <1>1, <1>4, <4>0, <4>1 DEF Hosted
      <4>2. CASE n = Len(tmp) + 1
        <5>1. Prev(n)' = boot /\ tmp'[n].of = b /\ tmp'[n].kind = "booted" BY <1>4, <2>2, <4>0, <4>2
        <5> QED BY <1>1, <1>2, <1>a, <5>1 DEF Hosted
      <4> QED BY <1>5, <4>1, <4>2
    <3> QED BY <1>1, <1>2, <1>4, <2>1, <2>4, <3>1 DEF LineInv
  <2>5. CASE timer = "builtin"
    <3>0. Unkilled => /\ Len(tmp) < boot /\ Prev(Len(tmp) + 1) < boot /\ (faults = {} => Len(tmp) + 1 = boot)
                      /\ \A m \in 1..Len(tmp) : Counted(m)
      BY <1>0, <1>1, <2>5 DEF LineInv
    <3>1. ASSUME Unkilled, NEW n \in 1..Len(tmp') PROVE Counted(n)'
      <4>1. CASE n \in 1..Len(tmp) BY <1>1, <1>4, <3>0, <3>1, <4>1 DEF Counted
      <4>2. CASE n = Len(tmp) + 1
        <5>1. Prev(n)' = Prev(Len(tmp) + 1) /\ tmp'[n].of = b /\ tmp'[n].kind = "booted" BY <1>4, <2>2, <4>2
        <5>2. boot >= n /\ (faults = {} => boot = n) /\ boot > Prev(Len(tmp) + 1) BY <1>0, <1>a, <2>3, <3>0, <3>1, <4>2
        <5> QED BY <1>1, <1>2, <5>1, <5>2 DEF Counted
      <4> QED BY <1>5, <4>1, <4>2
    <3>2. Unkilled => Len(tmp') <= boot /\ b.boot <= boot /\ (faults = {} => Len(tmp') = boot)
      BY <1>0, <1>2, <1>4, <1>a, <3>0
    <3> QED BY <1>1, <1>4, <2>1, <2>5, <3>1, <3>2 DEF LineInv
  <2> QED BY <1>a, <2>4, <2>5
<1>9. PyInv' BY <1>1 DEF PyInv
<1>10. RowInv' BY <1>1, SameRows
<1> QED BY <1>6, <1>7, <1>8, <1>9, <1>10, TypeNext DEF IInv

(* A boot that dies leaves a gap, which only the boots that are counted show. *)
LEMMA GuestDiesKeeps ==
  ASSUME IInv, GuestDies
  PROVE  IInv'
<1>0. CtlType /\ SeqType /\ PairInv /\ LineInv /\ Len(tmp) \in Nat BY Before
<1>1. /\ pc = "running" /\ run' = run /\ boot' = boot /\ pc' = "boot" /\ timer' = timer /\ faults' = faults /\ tmp' = tmp
      /\ pos' = pos /\ iteration' = iteration /\ current' = current /\ bootcsv' = bootcsv /\ result' = result
      /\ faults # {}
  BY DEF GuestDies, python
<1>2. CtlType' /\ SeqType' BY <1>0, <1>1 DEF CtlType, SeqType
<1>3. PairInv' BY <1>0, <1>1 DEF PairInv
<1>4. LineInv'
  <2>1. (Unkilled' <=> Unkilled) /\ (Prev(Len(tmp) + 1))' = Prev(Len(tmp) + 1) BY <1>1 DEF Unkilled, Prev
  <2>2. ASSUME NEW n \in 1..Len(tmp) PROVE (Counted(n)' <=> Counted(n)) /\ (Hosted(n)' <=> Hosted(n))
    BY <1>1 DEF Counted, Hosted, Prev
  <2>3. Len(tmp) + 1 \in 1..(Len(tmp) + 1) /\ boot \in Nat BY <1>0 DEF CtlType
  <2>4. Prev(Len(tmp) + 1) \in Nat BY <1>0, <2>3, PrevType
  <2>5. Unkilled /\ timer = "builtin" => Len(tmp) <= boot /\ Prev(Len(tmp) + 1) <= boot
    BY <1>0, <1>1, <2>3, <2>4 DEF LineInv
  <2>6. Unkilled => \A n \in 1..Len(tmp) : IF timer = "sqlite" THEN Hosted(n)' ELSE Counted(n)'
    BY <1>0, <1>1, <2>2 DEF LineInv
  <2>7. Unkilled /\ timer = "sqlite" => Prev(Len(tmp) + 1) = boot BY <1>0, <1>1 DEF LineInv
  <2> QED BY <1>1, <2>1, <2>5, <2>6, <2>7 DEF LineInv
<1>5. PyInv' BY <1>1 DEF PyInv
<1>6. RowInv' BY <1>1, SameRows
<1> QED BY <1>2, <1>3, <1>4, <1>5, <1>6, TypeNext DEF IInv

(* clean-boot-time.py starts at the first line, with an empty report.         *)
LEMMA StartCleanKeeps ==
  ASSUME IInv, StartClean
  PROVE  IInv'
<1>0. CtlType /\ SeqType /\ PairInv /\ LineInv /\ RowInv /\ Len(tmp) \in Nat BY Before
<1>1. /\ pc = "boot" /\ run' = run /\ boot' = boot /\ pc' = "clean" /\ timer' = timer /\ faults' = faults /\ tmp' = tmp
      /\ pos' = 0 /\ iteration' = 0 /\ current' = <<>> /\ bootcsv' = <<>> /\ result' = result
  BY DEF StartClean
<1>2. CtlType' /\ SeqType' BY <1>0, <1>1, EmptyReport DEF CtlType, SeqType
<1>3. PairInv' BY <1>0, <1>1 DEF PairInv
<1>4. LineInv'
  <2>1. Unkilled' <=> Unkilled BY <1>1 DEF Unkilled
  <2>2. ASSUME NEW n \in 1..Len(tmp) PROVE (Counted(n)' <=> Counted(n)) /\ (Hosted(n)' <=> Hosted(n))
    BY <1>1 DEF Counted, Hosted, Prev
  <2>3. Unkilled => \A n \in 1..Len(tmp) : IF timer = "sqlite" THEN Hosted(n)' ELSE Counted(n)'
    BY <1>0, <1>1, <2>2 DEF LineInv
  <2> QED BY <1>1, <2>1, <2>3 DEF LineInv
<1>5. PyInv'
  <2>1. (Prev(pos + 1))' = 0 BY <1>1 DEF Prev
  <2>2. Len(bootcsv') = 0 BY <1>1, EmptyReport
  <2> QED BY <1>0, <1>1, <2>1, <2>2 DEF PyInv, WarmUps
<1>6. RowInv'
  <2>1. (Numbers' <=> Numbers) /\ (Orders' <=> Orders) BY <1>1 DEF Numbers, Orders, Unkilled
  <2>2. Same(bootcsv') /\ Numbered(bootcsv', run') /\ Ordered(bootcsv') BY <1>1, EmptyReport
  <2>3. Same(result') BY <1>0, <1>1 DEF RowInv
  <2>4. Numbers => \E r \in 0..run' : Numbered(result', r) BY <1>0, <1>1 DEF RowInv
  <2>5. Orders => Ordered(result') BY <1>0, <1>1 DEF RowInv
  <2> QED BY <2>1, <2>2, <2>3, <2>4, <2>5 DEF RowInv, Same, Numbered, Ordered, Boot, WarmUps
<1> QED BY <1>2, <1>3, <1>4, <1>5, <1>6, TypeNext DEF IInv

(* A step of clean-boot-time.py leaves temporary.txt as it is.                *)
LEMMA SameFile ==
  ASSUME IInv, timer' = timer, faults' = faults, run' = run, boot' = boot, tmp' = tmp,
         pc = "clean", pc' \in {"clean", "rm"}
  PROVE  PairInv' /\ LineInv'
<1>0. PairInv /\ LineInv BY Before
<1>1. PairInv' BY <1>0 DEF PairInv
<1>2. Unkilled' <=> Unkilled BY DEF Unkilled
<1>3. ASSUME NEW n \in 1..Len(tmp) PROVE (Counted(n)' <=> Counted(n)) /\ (Hosted(n)' <=> Hosted(n))
  BY DEF Counted, Hosted, Prev
<1>4. Unkilled => \A n \in 1..Len(tmp) : IF timer = "sqlite" THEN Hosted(n)' ELSE Counted(n)'
  BY <1>0, <1>3 DEF LineInv
<1> QED BY <1>1, <1>2, <1>4 DEF LineInv

(* The line of a start gives the iteration its number; there are none with    *)
(* the built-in timer.                                                        *)
LEMMA CleanStartLineKeeps ==
  ASSUME IInv, CleanStartLine
  PROVE  IInv'
<1>0. CtlType /\ SeqType /\ PairInv /\ LineInv /\ PyInv /\ Len(tmp) \in Nat BY Before
<1>1. /\ pc = "clean" /\ run' = run /\ boot' = boot /\ pc' = "clean" /\ timer' = timer /\ faults' = faults /\ tmp' = tmp
      /\ pos < Len(tmp) /\ tmp[pos + 1].kind = "start"
      /\ pos' = pos + 1 /\ iteration' = iteration + 1 /\ current' = Append(current, tmp[pos + 1].of)
      /\ bootcsv' = bootcsv /\ result' = result
  BY DEF CleanStartLine
<1>a. pos \in Nat /\ iteration \in Nat /\ pos + 1 \in 1..Len(tmp) BY <1>0, <1>1 DEF CtlType
<1> DEFINE b == tmp[pos + 1].of
<1>2. b \in Boots
  <2>1. tmp \in Seq(Lines) BY <1>0 DEF SeqType
  <2>2. tmp[pos + 1] \in Lines BY <1>a, <2>1, ElementOfSeq
  <2> QED BY <2>2 DEF Lines
<1>3. current' = Append(current, b) BY <1>1
<1> HIDE DEF b
<1>4. current' \in Seq(Boots) /\ Len(current') = Len(current) + 1 /\ current'[Len(current) + 1] = b /\ Len(current) \in Nat
  <2>1. current \in Seq(Boots) BY <1>0 DEF SeqType
  <2> QED BY <1>2, <1>3, <2>1, AppendProperties, LenProperties
<1>5. current' # <<>> /\ current'[Len(current')] = b BY <1>4, EmptyReport
<1>6. CtlType' /\ SeqType' BY <1>0, <1>1, <1>a, <1>4 DEF CtlType, SeqType
<1>7. PairInv' /\ LineInv' BY <1>1, SameFile
<1>8. CASE timer = "sqlite"
  <2>1. Unkilled => (Prev(pos + 1))' = iteration + 1
    <3>1. ASSUME Unkilled PROVE tmp[pos + 1].of.boot = iteration + 1
      <4>1. Hosted(pos + 1) /\ iteration = Prev(pos + 1) BY <1>0, <1>1, <1>8, <1>a, <3>1 DEF LineInv, PyInv
      <4> QED BY <1>1, <4>1 DEF Hosted
    <3>2. pos' + 1 # 1 /\ pos' + 1 - 1 = pos + 1 BY <1>1, <1>a
    <3> QED BY <1>1, <3>1, <3>2 DEF Prev
  <2>2. Unkilled' <=> Unkilled BY <1>1 DEF Unkilled
  <2>3. pos' <= Len(tmp') BY <1>0, <1>1, <1>a
  <2>4. tmp'[pos'].of = b BY <1>1 DEF b
  <2>5. PyInv' BY <1>1, <1>5, <1>8, <2>1, <2>2, <2>3, <2>4 DEF PyInv, Orders
  <2>6. RowInv' BY <1>1, SameRows
  <2> QED BY <1>6, <1>7, <2>5, <2>6, TypeNext DEF IInv
<1>9. CASE timer = "builtin"
  <2>1. ~Unkilled
    <3>1. Unkilled => Counted(pos + 1) BY <1>0, <1>1, <1>9, <1>a DEF LineInv
    <3> QED BY <1>1, <3>1 DEF Counted
  <2>2. ~Unkilled' /\ ~Orders' BY <1>1, <2>1 DEF Unkilled, Orders
  <2>3. pos' <= Len(tmp') BY <1>0, <1>1, <1>a
  <2>4. iteration' = pos' BY <1>0, <1>1, <1>9 DEF PyInv
  <2>5. PyInv' BY <1>1, <1>9, <2>2, <2>3, <2>4 DEF PyInv
  <2>6. RowInv' BY <1>1, SameRows
  <2> QED BY <1>6, <1>7, <2>5, <2>6, TypeNext DEF IInv
<1> QED BY <1>0, <1>8, <1>9 DEF CtlType

(* With the clocks of the host, the row is of the boot whose start was read   *)
(* last, and it has the number of that boot.                                  *)
LEMMA HostedRowKeeps ==
  ASSUME IInv, CleanBootedLine, timer = "sqlite"
  PROVE  IInv'
<1>0. CtlType /\ SeqType /\ PairInv /\ LineInv /\ PyInv /\ RowInv /\ Len(tmp) \in Nat BY Before
<1>1. /\ pc = "clean" /\ run' = run /\ boot' = boot /\ pc' = "clean" /\ timer' = timer /\ faults' = faults /\ tmp' = tmp
      /\ pos < Len(tmp) /\ tmp[pos + 1].kind = "booted"
      /\ pos' = pos + 1 /\ iteration' = iteration /\ current' = current /\ result' = result
      /\ bootcsv' = IF iteration >= WarmUps + 1
                    THEN Append(bootcsv, Row(iteration - WarmUps, tmp[pos + 1].of, current[Len(current)]))
                    ELSE bootcsv
  BY DEF CleanBootedLine
<1>a. pos \in Nat /\ iteration \in Nat /\ pos + 1 \in 1..Len(tmp) /\ run \in Nat BY <1>0, <1>1 DEF CtlType
<1>2. tmp[pos + 1].of \in Boots
  <2>1. tmp \in Seq(Lines) BY <1>0 DEF SeqType
  <2>2. tmp[pos + 1] \in Lines BY <1>a, <2>1, ElementOfSeq
  <2> QED BY <2>2 DEF Lines
<1>3. pos + 1 > 1 /\ tmp[pos].kind = "start" /\ tmp[pos].of = tmp[pos + 1].of
  <2>1. /\ pos + 1 > 1 /\ tmp[pos + 1 - 1].kind = "start" /\ tmp[pos + 1 - 1].of = tmp[pos + 1].of
    BY <1>0, <1>1, <1>a DEF PairInv
  <2>2. pos + 1 - 1 = pos BY <1>a
  <2> QED BY <2>1, <2>2
<1>4. current[Len(current)] = tmp[pos + 1].of BY <1>0, <1>1, <1>3, <1>a DEF PyInv
<1>5. Unkilled => /\ tmp[pos + 1].of.run = run /\ tmp[pos + 1].of.boot = iteration
  <2>1. ASSUME Unkilled PROVE Hosted(pos + 1) /\ iteration = Prev(pos + 1) BY <1>0, <1>1, <1>a, <2>1 DEF LineInv, PyInv
  <2>2. Unkilled => tmp[pos + 1].of.boot = Prev(pos + 1) + 0 BY <1>1, <2>1 DEF Hosted
  <2> QED BY <1>a, <2>1, <2>2 DEF Hosted
<1>6. Unkilled' <=> Unkilled BY <1>1 DEF Unkilled
<1>7. PyInv'
  <2>1. Unkilled => (Prev(pos + 1))' = iteration'
    <3>1. pos' + 1 # 1 /\ pos' + 1 - 1 = pos + 1 BY <1>1, <1>a
    <3> QED BY <1>1, <1>5, <3>1 DEF Prev
  <2>2. pos' <= Len(tmp') BY <1>0, <1>1, <1>a
  <2>3. tmp'[pos'].kind # "start" BY <1>1
  <2> QED BY <1>1, <1>6, <2>1, <2>2, <2>3 DEF PyInv, Orders
<1>8. PairInv' /\ LineInv' BY <1>1, SameFile
<1>9. CASE iteration >= WarmUps + 1
  <2> DEFINE e == Row(iteration - WarmUps, tmp[pos + 1].of, current[Len(current)])
  <2>1. e \in RowsSet /\ e.start = e.end /\ e.end = tmp[pos + 1].of /\ e.itr = iteration - WarmUps
    BY <1>2, <1>4, <1>9, <1>a DEF Row, RowsSet, WarmUps
  <2>2. bootcsv' = Append(bootcsv, e) BY <1>1, <1>9
  <2> HIDE DEF e
  <2>3. bootcsv \in Seq(RowsSet) BY <1>0 DEF SeqType
  <2>4. /\ bootcsv' \in Seq(RowsSet)
        /\ Same(bootcsv) => Same(bootcsv')
        /\ \A r : Numbered(bootcsv, r) /\ e.end = Boot(r, e.itr + WarmUps) => Numbered(bootcsv', r)
    BY <2>1, <2>2, <2>3, AppendRow
  <2>5. Unkilled => e.end = Boot(run, e.itr + WarmUps)
    <3>1. e.itr + WarmUps = iteration BY <1>a, <2>1 DEF WarmUps
    <3>2. e.end = [run |-> e.end.run, boot |-> e.end.boot] BY <1>2, <2>1 DEF Boots
    <3> QED BY <1>5, <2>1, <3>1, <3>2 DEF Boot
  <2>6. CtlType' /\ SeqType' BY <1>0, <1>1, <1>a, <2>4 DEF CtlType, SeqType
  <2>7. RowInv'
    <3>1. (Numbers' <=> Numbers) /\ ~Orders /\ ~Orders' /\ (Numbers => Unkilled) BY <1>1 DEF Numbers, Orders, Unkilled
    <3>2. Same(bootcsv') /\ Same(result') BY <1>0, <1>1, <2>4 DEF RowInv
    <3>3. Numbers => Numbered(bootcsv', run')
      <4>1. Numbers => Numbered(bootcsv, run) BY <1>0, <1>1 DEF RowInv
      <4> QED BY <1>1, <2>4, <2>5, <3>1, <4>1
    <3>4. Numbers => \E r \in 0..run' : Numbered(result', r) BY <1>0, <1>1 DEF RowInv
    <3> QED BY <3>1, <3>2, <3>3, <3>4 DEF RowInv, Same, Numbered, Ordered, Boot, WarmUps
  <2> QED BY <1>7, <1>8, <2>6, <2>7, TypeNext DEF IInv
<1>10. CASE ~(iteration >= WarmUps + 1)
  <2>1. bootcsv' = bootcsv BY <1>1, <1>10
  <2>2. CtlType' /\ SeqType' BY <1>0, <1>1, <1>a, <2>1 DEF CtlType, SeqType
  <2>3. RowInv' BY <1>1, <2>1, SameRows
  <2> QED BY <1>7, <1>8, <2>2, <2>3, TypeNext DEF IInv
<1> QED BY <1>9, <1>10

(* With the built-in timer, line n after the lines of the warm-up boots gives *)
(* row n.                                                                     *)
LEMMA CountedRowKeeps ==
  ASSUME IInv, CleanBootedLine, timer = "builtin"
  PROVE  IInv'
<1>0. CtlType /\ SeqType /\ PairInv /\ LineInv /\ PyInv /\ RowInv /\ Len(tmp) \in Nat /\ Len(bootcsv) \in Nat BY Before
<1>1. /\ pc = "clean" /\ run' = run /\ boot' = boot /\ pc' = "clean" /\ timer' = timer /\ faults' = faults /\ tmp' = tmp
      /\ pos < Len(tmp) /\ tmp[pos + 1].kind = "booted"
      /\ pos' = pos + 1 /\ iteration' = iteration + 1 /\ current' = current /\ result' = result
      /\ bootcsv' = IF iteration' \in 1..WarmUps THEN bootcsv
                    ELSE Append(bootcsv, Row(iteration' - WarmUps, tmp[pos + 1].of, tmp[pos + 1].of))
  BY Zenon DEF CleanBootedLine
<1>a. pos \in Nat /\ iteration = pos /\ pos + 1 \in 1..Len(tmp) /\ run \in Nat BY <1>0, <1>1 DEF CtlType, PyInv
<1>2. tmp[pos + 1].of \in Boots
  <2>1. tmp \in Seq(Lines) BY <1>0 DEF SeqType
  <2>2. tmp[pos + 1] \in Lines BY <1>a, <2>1, ElementOfSeq
  <2> QED BY <2>2 DEF Lines
<1>3. /\ (Unkilled' <=> Unkilled) /\ (Orders' <=> Orders) /\ (Orders <=> Unkilled)
      /\ (Numbers' <=> Numbers) /\ (Numbers <=> Unkilled /\ faults = {})
  BY <1>1 DEF Unkilled, Orders, Numbers
<1>4. Unkilled => Counted(pos + 1) BY <1>0, <1>1, <1>a DEF LineInv
<1>5. Unkilled => /\ Len(bootcsv) = (IF pos > WarmUps THEN pos - WarmUps ELSE 0)
                  /\ \A n \in 1..Len(bootcsv) : bootcsv[n].end = tmp[n + WarmUps].of
  BY <1>0, <1>1, <1>3 DEF PyInv
<1>6. pos' <= Len(tmp') /\ iteration' = pos' BY <1>0, <1>1, <1>a
<1>7. PairInv' /\ LineInv' BY <1>1, SameFile
<1>8. CASE iteration' \in 1..WarmUps
  <2>1. bootcsv' = bootcsv /\ pos < WarmUps /\ pos' <= WarmUps BY <1>1, <1>8, <1>a DEF WarmUps
  <2>2. CtlType' /\ SeqType' BY <1>0, <1>1, <1>a, <2>1 DEF CtlType, SeqType
  <2>3. RowInv' BY <1>1, <2>1, SameRows
  <2>4. Unkilled => Len(bootcsv') = 0 /\ ~(pos' > WarmUps) BY <1>1, <1>5, <1>a, <2>1 DEF WarmUps
  <2>5. PyInv' BY <1>1, <1>3, <1>6, <2>4 DEF PyInv
  <2> QED BY <1>7, <2>2, <2>3, <2>5, TypeNext DEF IInv
<1>9. CASE ~(iteration' \in 1..WarmUps)
  <2> DEFINE e == Row(iteration' - WarmUps, tmp[pos + 1].of, tmp[pos + 1].of)
  <2>0. pos >= WarmUps /\ pos' > WarmUps BY <1>1, <1>9, <1>a DEF WarmUps
  <2>1. e \in RowsSet /\ e.start = e.end /\ e.end = tmp[pos + 1].of /\ e.itr = pos + 1 - WarmUps
    BY <1>1, <1>2, <1>a, <2>0 DEF Row, RowsSet, WarmUps
  <2>2. bootcsv' = Append(bootcsv, e) BY <1>1, <1>9
  <2> HIDE DEF e
  <2>3. bootcsv \in Seq(RowsSet) BY <1>0 DEF SeqType
  <2>4. /\ bootcsv' \in Seq(RowsSet) /\ Len(bootcsv') = Len(bootcsv) + 1 /\ bootcsv'[Len(bootcsv) + 1] = e
        /\ \A n \in 1..Len(bootcsv) : bootcsv'[n] = bootcsv[n]
    BY <2>1, <2>2, <2>3, AppendRow
  <2>c. /\ Same(bootcsv) => Same(bootcsv')
        /\ \A r : Numbered(bootcsv, r) /\ e.end = Boot(r, e.itr + WarmUps) => Numbered(bootcsv', r)
    BY <2>1, <2>2, <2>3, AppendRow
  <2>b. ASSUME Ordered(bootcsv), e.itr = Len(bootcsv) + 1, e.end.boot > WarmUps,
               Len(bootcsv) > 0 => bootcsv[Len(bootcsv)].end.boot < e.end.boot
        PROVE  Ordered(bootcsv')
    BY <2>1, <2>2, <2>3, <2>b, AppendRow
  <2>5. CtlType' /\ SeqType' BY <1>0, <1>1, <1>a, <2>4 DEF CtlType, SeqType
  <2>6. Unkilled => Len(bootcsv) = pos - WarmUps BY <1>5, <1>a, <2>0 DEF WarmUps
  <2>7. PyInv'
    <3>1. Unkilled => Len(bootcsv') = pos' - WarmUps BY <1>1, <1>a, <2>0, <2>4, <2>6 DEF WarmUps
    <3>2. ASSUME Unkilled, NEW n \in 1..Len(bootcsv') PROVE bootcsv'[n].end = tmp'[n + WarmUps].of
      <4>1. n \in 1..Len(bootcsv) \/ n = Len(bootcsv) + 1 BY <1>0, <2>4
      <4>2. n = Len(bootcsv) + 1 => n + WarmUps = pos + 1 BY <1>a, <2>0, <2>6, <3>2 DEF WarmUps
      <4> QED BY <1>1, <1>5, <2>1, <2>4, <3>2, <4>1, <4>2
    <3> QED BY <1>1, <1>3, <1>6, <2>0, <3>1, <3>2 DEF PyInv
  <2>8. Numbers => e.end = Boot(run, e.itr + WarmUps)
    <3>1. e.itr + WarmUps = pos + 1 BY <1>a, <2>1 DEF WarmUps
    <3>2. e.end = [run |-> e.end.run, boot |-> e.end.boot] BY <1>2, <2>1 DEF Boots
    <3> QED BY <1>3, <1>4, <2>1, <3>1, <3>2 DEF Boot, Counted
  <2>9. Unkilled => /\ e.itr = Len(bootcsv) + 1 /\ e.end.boot > WarmUps
                    /\ Len(bootcsv) > 0 => bootcsv[Len(bootcsv)].end.boot < e.end.boot
    <3>1. Unkilled => e.itr = Len(bootcsv) + 1 BY <1>a, <2>1, <2>6 DEF WarmUps
    <3>2. Unkilled => e.end.boot > WarmUps
      <4>1. e.end.boot \in Nat BY <1>2, <2>1 DEF Boots
      <4>2. Unkilled => e.end.boot >= pos + 1 BY <1>4, <2>1 DEF Counted
      <4> QED BY <1>a, <2>0, <4>1, <4>2 DEF WarmUps
    <3>3. ASSUME Unkilled, Len(bootcsv) > 0 PROVE bootcsv[Len(bootcsv)].end.boot < e.end.boot
      <4>1. Len(bootcsv) \in 1..Len(bootcsv) /\ Len(bootcsv) + WarmUps = pos /\ pos # 0
        BY <1>0, <1>a, <2>6, <3>3 DEF WarmUps
      <4>2. bootcsv[Len(bootcsv)].end = tmp[pos].of BY <1>5, <3>3, <4>1
      <4>3. Prev(pos + 1) = tmp[pos].of.boot
        <5>1. pos + 1 # 1 /\ pos + 1 - 1 = pos BY <1>a, <4>1
        <5>2. Prev(pos + 1) = tmp[pos + 1 - 1].of.boot BY <1>a, <5>1 DEF Prev
        <5> QED BY <5>1, <5>2
      <4>4. e.end.boot > Prev(pos + 1) BY <1>4, <2>1, <3>3 DEF Counted
      <4> QED BY <4>2, <4>3, <4>4
    <3> QED BY <3>1, <3>2, <3>3
  <2>10. RowInv'
    <3>1. Same(bootcsv') /\ Same(result') BY <1>0, <1>1, <2>c DEF RowInv
    <3>2. Numbers => Numbered(bootcsv', run')
      <4>1. Numbers => Numbered(bootcsv, run) BY <1>0, <1>1 DEF RowInv
      <4> QED BY <1>1, <2>c, <2>8, <4>1
    <3>3. Orders => Ordered(bootcsv')
      <4>1. Orders => Ordered(bootcsv) BY <1>0, <1>1 DEF RowInv
      <4> QED BY <1>3, <2>b, <2>9, <4>1
    <3>4. Numbers => \E r \in 0..run' : Numbered(result', r) BY <1>0, <1>1 DEF RowInv
    <3>5. Orders => Ordered(result') BY <1>0, <1>1 DEF RowInv
    <3> QED BY <1>3, <3>1, <3>2, <3>3, <3>4, <3>5 DEF RowInv, Same, Numbered, Ordered, Boot, WarmUps
  <2> QED BY <1>7, <2>5, <2>7, <2>10, TypeNext DEF IInv
<1> QED BY <1>8, <1>9

(* The end of clean-boot-time.py.                                             *)
LEMMA CleanEndsKeeps ==
  ASSUME IInv, CleanEnds
  PROVE  IInv'
<1>0. CtlType /\ SeqType BY Before
<1>1. /\ pc = "clean" /\ run' = run /\ boot' = boot /\ pc' = "rm" /\ timer' = timer /\ faults' = faults /\ tmp' = tmp
      /\ pos' = pos /\ iteration' = iteration /\ current' = current /\ bootcsv' = bootcsv /\ result' = result
  BY DEF CleanEnds, python
<1>2. CtlType' /\ SeqType' BY <1>0, <1>1 DEF CtlType, SeqType
<1>3. PairInv' /\ LineInv' BY <1>1, SameFile
<1>4. PyInv' BY <1>1 DEF PyInv
<1>5. RowInv' BY <1>1, SameRows
<1> QED BY <1>2, <1>3, <1>4, <1>5, TypeNext DEF IInv

(* rm empties what the next invocation appends to.                            *)
LEMMA RemoveTmpKeeps ==
  ASSUME IInv, RemoveTmp
  PROVE  IInv'
<1>0. CtlType /\ SeqType BY Before
<1>1. /\ pc = "rm" /\ run' = run /\ boot' = boot /\ pc' = "cp" /\ timer' = timer /\ faults' = faults /\ tmp' = <<>>
      /\ pos' = pos /\ iteration' = iteration /\ current' = current /\ bootcsv' = bootcsv /\ result' = result
  BY DEF RemoveTmp, python
<1>2. CtlType' /\ SeqType' BY <1>0, <1>1, EmptyReport DEF CtlType, SeqType
<1>3. PairInv'
  <2>1. Len(tmp') = 0 BY <1>1, EmptyReport
  <2> QED BY <1>1, <2>1 DEF PairInv
<1>4. LineInv' BY <1>1 DEF LineInv
<1>5. PyInv' BY <1>1 DEF PyInv
<1>6. RowInv' BY <1>1, SameRows
<1> QED BY <1>2, <1>3, <1>4, <1>5, <1>6, TypeNext DEF IInv

(* The report that is copied is of this invocation.                           *)
LEMMA CopyReportKeeps ==
  ASSUME IInv, CopyReport
  PROVE  IInv'
<1>0. CtlType /\ SeqType /\ PairInv /\ LineInv /\ RowInv BY Before
<1>1. /\ pc = "cp" /\ run' = run /\ boot' = boot /\ pc' = "idle" /\ timer' = timer /\ faults' = faults /\ tmp' = tmp
      /\ pos' = pos /\ iteration' = iteration /\ current' = current /\ bootcsv' = bootcsv /\ result' = bootcsv
  BY DEF CopyReport, python
<1>2. CtlType' /\ SeqType' BY <1>0, <1>1 DEF CtlType, SeqType
<1>3. PairInv' BY <1>0, <1>1 DEF PairInv
<1>4. LineInv'
  <2>1. Unkilled' => tmp' = <<>> BY <1>0, <1>1 DEF LineInv, Unkilled
  <2> QED BY <1>1, <2>1 DEF LineInv
<1>5. PyInv' BY <1>1 DEF PyInv
<1>6. RowInv'
  <2>1. (Numbers' <=> Numbers) /\ (Orders' <=> Orders) BY <1>1 DEF Numbers, Orders, Unkilled
  <2>2. Same(bootcsv') /\ Same(result') BY <1>0, <1>1 DEF RowInv
  <2>3. Numbers => \E r \in 0..run' : Numbered(result', r)
    <3>1. Numbers => Numbered(result', run) BY <1>0, <1>1 DEF RowInv
    <3>2. run \in 0..run' BY <1>0, <1>1 DEF CtlType
    <3> QED BY <3>1, <3>2
  <2>4. Orders => Ordered(result') BY <1>0, <1>1 DEF RowInv
  <2> QED BY <1>1, <2>1, <2>2, <2>3, <2>4 DEF RowInv, Same, Numbered, Ordered, Boot, WarmUps
<1> QED BY <1>2, <1>3, <1>4, <1>5, <1>6, TypeNext DEF IInv

(* After Ctrl-C, only what holds of every file is known of this one.          *)
LEMMA KillKeeps ==
  ASSUME IInv, Kill
  PROVE  IInv'
<1>0. CtlType /\ SeqType /\ PairInv BY Before
<1>1. /\ run' = run /\ boot' = boot /\ pc' = "idle" /\ timer' = timer /\ faults' = faults /\ tmp' = tmp
      /\ pos' = pos /\ iteration' = iteration /\ current' = current /\ bootcsv' = bootcsv /\ result' = result
      /\ "kill" \in faults
  BY DEF Kill, python
<1>2. CtlType' /\ SeqType' BY <1>0, <1>1 DEF CtlType, SeqType
<1>3. PairInv' BY <1>0, <1>1 DEF PairInv
<1>4. LineInv' BY <1>1 DEF LineInv, Unkilled
<1>5. PyInv' BY <1>1 DEF PyInv
<1>6. RowInv' BY <1>1, SameRows
<1> QED BY <1>2, <1>3, <1>4, <1>5, <1>6, TypeNext DEF IInv

(* Every step, and every stuttering one, keeps IInv.                          *)
LEMMA Inductive ==
  ASSUME IInv, [Next]_vars
  PROVE  IInv'
<1>1. ASSUME Next PROVE IInv'
  <2>1. CASE CleanBootedLine
    <3>1. timer \in {"builtin", "sqlite"} BY Before DEF CtlType
    <3> QED BY <2>1, <3>1, HostedRowKeeps, CountedRowKeeps
  <2> QED BY <1>1, <2>1, StartKeeps, StartBootKeeps, GuestPrintsKeeps, GuestDiesKeeps, StartCleanKeeps,
             CleanStartLineKeeps, CleanEndsKeeps, RemoveTmpKeeps, CopyReportKeeps, KillKeeps DEF Next
<1>2. CASE UNCHANGED vars
  <2>0. CtlType /\ SeqType /\ PairInv /\ LineInv /\ PyInv /\ RowInv BY Before
  <2>1. CtlType' /\ SeqType' BY <1>2, <2>0 DEF vars, python, CtlType, SeqType
  <2>2. PairInv' BY <1>2, <2>0 DEF vars, python, PairInv, Line
  <2>3. LineInv' BY <1>2, <2>0 DEF vars, python, LineInv, Unkilled, Prev, Hosted, Counted
  <2>4. PyInv' BY <1>2, <2>0 DEF vars, python, PyInv, Unkilled, Orders, Prev
  <2>5. RowInv' BY <1>2, SameRows DEF vars, python
  <2> QED BY <2>1, <2>2, <2>3, <2>4, <2>5, TypeNext DEF IInv
<1> QED BY <1>1, <1>2

(* IInv always holds.                                                         *)
LEMMA Always == Spec => []IInv
<1>1. IInv /\ [Next]_vars => IInv' BY Inductive
<1> QED BY <1>1, Starts, PTL DEF Spec
-----------------------------------------------------------------------------
(* The scripts' counters, the lines of temporary.txt and the rows of the      *)
(* reports keep their types (osv/boot/*/clean-boot-time.py).                  *)
THEOREM TypeCorrect == Spec => []TypeOK
<1>1. IInv => TypeOK BY DEF IInv
<1> QED BY <1>1, Always, PTL

(* For any number of iterations and invocations: unless an invocation is      *)
(* interrupted, row j of the report is measured boot j of one invocation,     *)
(* with the clocks of the host even when boots die (bash-sqlite-timer/clean-  *)
(* boot-time.py:30-45).                                                       *)
THEOREM RowsAreOwn == Spec => []RowsOwn
<1>1. IInv => RowsOwn
  <2> SUFFICES ASSUME IInv PROVE RowsOwn OBVIOUS
  <2>1. SeqType /\ RowInv BY Before
  <2>2. DOMAIN result = 1..Len(result) BY <2>1, LenProperties DEF SeqType
  <2> QED BY <2>1, <2>2 DEF RowsOwn, RowInv, Numbers, Unkilled, Numbered
<1> QED BY <1>1, Always, PTL

(* The two clocks that are subtracted are always of the same boot, whatever   *)
(* dies or is stopped (bash-sqlite-timer/clean-boot-time.py:34-43).           *)
THEOREM ClocksOfOneBoot == Spec => []SameBoot
<1>1. IInv => SameBoot
  <2> SUFFICES ASSUME IInv PROVE SameBoot OBVIOUS
  <2>1. SeqType /\ RowInv BY Before
  <2>2. DOMAIN result = 1..Len(result) BY <2>1, LenProperties DEF SeqType
  <2> QED BY <2>1, <2>2 DEF SameBoot, RowInv, Same
<1> QED BY <1>1, Always, PTL

(* With the built-in timer the rows are in boot order and none is of a warm-  *)
(* up boot, even when boots die (built-in-timer/clean-boot-time.py:29-42).    *)
THEOREM RowsInOrder == Spec => []InOrderAfterWarmUp
<1>1. IInv => InOrderAfterWarmUp
  <2> SUFFICES ASSUME IInv PROVE InOrderAfterWarmUp OBVIOUS
  <2>1. SeqType /\ RowInv BY Before
  <2>2. DOMAIN result = 1..Len(result) BY <2>1, LenProperties DEF SeqType
  <2> QED BY <2>1, <2>2 DEF InOrderAfterWarmUp, RowInv, Orders, Unkilled, Ordered
<1> QED BY <1>1, Always, PTL
=============================================================================
