-------------------------- MODULE PowerReportProofs -------------------------
(***************************************************************************)
(* Proofs about the two power tests that fill a report of the form of      *)
(* module PowerReport: module OsvPower and, from the second half on,       *)
(* module UnikraftPower.  They hold for any number of queries, of          *)
(* statements of query 15, of iterations and of invocations, and for every *)
(* set of faults.                                                          *)
(*                                                                         *)
(* Both scripts know a query by the position of its time in the guest's    *)
(* output, so the proof numbers the lines: LineOf says in which line the   *)
(* guest prints the time of a statement.  On OSv, while the file holds     *)
(* lines of this iteration only (Fresh), line n is the one that LineOf     *)
(* gives number n, and the script is at the statement it takes it for.  On *)
(* Unikraft the list always is of one guest, and what is to be shown is    *)
(* that folding it by slices gives a list of queries, also where Python    *)
(* clips the slices.                                                       *)
(***************************************************************************)
EXTENDS OsvPower, UnikraftPower, SequenceTheorems, TLAPS

(* The number of the "Run Time:" line of statement m of query q.              *)
LineOf(q, m) == q + (m - 1) + (IF q > ViewQuery THEN ViewStmts - 1 ELSE 0)

(* Line n of the file is the time of the statement that prints an n-th line.  *)
Printed(n) == \E q \in 1..NumQueries : \E m \in 1..Stmts(q) :
                n = LineOf(q, m) /\ tmp[n] = Tag(run, itr, q, m)

(* Nothing that an interrupted invocation left can be in the file.            *)
Fresh == "kill" \notin faults \/ itr > 1

(* The script has given every line it read to the query that printed it.      *)
Walk ==
  /\ pos <= Len(tmp)
  /\ current_query \in 1..(NumQueries + 1)
  /\ run_time_count \in Nat
  /\ run_time_count < (IF current_query = ViewQuery THEN ViewStmts ELSE 1)
  /\ pos + 1 = LineOf(current_query, run_time_count + 1)
  /\ run_time_sum = {Tag(run, itr, ViewQuery, m) : m \in 1..run_time_count}
  /\ Len(run_times) = current_query - 1
  /\ \A q \in 1..(current_query - 1) : run_times[q] = QueryTime(run, itr, q)

(* The file, at each point of the loop of benchmark.sh.                       *)
FileInv ==
  /\ pc \in {"idle", "load"} /\ "kill" \notin faults => tmp = <<>>
  /\ pc = "boot" /\ Fresh => tmp = <<>>
  /\ pc \in {"guest", "clean"} /\ Fresh => Len(tmp) + 1 = LineOf(gq, gk)
  /\ pc \in {"guest", "clean"} /\ Fresh => \A n \in 1..Len(tmp) : Printed(n)
  /\ pc = "clean" /\ Fresh => Walk

(* The guest's statement; after query 15 there is no revenue0.                *)
GuestInv ==
  /\ gq \in 1..(NumQueries + 1) /\ gk \in 1..Stmts(gq)
  /\ gq > ViewQuery => ~view

(* The rows of the later iterations are of one invocation, the running one    *)
(* once it has written its first rows.                                        *)
Later(r) == \A n \in 1..Len(csv) :
  csv[n].itr > 1 => csv[n].time = QueryTime(r, csv[n].itr, csv[n].q)
LaterInv == \E r \in 0..run : (pc # "idle" /\ itr > 1 => r = run) /\ Later(r)

(* benchmark.sh counts its iterations from 1.                                 *)
ItrInv == (pc # "idle" => itr > 0) /\ (pc = "load" => itr = 1)

(* The inductive invariant.                                                   *)
IInv == TypeOK /\ ItrInv /\ FileInv /\ GuestInv /\ LaterInv
-----------------------------------------------------------------------------
(* The rows of the report.                                                    *)
CsvRows == [itr : Nat, q : Nat, time : SUBSET Tags]

(* Two statements have different lines.                                       *)
LEMMA LinesDiffer ==
  ASSUME NEW q \in 1..(NumQueries + 1), NEW p \in 1..(NumQueries + 1), NEW k \in 1..Stmts(q), NEW m \in 1..Stmts(p),
         LineOf(q, k) = LineOf(p, m)
  PROVE  q = p /\ k = m
<1>1. NumQueries \in Nat \ {0} /\ ViewQuery \in 1..NumQueries /\ ViewStmts \in Nat \ {0, 1} BY QueriesAssumption
<1>2. CASE q < ViewQuery BY <1>1, <1>2 DEF LineOf, Stmts
<1>3. CASE q = ViewQuery BY <1>1, <1>3 DEF LineOf, Stmts
<1>4. CASE q > ViewQuery BY <1>1, <1>4 DEF LineOf, Stmts
<1> QED BY <1>1, <1>2, <1>3, <1>4

(* The next statement has the next line.                                      *)
LEMMA NextLine ==
  ASSUME NEW q \in 1..NumQueries, NEW k \in 1..Stmts(q)
  PROVE  /\ k < Stmts(q) => k + 1 \in 1..Stmts(q) /\ LineOf(q, k + 1) = LineOf(q, k) + 1
         /\ ~(k < Stmts(q)) => q + 1 \in 1..(NumQueries + 1) /\ 1 \in 1..Stmts(q + 1) /\ LineOf(q + 1, 1) = LineOf(q, k) + 1
         /\ LineOf(q, k) \in Nat \ {0}
BY QueriesAssumption DEF LineOf, Stmts

(* The rows of an iteration are as long as its list of times.                 *)
LEMMA RowsOf ==
  ASSUME NEW T \in Seq(SUBSET Tags), NEW j \in Nat
  PROVE  LET R == [q \in 1..Len(T) |-> Row(j, q, T[q])] IN
         /\ R \in Seq(CsvRows) /\ Len(R) = Len(T)
         /\ \A n \in 1..Len(T) : R[n].itr = j /\ R[n].q = n /\ R[n].time = T[n]
<1> DEFINE R == [q \in 1..Len(T) |-> Row(j, q, T[q])]
<1>1. Len(T) \in Nat /\ \A n \in 1..Len(T) : T[n] \in SUBSET Tags BY LenProperties, ElementOfSeq
<1>2. \A n \in 1..Len(T) : R[n] \in CsvRows /\ R[n].itr = j /\ R[n].q = n /\ R[n].time = T[n]
  BY <1>1 DEF Row, CsvRows
<1>3. R \in Seq(CsvRows) /\ Len(R) = Len(T)
  <2>1. DOMAIN R = 1..Len(T) OBVIOUS
  <2>2. R \in [1..Len(T) -> CsvRows] BY <1>2
  <2> HIDE DEF R
  <2>3. R \in Seq(CsvRows) BY <1>1, <2>2, SeqDef
  <2> QED BY <1>1, <2>1, <2>3, LenProperties
<1> QED BY <1>2, <1>3
-----------------------------------------------------------------------------
(* The first invocation finds no file and no report.                          *)
LEMMA Starts == Init => IInv
<1> SUFFICES ASSUME Init PROVE IInv OBVIOUS
<1>0. /\ pc = "idle" /\ run = 0 /\ itr = 0 /\ csv = <<>> /\ tmp = <<>> /\ gq = 1 /\ gk = 1 /\ view = FALSE
      /\ pos = 0 /\ current_query = 1 /\ run_time_sum = {} /\ run_time_count = 0 /\ run_times = <<>>
      /\ faults \in SUBSET FaultNames
  BY PowerLoopAssumption DEF Init, ReportInit
<1>1. <<>> \in Seq(CsvRows) /\ <<>> \in Seq(Tags) /\ <<>> \in Seq(SUBSET Tags) /\ Len(<<>>) = 0 BY EmptySeq
<1>2. TypeOK
  <2>1. csv \in Seq(CsvRows) /\ tmp \in Seq(Tags) /\ run_times \in Seq(SUBSET Tags) BY <1>0, <1>1
  <2> QED BY <1>0, <2>1 DEF TypeOK, Labels, CsvRows
<1>3. FileInv BY <1>0 DEF FileInv
<1>4. GuestInv BY <1>0, QueriesAssumption DEF GuestInv, Stmts
<1>5. LaterInv
  <2>1. Later(0) /\ 0 \in 0..run BY <1>0, <1>1 DEF Later
  <2> QED BY <1>0, <2>1 DEF LaterInv
<1> QED BY <1>0, <1>2, <1>3, <1>4, <1>5 DEF IInv, ItrInv

(* The report is as it was.                                                   *)
LEMMA SameReport ==
  ASSUME IInv, csv' = csv, run' \in {run, run + 1}, pc' # "idle" /\ itr' > 1 => run' = run /\ pc # "idle" /\ itr > 1
  PROVE  LaterInv'
<1>1. PICK r \in 0..run : (pc # "idle" /\ itr > 1 => r = run) /\ Later(r) BY DEF IInv, LaterInv
<1>2. run \in Nat BY DEF IInv, TypeOK
<1>3. r \in 0..run' BY <1>2
<1>4. Later(r)' BY <1>1 DEF Later
<1> QED BY <1>1, <1>3, <1>4 DEF LaterInv

(* benchmark.sh starts; a file that an interrupted invocation left stays.     *)
LEMMA StartKeeps ==
  ASSUME IInv, Start
  PROVE  IInv'
<1>0. TypeOK /\ FileInv /\ GuestInv BY DEF IInv
<1>1. /\ pc = "idle" /\ run' = run + 1 /\ itr' = 1 /\ pc' = "load" /\ faults' = faults /\ csv' = csv /\ tmp' = tmp
      /\ guest' = guest /\ python' = python
  BY DEF Start
<1>2. TypeOK' BY <1>0, <1>1 DEF TypeOK, guest, python, Labels
<1>3. FileInv' BY <1>0, <1>1 DEF FileInv
<1>4. GuestInv' BY <1>0, <1>1 DEF GuestInv, guest, Stmts
<1>5. LaterInv' BY <1>1, SameReport
<1>6. ItrInv' BY <1>1 DEF ItrInv
<1> QED BY <1>2, <1>3, <1>4, <1>5, <1>6 DEF IInv

(* The boot that imports the tables.                                          *)
LEMMA LoadKeeps ==
  ASSUME IInv, Load
  PROVE  IInv'
<1>0. TypeOK /\ ItrInv /\ FileInv /\ GuestInv BY DEF IInv
<1>1. /\ pc = "load" /\ run' = run /\ itr' = itr /\ pc' = "boot" /\ faults' = faults /\ csv' = csv /\ tmp' = tmp
      /\ guest' = guest /\ python' = python
  BY DEF Load
<1>2. TypeOK' BY <1>0, <1>1 DEF TypeOK, guest, python, Labels
<1>3. FileInv' BY <1>0, <1>1 DEF FileInv, Fresh, ItrInv
<1>4. GuestInv' BY <1>0, <1>1 DEF GuestInv, guest, Stmts
<1>5. LaterInv' BY <1>1, SameReport
<1>6. ItrInv' BY <1>0, <1>1 DEF ItrInv
<1> QED BY <1>2, <1>3, <1>4, <1>5, <1>6 DEF IInv

(* A guest boots and starts with the first query.                             *)
LEMMA BootKeeps ==
  ASSUME IInv, Boot
  PROVE  IInv'
<1>0. TypeOK /\ ItrInv /\ FileInv /\ GuestInv BY DEF IInv
<1>1. /\ pc = "boot" /\ run' = run /\ itr' = itr /\ pc' = "guest" /\ faults' = faults /\ csv' = csv /\ tmp' = tmp
      /\ gq' = 1 /\ gk' = 1 /\ view' = view /\ python' = python
  BY DEF Boot
<1>2. TypeOK' BY <1>0, <1>1 DEF TypeOK, python, Labels
<1>3. FileInv'
  <2>1. Len(<<>>) = 0 /\ LineOf(1, 1) = 1 BY QueriesAssumption DEF LineOf
  <2>2. Fresh' => tmp' = <<>> BY <1>0, <1>1 DEF FileInv, Fresh
  <2>3. Fresh' => Len(tmp') + 1 = LineOf(gq', gk') BY <1>1, <2>1, <2>2
  <2>4. Fresh' => \A n \in 1..Len(tmp') : Printed(n)' BY <2>1, <2>2
  <2> QED BY <1>1, <2>3, <2>4 DEF FileInv, LineOf
<1>4. GuestInv' BY <1>1, QueriesAssumption DEF GuestInv, Stmts
<1>5. LaterInv' BY <1>1, SameReport
<1>6. ItrInv' BY <1>0, <1>1 DEF ItrInv
<1> QED BY <1>2, <1>3, <1>4, <1>5, <1>6 DEF IInv

(* The guest prints the time of a statement, in the line that LineOf gives.   *)
LEMMA StatementKeeps ==
  ASSUME IInv, Statement
  PROVE  IInv'
<1> DEFINE g == Tag(run, itr, gq, gk)
           f == Append(tmp, g)
<1>0. TypeOK /\ ItrInv /\ FileInv /\ GuestInv BY DEF IInv
<1>1. /\ pc = "guest" /\ run' = run /\ itr' = itr /\ pc' = pc /\ faults' = faults /\ csv' = csv /\ tmp' = f
      /\ gq <= NumQueries /\ view' = IF gq = ViewQuery THEN gk < ViewStmts ELSE view
      /\ IF gk < Stmts(gq) THEN gk' = gk + 1 /\ gq' = gq ELSE gk' = 1 /\ gq' = gq + 1
      /\ python' = python
  BY DEF Statement
<1>a. gq \in 1..NumQueries /\ gk \in 1..Stmts(gq) /\ Stmts(gq) \in Nat \ {0} /\ ViewQuery \in 1..NumQueries
      /\ NumQueries \in Nat \ {0} /\ ViewStmts \in Nat \ {0, 1}
  BY <1>0, <1>1, QueriesAssumption DEF GuestInv, Stmts
<1>b. g \in Tags BY <1>0, <1>a DEF Tags, Tag, TypeOK
<1>c. /\ f \in Seq(Tags) /\ Len(f) = Len(tmp) + 1 /\ f[Len(tmp) + 1] = g
      /\ \A n \in 1..Len(tmp) : f[n] = tmp[n]
      /\ Len(tmp) \in Nat
  BY <1>0, <1>b, AppendProperties, LenProperties DEF TypeOK
<1> HIDE DEF f
<1>d. /\ gq' \in 1..(NumQueries + 1) /\ gk' \in 1..Stmts(gq') /\ LineOf(gq', gk') = LineOf(gq, gk) + 1
  BY <1>1, <1>a, NextLine
<1>2. TypeOK'
  <2>1. view' \in BOOLEAN
    <3> DEFINE less == gk < ViewStmts
    <3>1. less \in BOOLEAN /\ view \in BOOLEAN /\ view' = IF gq = ViewQuery THEN less ELSE view
      <4>1. less \in BOOLEAN OBVIOUS
      <4>2. view \in BOOLEAN BY <1>0 DEF TypeOK
      <4> QED BY <1>1, <4>1, <4>2
    <3> HIDE DEF less
    <3> QED BY <3>1
  <2>2. gq' \in Nat /\ gk' \in Nat BY <1>1, <1>a
  <2> QED BY <1>0, <1>1, <1>c, <2>1, <2>2 DEF TypeOK, python, Labels
<1>3. FileInv'
  <2>1. ASSUME Fresh' PROVE Len(tmp') + 1 = LineOf(gq', gk')
    <3>1. Len(tmp) + 1 = LineOf(gq, gk) BY <1>0, <1>1, <2>1 DEF FileInv, Fresh
    <3> QED BY <1>1, <1>c, <1>d, <3>1
  <2>2. ASSUME Fresh', NEW n \in 1..Len(f)
        PROVE \E q \in 1..NumQueries : \E m \in 1..Stmts(q) : n = LineOf(q, m) /\ f[n] = Tag(run, itr, q, m)
    <3>1. Fresh BY <1>1, <2>2 DEF Fresh
    <3>2. CASE n \in 1..Len(tmp) BY <1>0, <1>1, <1>c, <3>1, <3>2 DEF FileInv, Printed
    <3>3. CASE n = Len(tmp) + 1
      <4>1. n = LineOf(gq, gk) /\ f[n] = g BY <1>0, <1>1, <1>c, <3>1, <3>3 DEF FileInv
      <4> QED BY <1>a, <4>1
    <3> QED BY <1>c, <3>2, <3>3
  <2>3. ASSUME Fresh', NEW n \in 1..Len(tmp') PROVE Printed(n)' BY <1>1, <2>2, <2>3 DEF Printed, Stmts, LineOf
  <2> QED BY <1>1, <2>1, <2>3 DEF FileInv, LineOf
<1>4. GuestInv'
  <2>1. gq' > ViewQuery => ~view'
    <3>1. CASE gq = ViewQuery
      <4>1. Stmts(gq) = ViewStmts /\ ~(gq > ViewQuery) BY <1>a, <3>1 DEF Stmts
      <4>2. CASE gk < Stmts(gq) BY <1>1, <4>1, <4>2
      <4>3. CASE ~(gk < Stmts(gq))
        <5>1. view' = (gk < ViewStmts) BY <1>1, <3>1
        <5>2. ~(gk < ViewStmts) BY <4>1, <4>3
        <5> QED BY <5>1, <5>2
      <4> QED BY <4>2, <4>3
    <3>2. CASE gq # ViewQuery BY <1>0, <1>1, <1>a, <3>2 DEF GuestInv
    <3> QED BY <3>1, <3>2
  <2> QED BY <1>d, <2>1 DEF GuestInv, Stmts
<1>5. LaterInv' BY <1>1, SameReport
<1>6. ItrInv' BY <1>0, <1>1 DEF ItrInv
<1> QED BY <1>2, <1>3, <1>4, <1>5, <1>6 DEF IInv

(* The guest is done, or dead, and the script starts at the first line.       *)
LEMMA GuestEndsKeeps ==
  ASSUME IInv, GuestEnds
  PROVE  IInv'
<1>0. TypeOK /\ ItrInv /\ FileInv /\ GuestInv BY DEF IInv
<1>1. /\ pc = "guest" /\ run' = run /\ itr' = itr /\ pc' = "clean" /\ faults' = faults /\ csv' = csv /\ tmp' = tmp
      /\ guest' = guest /\ pos' = 0 /\ current_query' = 1 /\ run_time_sum' = {} /\ run_time_count' = 0
      /\ run_times' = <<>>
  BY DEF GuestEnds
<1>a. <<>> \in Seq(SUBSET Tags) /\ Len(<<>>) = 0 BY EmptySeq
<1>2. TypeOK'
  <2>1. run_times' \in Seq(SUBSET Tags) BY <1>1, <1>a
  <2> QED BY <1>0, <1>1, <2>1 DEF TypeOK, guest, Labels
<1>3. FileInv'
  <2>1. Walk'
    <3>1. NumQueries \in Nat \ {0} /\ ViewStmts \in Nat \ {0, 1} BY QueriesAssumption
    <3>2. LineOf(1, 1) = 1 BY QueriesAssumption DEF LineOf
    <3>3. {Tag(run', itr', ViewQuery, m) : m \in 1..0} = {} OBVIOUS
    <3>4. LineOf(current_query, run_time_count + 1)' = 1 BY <1>1, <3>2 DEF LineOf
    <3> QED BY <1>1, <1>a, <3>1, <3>3, <3>4 DEF Walk
  <2>2. ASSUME Fresh', NEW n \in 1..Len(tmp') PROVE Printed(n)' BY <1>0, <1>1, <2>2 DEF FileInv, Fresh, Printed
  <2>3. Fresh' => Len(tmp') + 1 = LineOf(gq, gk)' BY <1>0, <1>1 DEF FileInv, Fresh, guest, LineOf
  <2> QED BY <1>1, <2>1, <2>2, <2>3 DEF FileInv
<1>4. GuestInv' BY <1>0, <1>1 DEF GuestInv, guest, Stmts
<1>5. LaterInv' BY <1>1, SameReport
<1>6. ItrInv' BY <1>0, <1>1 DEF ItrInv
<1> QED BY <1>2, <1>3, <1>4, <1>5, <1>6 DEF IInv

(* The script takes a line for the query it is at: as lines differ, it is the *)
(* line of that query.                                                        *)
LEMMA ExtractLineKeeps ==
  ASSUME IInv, ExtractLine
  PROVE  IInv'
<1> DEFINE t == tmp[pos + 1]
           cq == current_query
           rc == run_time_count
           all == Append(run_times, {t})
           sum == Append(run_times, run_time_sum \cup {t})
<1>0. TypeOK /\ ItrInv /\ FileInv /\ GuestInv BY DEF IInv
<1>1. /\ pc = "clean" /\ pos < Len(tmp) /\ cq <= NumQueries /\ pos' = pos + 1
      /\ run' = run /\ itr' = itr /\ pc' = pc /\ faults' = faults /\ csv' = csv /\ tmp' = tmp /\ guest' = guest
  BY DEF ExtractLine
<1>x. \/ /\ cq # ViewQuery /\ run_times' = all /\ current_query' = cq + 1
         /\ run_time_sum' = run_time_sum /\ run_time_count' = rc
      \/ /\ cq = ViewQuery /\ rc + 1 = ViewStmts /\ run_times' = sum /\ current_query' = cq + 1
         /\ run_time_sum' = {} /\ run_time_count' = 0
      \/ /\ cq = ViewQuery /\ rc + 1 # ViewStmts /\ run_times' = run_times /\ current_query' = cq
         /\ run_time_sum' = run_time_sum \cup {t} /\ run_time_count' = rc + 1
  BY DEF ExtractLine
<1>a. /\ cq \in Nat /\ rc \in Nat /\ run_times \in Seq(SUBSET Tags) /\ run_time_sum \in SUBSET Tags
      /\ tmp \in Seq(Tags) /\ pos \in Nat /\ Len(tmp) \in Nat /\ Len(run_times) \in Nat
  BY <1>0, LenProperties DEF TypeOK
<1>b. t \in Tags /\ pos + 1 \in 1..Len(tmp)
  <2>1. pos + 1 \in 1..Len(tmp) BY <1>1, <1>a
  <2> QED BY <1>a, <2>1, ElementOfSeq
<1> HIDE DEF t
<1>c. /\ all \in Seq(SUBSET Tags) /\ Len(all) = Len(run_times) + 1 /\ all[Len(run_times) + 1] = {t}
      /\ \A n \in 1..Len(run_times) : all[n] = run_times[n]
  <2>1. {t} \in SUBSET Tags BY <1>b
  <2> QED BY <1>a, <2>1, AppendProperties
<1>d. /\ sum \in Seq(SUBSET Tags) /\ Len(sum) = Len(run_times) + 1
      /\ sum[Len(run_times) + 1] = run_time_sum \cup {t}
      /\ \A n \in 1..Len(run_times) : sum[n] = run_times[n]
  <2>1. run_time_sum \cup {t} \in SUBSET Tags BY <1>a, <1>b
  <2> QED BY <1>a, <2>1, AppendProperties
<1> HIDE DEF all, sum
<1>2. TypeOK'
  <2>1. run_times' \in Seq(SUBSET Tags) BY <1>a, <1>c, <1>d, <1>x
  <2>2. current_query' \in Nat /\ run_time_count' \in Nat BY <1>a, <1>x
  <2>3. run_time_sum' \in SUBSET Tags BY <1>a, <1>b, <1>x
  <2>4. pos' \in Nat BY <1>1, <1>a
  <2> QED BY <1>0, <1>1, <2>1, <2>2, <2>3, <2>4 DEF TypeOK, guest
<1>3. FileInv'
  <2>1. ASSUME Fresh PROVE Walk'
    <3>0. Walk /\ Printed(pos + 1) BY <1>0, <1>1, <1>b, <2>1 DEF FileInv
    <3>1. cq \in 1..NumQueries /\ rc + 1 \in 1..Stmts(cq) /\ NumQueries \in Nat \ {0} /\ ViewQuery \in 1..NumQueries
          /\ ViewStmts \in Nat \ {0, 1} /\ Stmts(cq) \in Nat
          /\ Stmts(cq) = (IF cq = ViewQuery THEN ViewStmts ELSE 1)
      BY <1>1, <1>a, <3>0, QueriesAssumption DEF Walk, Stmts
    <3>2. t = Tag(run, itr, cq, rc + 1)
      <4>0. PICK q \in 1..NumQueries : \E m \in 1..Stmts(q) : pos + 1 = LineOf(q, m) /\ t = Tag(run, itr, q, m)
        BY <3>0 DEF Printed, t
      <4>1. PICK m \in 1..Stmts(q) : pos + 1 = LineOf(q, m) /\ t = Tag(run, itr, q, m) BY <4>0
      <4>2. pos + 1 = LineOf(cq, rc + 1) BY <3>0 DEF Walk
      <4>3. q \in 1..(NumQueries + 1) /\ cq \in 1..(NumQueries + 1) BY <3>1
      <4>4. q = cq /\ m = rc + 1 BY <3>1, <4>1, <4>2, <4>3, LinesDiffer
      <4> QED BY <4>1, <4>4
    <3>3. /\ (rc + 1 < Stmts(cq) => LineOf(cq, (rc + 1) + 1) = LineOf(cq, rc + 1) + 1)
          /\ (~(rc + 1 < Stmts(cq)) => LineOf(cq + 1, 1) = LineOf(cq, rc + 1) + 1)
      BY <3>1, NextLine
    <3>4. {Tag(run, itr, ViewQuery, m) : m \in 1..0} = {} OBVIOUS
    <3>5. /\ run_time_sum = {Tag(run, itr, ViewQuery, m) : m \in 1..rc} /\ Len(run_times) = cq - 1
          /\ \A q \in 1..(cq - 1) : run_times[q] = QueryTime(run, itr, q)
          /\ pos + 1 = LineOf(cq, rc + 1) /\ rc < (IF cq = ViewQuery THEN ViewStmts ELSE 1)
      BY <3>0 DEF Walk
    <3>6. 1..(rc + 1) = 1..rc \cup {rc + 1} BY <1>a
    <3>p. pos' <= Len(tmp') BY <1>1, <1>a
    <3>7. SUFFICES /\ current_query' \in 1..(NumQueries + 1) /\ run_time_count' \in Nat
                   /\ run_time_count' < (IF current_query' = ViewQuery THEN ViewStmts ELSE 1)
                   /\ pos' + 1 = LineOf(current_query', run_time_count' + 1)
                   /\ run_time_sum' = {Tag(run, itr, ViewQuery, m) : m \in 1..run_time_count'}
                   /\ Len(run_times') = current_query' - 1
                   /\ \A q \in 1..(current_query' - 1) : run_times'[q] = QueryTime(run, itr, q)
      BY <1>1, <3>p DEF Walk, LineOf, QueryTime, Stmts
    <3>8. CASE /\ cq # ViewQuery /\ run_times' = all /\ current_query' = cq + 1
               /\ run_time_sum' = run_time_sum /\ run_time_count' = rc
      <4>1. rc = 0 BY <1>a, <3>5, <3>8
      <4>2. {t} = QueryTime(run, itr, cq)
        <5>1. Stmts(cq) = 1 /\ 1..1 = {1} BY <3>1, <3>8
        <5>2. QueryTime(run, itr, cq) = {Tag(run, itr, cq, m) : m \in {1}} BY <5>1 DEF QueryTime
        <5> QED BY <3>2, <4>1, <5>2
      <4>3. LineOf(cq + 1, 1) = LineOf(cq, 1) + 1 BY <3>1, <3>3, <3>8, <4>1
      <4>4. pos' + 1 = LineOf(cq + 1, 1) BY <1>1, <3>5, <4>1, <4>3
      <4>5. Len(all) = cq /\ cq = (cq + 1) - 1 BY <1>a, <1>c, <3>5
      <4>6. ASSUME NEW q \in 1..cq PROVE all[q] = QueryTime(run, itr, q)
        <5>1. CASE q = cq
          <6>1. Len(run_times) + 1 = cq BY <1>a, <3>5
          <6>2. all[cq] = QueryTime(run, itr, cq) BY <1>c, <4>2, <6>1
          <6> QED BY <5>1, <6>2
        <5>2. CASE q # cq
          <6>1. q \in 1..(cq - 1) BY <1>a, <5>2
          <6> QED BY <1>c, <3>5, <6>1
        <5> QED BY <5>1, <5>2
      <4>7. cq + 1 \in 1..(NumQueries + 1) /\ 0 < (IF cq + 1 = ViewQuery THEN ViewStmts ELSE 1) BY <3>1
      <4> QED BY <3>5, <3>8, <4>1, <4>4, <4>5, <4>6, <4>7
    <3>9. CASE /\ cq = ViewQuery /\ rc + 1 = ViewStmts /\ run_times' = sum /\ current_query' = cq + 1
               /\ run_time_sum' = {} /\ run_time_count' = 0
      <4>2. run_time_sum \cup {t} = QueryTime(run, itr, cq)
        <5>1. Stmts(cq) = rc + 1 BY <3>1, <3>9
        <5> QED BY <3>2, <3>5, <3>6, <3>9, <5>1 DEF QueryTime
      <4>3. LineOf(cq + 1, 1) = LineOf(cq, rc + 1) + 1 BY <3>1, <3>3, <3>9
      <4>4. pos' + 1 = LineOf(cq + 1, 1) BY <1>1, <3>5, <4>3
      <4>5. Len(sum) = cq /\ cq = (cq + 1) - 1 BY <1>a, <1>d, <3>5
      <4>6. ASSUME NEW q \in 1..cq PROVE sum[q] = QueryTime(run, itr, q)
        <5>1. CASE q = cq
          <6>1. Len(run_times) + 1 = cq BY <1>a, <3>5
          <6>2. sum[cq] = QueryTime(run, itr, cq) BY <1>d, <4>2, <6>1
          <6> QED BY <5>1, <6>2
        <5>2. CASE q # cq
          <6>1. q \in 1..(cq - 1) BY <1>a, <5>2
          <6> QED BY <1>d, <3>5, <6>1
        <5> QED BY <5>1, <5>2
      <4>7. cq + 1 \in 1..(NumQueries + 1) /\ 0 < (IF cq + 1 = ViewQuery THEN ViewStmts ELSE 1) BY <3>1
      <4> QED BY <3>4, <3>9, <4>4, <4>5, <4>6, <4>7
    <3>10. CASE /\ cq = ViewQuery /\ rc + 1 # ViewStmts /\ run_times' = run_times /\ current_query' = cq
                /\ run_time_sum' = run_time_sum \cup {t} /\ run_time_count' = rc + 1
      <4>1. rc + 1 < ViewStmts BY <1>a, <3>1, <3>5, <3>10
      <4>2. run_time_sum' = {Tag(run, itr, ViewQuery, m) : m \in 1..(rc + 1)} BY <3>2, <3>5, <3>6, <3>10
      <4>3. pos' + 1 = LineOf(cq, (rc + 1) + 1) BY <1>1, <3>1, <3>3, <3>5, <3>10, <4>1
      <4>4. cq \in 1..(NumQueries + 1) /\ rc + 1 \in Nat BY <1>a, <3>1
      <4>5. current_query' = cq /\ run_time_count' = rc + 1 /\ run_times' = run_times /\ cq = ViewQuery BY <3>10
      <4>6. pos' + 1 = LineOf(current_query', run_time_count' + 1) BY <4>3, <4>5
      <4>7. /\ Len(run_times') = current_query' - 1
            /\ \A q \in 1..(current_query' - 1) : run_times'[q] = QueryTime(run, itr, q)
        BY <3>5, <4>5
      <4> QED BY <4>1, <4>2, <4>4, <4>5, <4>6, <4>7
    <3> QED BY <1>x, <3>8, <3>9, <3>10
  <2>2. Fresh' <=> Fresh BY <1>1 DEF Fresh
  <2>3. ASSUME Fresh', NEW n \in 1..Len(tmp') PROVE Printed(n)' BY <1>0, <1>1, <2>2, <2>3 DEF FileInv, Printed
  <2>4. Fresh' => Len(tmp') + 1 = LineOf(gq, gk)' BY <1>0, <1>1, <2>2 DEF FileInv, guest, LineOf
  <2> QED BY <1>1, <2>1, <2>2, <2>3, <2>4 DEF FileInv
<1>4. GuestInv' BY <1>0, <1>1 DEF GuestInv, guest, Stmts
<1>5. LaterInv' BY <1>1, SameReport
<1>6. ItrInv' BY <1>0, <1>1 DEF ItrInv
<1> QED BY <1>2, <1>3, <1>4, <1>5, <1>6 DEF IInv

(* The rows that save_to_csv writes for a fresh file have the times of their  *)
(* own queries.                                                               *)
LEMMA SavedRows ==
  ASSUME IInv, pc = "clean", Fresh
  PROVE  \A q \in 1..Len(run_times) : run_times[q] = QueryTime(run, itr, q)
<1>1. Walk BY DEF IInv, FileInv
<1> QED BY <1>1, QueriesAssumption DEF Walk

(* At the end of a fresh file the script is at the statement that the guest   *)
(* was at: both count the lines, and lines differ.  So it has the rows of the *)
(* queries that the guest finished, all of them if it has read them all.      *)
LEMMA AllSaved ==
  ASSUME IInv, pc = "clean", Fresh, pos = Len(tmp) \/ current_query > NumQueries
  PROVE  Len(run_times) = gq - 1
<1>0. TypeOK /\ FileInv /\ GuestInv BY DEF IInv
<1>1. Walk /\ Len(tmp) + 1 = LineOf(gq, gk) /\ \A n \in 1..Len(tmp) : Printed(n) BY <1>0 DEF FileInv
<1>2. gq \in 1..(NumQueries + 1) /\ gk \in 1..Stmts(gq) BY <1>0 DEF GuestInv
<1>3. NumQueries \in Nat \ {0} /\ ViewQuery \in 1..NumQueries /\ ViewStmts \in Nat \ {0, 1} BY QueriesAssumption
<1>4. /\ current_query \in 1..(NumQueries + 1) /\ run_time_count \in Nat
      /\ run_time_count + 1 \in 1..Stmts(current_query)
      /\ pos + 1 = LineOf(current_query, run_time_count + 1) /\ Len(run_times) = current_query - 1
  BY <1>1, <1>3 DEF Walk, Stmts
<1>5. CASE pos = Len(tmp)
  <2>1. LineOf(current_query, run_time_count + 1) = LineOf(gq, gk) BY <1>1, <1>4, <1>5
  <2>2. current_query = gq BY <1>2, <1>4, <2>1, LinesDiffer
  <2> QED BY <1>4, <2>2
<1>6. CASE pos # Len(tmp) /\ current_query > NumQueries
  <2>1. current_query = NumQueries + 1 /\ run_time_count = 0 BY <1>1, <1>3, <1>4, <1>6 DEF Walk
  <2>2. pos <= Len(tmp) BY <1>1 DEF Walk
  <2>3. pos \in Nat /\ Len(tmp) \in Nat BY <1>0, LenProperties DEF TypeOK
  <2> QED BY <1>1, <1>2, <1>3, <1>4, <1>6, <2>1, <2>2, <2>3 DEF LineOf, Stmts
<1> QED BY <1>5, <1>6

(* The script writes its rows.                                                *)
LEMMA SaveToCsvKeeps ==
  ASSUME IInv, SaveToCsv
  PROVE  IInv'
<1> DEFINE old == IF itr = 1 THEN <<>> ELSE csv
           R == [q \in 1..Len(run_times) |-> Row(itr, q, run_times[q])]
           c == old \o R
<1>0. TypeOK /\ ItrInv /\ FileInv /\ GuestInv BY DEF IInv
<1>1. /\ pc = "clean" /\ csv' = c /\ itr' = itr + 1 /\ pc' = "rm" /\ run' = run /\ faults' = faults /\ tmp' = tmp
      /\ guest' = guest /\ python' = python
  BY DEF SaveToCsv
<1>a. /\ R \in Seq(CsvRows) /\ Len(R) = Len(run_times)
      /\ \A n \in 1..Len(run_times) : R[n].itr = itr /\ R[n].q = n /\ R[n].time = run_times[n]
  BY <1>0, RowsOf DEF TypeOK
<1>b. old \in Seq(CsvRows) /\ Len(old) \in Nat /\ Len(R) \in Nat
  <2>1. csv \in Seq(CsvRows) /\ <<>> \in Seq(CsvRows) BY <1>0, EmptySeq DEF TypeOK, CsvRows
  <2>2. old \in Seq(CsvRows) BY <2>1
  <2> HIDE DEF old, R
  <2> QED BY <1>a, <2>2, LenProperties
<1>c. itr = 1 => Len(old) = 0 BY EmptySeq
<1>d. itr # 1 => old = csv OBVIOUS
<1> HIDE DEF old, R
<1>e. /\ c \in Seq(CsvRows) /\ Len(c) = Len(old) + Len(R)
      /\ \A n \in 1..(Len(old) + Len(R)) : c[n] = IF n <= Len(old) THEN old[n] ELSE R[n - Len(old)]
  <2>1. old \in Seq(CsvRows) /\ R \in Seq(CsvRows) BY <1>a, <1>b
  <2> QED BY <2>1, ConcatProperties
<1> HIDE DEF c
<1>2. TypeOK'
  <2>1. csv' \in Seq([itr : Nat, q : Nat, time : SUBSET Tags]) BY <1>1, <1>e DEF CsvRows
  <2> QED BY <1>0, <1>1, <2>1 DEF TypeOK, guest, python, Labels
<1>3. FileInv' BY <1>1 DEF FileInv
<1>4. GuestInv' BY <1>0, <1>1 DEF GuestInv, guest, Stmts
<1>5. LaterInv'
  <2>0. run \in Nat /\ itr \in Nat /\ itr > 0 BY <1>0, <1>1 DEF TypeOK, ItrInv
  <2>1. ASSUME itr # 1 PROVE Later(run)
    <3>1. itr > 1 BY <2>0, <2>1
    <3> QED BY <1>1, <3>1 DEF IInv, LaterInv
  <2>2. ASSUME NEW n \in 1..Len(c), c[n].itr > 1 PROVE c[n].time = QueryTime(run, c[n].itr, c[n].q)
    <3>1. CASE n <= Len(old)
      <4>1. n \in 1..Len(old) /\ c[n] = old[n] BY <1>b, <1>e, <3>1
      <4>2. itr # 1 /\ old = csv BY <1>b, <1>c, <1>d, <4>1
      <4> QED BY <2>1, <2>2, <4>1, <4>2 DEF Later
    <3>2. CASE ~(n <= Len(old))
      <4> DEFINE m == n - Len(old)
      <4>1. m \in 1..Len(run_times) /\ c[n] = R[m] BY <1>a, <1>b, <1>e, <3>2
      <4> HIDE DEF m
      <4>2. c[n].itr = itr /\ c[n].q = m /\ c[n].time = run_times[m] BY <1>a, <4>1
      <4>3. Fresh BY <2>2, <4>2 DEF Fresh
      <4> QED BY <1>1, <4>1, <4>2, <4>3, SavedRows
    <3> QED BY <3>1, <3>2
  <2>3. Later(run)' BY <1>1, <2>2 DEF Later, QueryTime, Stmts
  <2> QED BY <1>1, <2>0, <2>3 DEF LaterInv
<1>6. ItrInv' BY <1>0, <1>1 DEF ItrInv, TypeOK
<1> QED BY <1>2, <1>3, <1>4, <1>5, <1>6 DEF IInv

(* rm: the next iteration starts with an empty file.                          *)
LEMMA RemoveTmpKeeps ==
  ASSUME IInv, RemoveTmp
  PROVE  IInv'
<1>0. TypeOK /\ ItrInv /\ FileInv /\ GuestInv BY DEF IInv
<1>1. /\ pc = "rm" /\ run' = run /\ itr' = itr /\ pc' \in {"idle", "boot"} /\ faults' = faults /\ csv' = csv
      /\ tmp' = <<>> /\ guest' = guest /\ python' = python
  BY DEF RemoveTmp
<1>2. TypeOK'
  <2>1. tmp' \in Seq(Tags) BY <1>1, EmptySeq
  <2> QED BY <1>0, <1>1, <2>1 DEF TypeOK, guest, python, Labels
<1>3. FileInv' BY <1>1 DEF FileInv
<1>4. GuestInv' BY <1>0, <1>1 DEF GuestInv, guest, Stmts
<1>5. LaterInv' BY <1>1, SameReport
<1>6. ItrInv' BY <1>0, <1>1 DEF ItrInv
<1> QED BY <1>2, <1>3, <1>4, <1>5, <1>6 DEF IInv

(* Ctrl-C leaves the file as it is.                                           *)
LEMMA KillKeeps ==
  ASSUME IInv, Kill
  PROVE  IInv'
<1>0. TypeOK /\ ItrInv /\ FileInv /\ GuestInv BY DEF IInv
<1>1. /\ "kill" \in faults /\ run' = run /\ itr' = itr /\ pc' = "idle" /\ faults' = faults /\ csv' = csv
      /\ tmp' = tmp /\ guest' = guest /\ python' = python
  BY DEF Kill
<1>2. TypeOK' BY <1>0, <1>1 DEF TypeOK, guest, python, Labels
<1>3. FileInv' BY <1>1 DEF FileInv
<1>4. GuestInv' BY <1>0, <1>1 DEF GuestInv, guest, Stmts
<1>5. LaterInv' BY <1>1, SameReport
<1>6. ItrInv' BY <1>1 DEF ItrInv
<1> QED BY <1>2, <1>3, <1>4, <1>5, <1>6 DEF IInv

(* A step that changes nothing keeps the invariant.                           *)
LEMMA Stutters == IInv /\ UNCHANGED vars => IInv'
<1> SUFFICES ASSUME IInv, UNCHANGED vars PROVE IInv' OBVIOUS
<1>0. TypeOK /\ ItrInv /\ FileInv /\ GuestInv BY DEF IInv
<1>1. /\ run' = run /\ itr' = itr /\ pc' = pc /\ faults' = faults /\ csv' = csv
      /\ tmp' = tmp /\ guest' = guest /\ python' = python
  BY DEF vars
<1>2. TypeOK' BY <1>0, <1>1 DEF TypeOK, guest, python, Labels
<1>3. FileInv'
  <2>1. (Fresh' <=> Fresh) /\ (Walk => Walk') BY <1>1 DEF Fresh, Walk, python
  <2>2. ASSUME NEW n \in 1..Len(tmp) PROVE Printed(n) => Printed(n)' BY <1>1 DEF Printed
  <2> QED BY <1>0, <1>1, <2>1, <2>2 DEF FileInv, guest
<1>4. GuestInv' BY <1>0, <1>1 DEF GuestInv, guest, Stmts
<1>5. LaterInv' BY <1>1, SameReport
<1>6. ItrInv' BY <1>0, <1>1 DEF ItrInv
<1> QED BY <1>2, <1>3, <1>4, <1>5, <1>6 DEF IInv

(* Every step keeps the invariant.                                            *)
LEMMA Inductive == IInv /\ [Next]_vars => IInv'
BY StartKeeps, LoadKeeps, BootKeeps, StatementKeeps, GuestEndsKeeps, ExtractLineKeeps, SaveToCsvKeeps,
   RemoveTmpKeeps, KillKeeps, Stutters DEF Next

(* The invariant holds in every state.                                        *)
LEMMA Always == Spec => []IInv
BY Starts, Inductive, PTL DEF Spec
-----------------------------------------------------------------------------
(* The scripts' variables and the two files keep their types.                 *)
THEOREM TypeCorrect == Spec => []TypeOK
<1>1. IInv => TypeOK BY DEF IInv
<1> QED BY <1>1, Always, PTL

(* osv/benchmark.sh:71: whatever was interrupted, and whichever guests died,  *)
(* the rows of every iteration but the first have the times of their own      *)
(* queries in one invocation, as the file was removed before that iteration.  *)
THEOREM LaterRowsAreOwn == Spec => []LaterRowsOwn
<1>1. ASSUME IInv PROVE LaterRowsOwn
  <2>1. PICK r \in 0..run : Later(r) BY <1>1 DEF IInv, LaterInv
  <2>2. csv \in Seq(CsvRows) BY <1>1 DEF IInv, TypeOK, CsvRows
  <2>3. DOMAIN csv = 1..Len(csv) BY <2>2, LenProperties
  <2> QED BY <2>1, <2>3 DEF LaterRowsOwn, Later
<1> QED BY <1>1, Always, PTL

(* queries/query15.sql: after the drop of query 15 there is no revenue0,      *)
(* whether or not the create before it failed.                                *)
THEOREM ViewIsDropped == Spec => []ViewDropped
<1>1. ASSUME IInv PROVE ViewDropped
  <2>1. gq > NumQueries => gq > ViewQuery BY <1>1, QueriesAssumption DEF IInv, GuestInv
  <2> QED BY <1>1, <2>1 DEF IInv, GuestInv, ViewDropped
<1> QED BY <1>1, Always, PTL

(* osv/benchmark.sh:56-74 with clean-queries-time.py: without an              *)
(* interruption, every step of the loop is a step of PowerReport or leaves    *)
(* the report alone: a new invocation, or a whole iteration of rows in query  *)
(* order, one for every query the guest finished and no other, each with the  *)
(* time of its own query.                                                     *)
THEOREM LoopIsReport == Spec => ImplementsReport
<1> DEFINE A == "kill" \in faults \/ ReportNext(gq - 1)
<1>1. ASSUME IInv, Next PROVE A \/ UNCHANGED <<run, itr, csv>>
  <2>1. CASE Start
    <3>1. BeginRun BY <2>1 DEF Start, BeginRun
    <3> QED BY <3>1 DEF ReportNext
  <2>2. CASE SaveToCsv
    <3> SUFFICES ASSUME "kill" \notin faults PROVE SaveIteration(gq - 1) BY DEF ReportNext
    <3>1. pc = "clean" /\ Fresh BY <2>2 DEF SaveToCsv, Fresh
    <3>2. Len(run_times) = gq - 1 /\ \A q \in 1..Len(run_times) : run_times[q] = QueryTime(run, itr, q)
      BY <1>1, <2>2, <3>1, SavedRows, AllSaved DEF SaveToCsv
    <3>3. [q \in 1..Len(run_times) |-> Row(itr, q, run_times[q])] = IterationRows(run, itr, gq - 1)
      BY <3>2 DEF IterationRows
    <3>4. itr > 0 BY <1>1, <3>1 DEF IInv, ItrInv
    <3>5. /\ csv' = (IF itr = 1 THEN <<>> ELSE csv) \o IterationRows(run, itr, gq - 1)
          /\ itr' = itr + 1 /\ run' = run
      BY <2>2, <3>3 DEF SaveToCsv
    <3> QED BY <3>4, <3>5 DEF SaveIteration
  <2>3. CASE Load BY <2>3 DEF Load
  <2>4. CASE Boot BY <2>4 DEF Boot
  <2>5. CASE Statement BY <2>5 DEF Statement
  <2>6. CASE GuestEnds BY <2>6 DEF GuestEnds
  <2>7. CASE ExtractLine BY <2>7 DEF ExtractLine
  <2>8. CASE RemoveTmp BY <2>8 DEF RemoveTmp
  <2>9. CASE Kill BY <2>9 DEF Kill
  <2> QED BY <1>1, <2>1, <2>2, <2>3, <2>4, <2>5, <2>6, <2>7, <2>8, <2>9 DEF Next
<1>2. IInv /\ [Next]_vars => [A]_<<run, itr, csv>>
  <2>1. UNCHANGED vars => UNCHANGED <<run, itr, csv>> BY DEF vars
  <2> HIDE DEF A
  <2> QED BY <1>1, <2>1
<1>3. Init => ReportInit BY DEF Init
<1> QED BY <1>2, <1>3, Always, PTL DEF Spec, ImplementsReport
-----------------------------------------------------------------------------
(* The statement whose time is element n of the list.                         *)
Timed(n) == IF n < ViewQuery THEN Tag(run, itr, n, 1)
            ELSE IF n < ViewQuery + ViewStmts THEN Tag(run, itr, ViewQuery, n - ViewQuery + 1)
            ELSE Tag(run, itr, n - ViewStmts + 1, 1)

(* While a guest runs, and until its times are folded, the list has the time  *)
(* of every statement before the guest's next one.                            *)
ListInv == pc \in {"guest", "fold"} =>
  /\ itr > 0 /\ (itr = 1 => csv = <<>>)
  /\ gq \in 1..(NumQueries + 1) /\ gk \in 1..Stmts(gq) /\ Len(times) + 1 = LineOf(gq, gk)
  /\ \A n \in 1..Len(times) : times[n] = {Timed(n)}

(* The guest's next statement is one of query 15, but not the first.          *)
Inside15 == gq = ViewQuery /\ gk > 1

(* The rows of the report, which is always of this invocation.                *)
Own(row) ==
  /\ row.time \subseteq QueryTime(run, row.itr, row.q) /\ row.time # {}
  /\ row.q # ViewQuery => row.time = QueryTime(run, row.itr, row.q)
OwnInv == \A n \in 1..Len(csv) : Own(csv[n])

(* The inductive invariant.                                                   *)
UkInv == UnikraftTypeOK /\ ListInv /\ OwnInv
-----------------------------------------------------------------------------
(* What every step starts from.                                               *)
LEMMA UkBefore ==
  ASSUME UkInv
  PROVE  /\ run \in Nat /\ itr \in Nat /\ csv \in Seq(CsvRows) /\ times \in Seq(SUBSET Tags) /\ Len(times) \in Nat
         /\ faults \in SUBSET FaultNames /\ pc \in {"idle", "guest", "fold", "failed"} /\ gq \in Nat /\ gk \in Nat
         /\ ListInv /\ OwnInv
<1>1. times \in Seq(SUBSET Tags) BY DEF UkInv, UnikraftTypeOK
<1>2. csv \in Seq(CsvRows) BY DEF UkInv, UnikraftTypeOK, CsvRows
<1> QED BY <1>1, <1>2, LenProperties DEF UkInv, UnikraftTypeOK

(* And what is to be shown of it.                                             *)
LEMMA UkAfter ==
  ASSUME /\ run' \in Nat /\ itr' \in Nat /\ csv' \in Seq(CsvRows) /\ times' \in Seq(SUBSET Tags)
         /\ faults' \in SUBSET FaultNames /\ pc' \in {"idle", "guest", "fold", "failed"} /\ gq' \in Nat /\ gk' \in Nat
         /\ ListInv' /\ OwnInv'
  PROVE  UkInv'
BY DEF UkInv, UnikraftTypeOK, CsvRows

(* No guest has run.                                                          *)
LEMMA UkStarts == ASSUME UnikraftInit PROVE UkInv
<1>1. /\ faults \in SUBSET FaultNames /\ run = 0 /\ itr = 0 /\ csv = <<>> /\ pc = "idle" /\ times = <<>> /\ gq = 1 /\ gk = 1
  BY PowerLoopAssumption DEF UnikraftInit, ReportInit
<1>2. UnikraftTypeOK BY <1>1, EmptySeq DEF UnikraftTypeOK
<1>3. Len(csv) = 0 BY <1>1, EmptySeq
<1> QED BY <1>1, <1>2, <1>3 DEF UkInv, ListInv, OwnInv

(* open(output_file, "w"): the report of another invocation is gone.          *)
LEMMA UkStart == ASSUME UkInv, UnikraftStart PROVE UkInv' /\ BeginRun
<1>0. /\ run \in Nat /\ faults \in SUBSET FaultNames BY UkBefore
<1>1. /\ run' = run + 1 /\ itr' = 1 /\ csv' = <<>> /\ pc' = "guest" /\ gq' = 1 /\ gk' = 1 /\ times' = <<>> /\ faults' = faults
  BY DEF UnikraftStart
<1>2. Len(csv') = 0 /\ Len(times') = 0 /\ csv' \in Seq(CsvRows) /\ times' \in Seq(SUBSET Tags) BY <1>1, EmptySeq
<1>3. 1 \in 1..(NumQueries + 1) /\ 1 \in 1..Stmts(1) /\ LineOf(1, 1) = 1
  BY QueriesAssumption DEF Stmts, LineOf
<1>4. ListInv' BY <1>1, <1>2, <1>3 DEF ListInv
<1>5. OwnInv' BY <1>2 DEF OwnInv
<1>6. UkInv' BY <1>0, <1>1, <1>2, <1>4, <1>5, UkAfter
<1> QED BY <1>1, <1>6 DEF BeginRun

(* Line n of the output is the time of the n-th statement.                    *)
LEMMA TimedIs ==
  ASSUME NEW q \in 1..NumQueries, NEW k \in 1..Stmts(q)
  PROVE  Timed(LineOf(q, k)) = Tag(run, itr, q, k)
<1>0. NumQueries \in Nat /\ ViewQuery \in 1..NumQueries /\ ViewStmts \in Nat \ {0, 1} BY QueriesAssumption
<1>1. CASE q < ViewQuery BY <1>0, <1>1 DEF LineOf, Timed, Stmts
<1>2. CASE q = ViewQuery
  <2>1. k \in 1..ViewStmts /\ LineOf(q, k) = ViewQuery + (k - 1) BY <1>0, <1>2 DEF Stmts, LineOf
  <2>2. ~(LineOf(q, k) < ViewQuery) /\ LineOf(q, k) < ViewQuery + ViewStmts /\ LineOf(q, k) - ViewQuery + 1 = k
    BY <1>0, <2>1
  <2> QED BY <1>2, <2>2 DEF Timed
<1>3. CASE q > ViewQuery
  <2>1. k = 1 /\ LineOf(q, k) = q + ViewStmts - 1 BY <1>0, <1>3 DEF Stmts, LineOf
  <2>2. ~(LineOf(q, k) < ViewQuery) /\ ~(LineOf(q, k) < ViewQuery + ViewStmts) /\ LineOf(q, k) - ViewStmts + 1 = q
    BY <1>0, <1>3, <2>1
  <2> QED BY <2>1, <2>2 DEF Timed
<1> QED BY <1>0, <1>1, <1>2, <1>3

(* The guest prints the time of a statement, the next element of the list.    *)
LEMMA UkStatement == ASSUME UkInv, UnikraftStatement PROVE UkInv' /\ UNCHANGED <<run, itr, csv>>
<1>0. /\ run \in Nat /\ itr \in Nat /\ csv \in Seq(CsvRows) /\ times \in Seq(SUBSET Tags) /\ Len(times) \in Nat
      /\ faults \in SUBSET FaultNames /\ gq \in Nat /\ gk \in Nat /\ ListInv /\ OwnInv
  BY UkBefore
<1>1. /\ pc = "guest" /\ gq <= NumQueries /\ pc' = pc /\ run' = run /\ itr' = itr /\ csv' = csv /\ faults' = faults
      /\ times' = Append(times, {Tag(run, itr, gq, gk)})
      /\ IF gk < Stmts(gq) THEN gk' = gk + 1 /\ gq' = gq ELSE gk' = 1 /\ gq' = gq + 1
  BY DEF UnikraftStatement
<1>2. /\ itr > 0 /\ (itr = 1 => csv = <<>>)
      /\ gq \in 1..(NumQueries + 1) /\ gk \in 1..Stmts(gq) /\ Len(times) + 1 = LineOf(gq, gk)
      /\ \A n \in 1..Len(times) : times[n] = {Timed(n)}
  BY <1>0, <1>1 DEF ListInv
<1>3. gq \in 1..NumQueries BY <1>1, <1>2, QueriesAssumption
<1> DEFINE e == {Tag(run, itr, gq, gk)}
<1>4. e \in SUBSET Tags /\ times' = Append(times, e) BY <1>0, <1>1 DEF Tag, Tags
<1>5. e = {Timed(Len(times) + 1)} BY <1>2, <1>3, TimedIs
<1> HIDE DEF e
<1>6. /\ times' \in Seq(SUBSET Tags) /\ Len(times') = Len(times) + 1 /\ times'[Len(times) + 1] = e
      /\ \A n \in 1..Len(times) : times'[n] = times[n]
  BY <1>0, <1>4, AppendProperties
<1>7. /\ gq' \in 1..(NumQueries + 1) /\ gk' \in 1..Stmts(gq') /\ LineOf(gq', gk') = LineOf(gq, gk) + 1
  BY <1>1, <1>2, <1>3, NextLine
<1>8. \A n \in 1..Len(times') : times'[n] = {Timed(n)}
  <2>1. \A n \in 1..Len(times') : n \in 1..Len(times) \/ n = Len(times) + 1 BY <1>0, <1>6
  <2> QED BY <1>2, <1>5, <1>6, <2>1
<1>9. ListInv'
  <2>1. \A n : Timed(n)' = Timed(n) BY <1>1 DEF Timed
  <2>2. Len(times') + 1 = LineOf(gq', gk') BY <1>0, <1>2, <1>6, <1>7
  <2>3. Stmts(gq)' = Stmts(gq') /\ LineOf(gq, gk)' = LineOf(gq', gk') BY DEF Stmts, LineOf
  <2> QED BY <1>1, <1>2, <1>7, <1>8, <2>1, <2>2, <2>3 DEF ListInv
<1>10. OwnInv' BY <1>0, <1>1 DEF OwnInv, Own
<1>11. gq' \in Nat /\ gk' \in Nat BY <1>0, <1>1
<1>12. UkInv' BY <1>0, <1>1, <1>6, <1>9, <1>10, <1>11, UkAfter
<1> QED BY <1>1, <1>12

(* The guest is done, or dead; the list stays as it is.                       *)
LEMMA UkGuestEnds == ASSUME UkInv, UnikraftGuestEnds PROVE UkInv' /\ UNCHANGED <<run, itr, csv>>
<1>0. /\ run \in Nat /\ itr \in Nat /\ csv \in Seq(CsvRows) /\ times \in Seq(SUBSET Tags)
      /\ faults \in SUBSET FaultNames /\ gq \in Nat /\ gk \in Nat /\ ListInv /\ OwnInv
  BY UkBefore
<1>1. /\ pc = "guest" /\ pc' = "fold" /\ run' = run /\ itr' = itr /\ csv' = csv /\ faults' = faults
      /\ times' = times /\ gq' = gq /\ gk' = gk
  BY DEF UnikraftGuestEnds
<1>2. ListInv' BY <1>0, <1>1 DEF ListInv, Timed
<1>3. OwnInv' BY <1>0, <1>1 DEF OwnInv, Own
<1>4. UkInv' BY <1>0, <1>1, <1>2, <1>3, UkAfter
<1> QED BY <1>1, <1>4

(* IndexError: the report keeps the rows of the iterations before.            *)
LEMMA UkRaise == ASSUME UkInv, RaiseIndexError PROVE UkInv' /\ UNCHANGED <<run, itr, csv>>
<1>0. /\ run \in Nat /\ itr \in Nat /\ csv \in Seq(CsvRows) /\ times \in Seq(SUBSET Tags)
      /\ faults \in SUBSET FaultNames /\ gq \in Nat /\ gk \in Nat /\ OwnInv
  BY UkBefore
<1>1. /\ pc' = "failed" /\ run' = run /\ itr' = itr /\ csv' = csv /\ faults' = faults
      /\ times' = times /\ gq' = gq /\ gk' = gk
  BY DEF RaiseIndexError
<1>2. ListInv' BY <1>1 DEF ListInv
<1>3. OwnInv' BY <1>0, <1>1 DEF OwnInv, Own
<1>4. UkInv' BY <1>0, <1>1, <1>2, <1>3, UkAfter
<1> QED BY <1>1, <1>4

(* The time of a query that is one statement, and parts of that of query 15.  *)
LEMMA TimeOf ==
  ASSUME NEW q \in Nat
  PROVE  /\ q # ViewQuery => QueryTime(run, itr, q) = {Tag(run, itr, q, 1)}
         /\ QueryTime(run, itr, ViewQuery) = {Tag(run, itr, ViewQuery, k) : k \in 1..ViewStmts}
<1>1. 1..1 = {1} OBVIOUS
<1> QED BY <1>1 DEF QueryTime, Stmts

(* times[14] = sum(times[14:17]); del times[15:17] makes the list one of      *)
(* queries, also where Python clips the slices of a short list: the queries   *)
(* that the guest finished, unless it died inside query 15.                   *)
LEMMA FoldIs ==
  ASSUME UkInv, pc = "fold", Len(times) >= ViewQuery
  PROVE  /\ Folded \in Seq(SUBSET Tags)
         /\ \A q \in 1..Len(Folded) :
              /\ Folded[q] \subseteq QueryTime(run, itr, q) /\ Folded[q] # {}
              /\ q # ViewQuery => Folded[q] = QueryTime(run, itr, q)
         /\ ~Inside15 => Len(Folded) = gq - 1 /\ Folded[ViewQuery] = QueryTime(run, itr, ViewQuery)
<1>0. /\ run \in Nat /\ itr \in Nat /\ times \in Seq(SUBSET Tags) /\ Len(times) \in Nat /\ ListInv BY UkBefore
<1>1. NumQueries \in Nat \ {0} /\ ViewQuery \in 1..NumQueries /\ ViewStmts \in Nat \ {0, 1} BY QueriesAssumption
<1>2. /\ gq \in 1..(NumQueries + 1) /\ gk \in 1..Stmts(gq) /\ Len(times) + 1 = LineOf(gq, gk)
      /\ \A n \in 1..Len(times) : times[n] = {Timed(n)}
  BY <1>0 DEF ListInv
<1> DEFINE E == SliceEnd
           A == SubSeq(times, 1, ViewQuery - 1)
           m == UNION {times[n] : n \in ViewQuery..E}
           B == SubSeq(times, E + 1, Len(times))
           F == Folded
<1>3. E \in ViewQuery..(ViewQuery + ViewStmts - 1) /\ E <= Len(times) /\ (E < Len(times) => E = ViewQuery + ViewStmts - 1)
  BY <1>0, <1>1 DEF SliceEnd
<1>4. F = A \o <<m>> \o B BY DEF Folded
<1>5. ~Inside15 => Len(times) = (gq - 1) + ViewStmts - 1 /\ E = ViewQuery + ViewStmts - 1
  BY <1>0, <1>1, <1>2, <1>3 DEF LineOf, Stmts, SliceEnd, Inside15
<1> HIDE DEF F, E
<1>6. \A n \in 1..Len(times) : times[n] \in SUBSET Tags BY <1>0, ElementOfSeq
<1>7. A \in Seq(SUBSET Tags) /\ Len(A) = ViewQuery - 1 /\ \A q \in 1..(ViewQuery - 1) : A[q] = times[q]
  <2>1. \A n \in 1..(ViewQuery - 1) : times[n] \in SUBSET Tags BY <1>0, <1>1, <1>6
  <2>2. A \in Seq(SUBSET Tags) BY <1>1, <2>1, SubSeqProperties
  <2>3. Len(A) = ViewQuery - 1 BY <1>1, <2>1, SubSeqProperties
  <2>4. \A q \in 1..(ViewQuery - 1) : A[q] = times[1 + q - 1] BY <1>1, <2>1, SubSeqProperties
  <2> QED BY <1>1, <2>2, <2>3, <2>4
<1>8. /\ B \in Seq(SUBSET Tags) /\ Len(B) = Len(times) - E
      /\ \A q \in 1..(Len(times) - E) : B[q] = times[E + q]
  <2>1. \A n \in (E + 1)..Len(times) : times[n] \in SUBSET Tags BY <1>0, <1>1, <1>3, <1>6
  <2>2. B \in Seq(SUBSET Tags) BY <1>0, <1>1, <1>3, <2>1, SubSeqProperties
  <2>3. Len(B) = IF E + 1 <= Len(times) THEN Len(times) - (E + 1) + 1 ELSE 0 BY <1>0, <1>1, <1>3, <2>1, SubSeqProperties
  <2>4. \A q \in 1..(Len(times) - (E + 1) + 1) : B[q] = times[E + 1 + q - 1] BY <1>0, <1>1, <1>3, <2>1, SubSeqProperties
  <2>5. E \in Nat BY <1>1, <1>3
  <2>6. Len(B) = Len(times) - E
    <3>1. CASE E + 1 <= Len(times) BY <1>0, <2>3, <2>5, <3>1
    <3>2. CASE ~(E + 1 <= Len(times))
      <4>1. Len(B) = 0 BY <2>3, <3>2
      <4>2. Len(times) - E = 0 BY <1>0, <1>3, <2>5, <3>2
      <4> QED BY <4>1, <4>2
    <3> QED BY <3>1, <3>2
  <2>7. ASSUME NEW q \in 1..(Len(times) - E) PROVE B[q] = times[E + q]
    <3>1. q \in 1..(Len(times) - (E + 1) + 1) /\ E + 1 + q - 1 = E + q BY <1>0, <2>5
    <3> QED BY <2>4, <3>1
  <2> HIDE DEF B
  <2> QED BY <2>2, <2>6, <2>7
<1>9. m = {Tag(run, itr, ViewQuery, k) : k \in 1..(E - ViewQuery + 1)} /\ m \in SUBSET Tags
  <2>1. \A n \in ViewQuery..E : times[n] = {Tag(run, itr, ViewQuery, n - ViewQuery + 1)}
    <3> SUFFICES ASSUME NEW n \in ViewQuery..E PROVE times[n] = {Tag(run, itr, ViewQuery, n - ViewQuery + 1)} OBVIOUS
    <3>1. n \in 1..Len(times) /\ ~(n < ViewQuery) /\ n < ViewQuery + ViewStmts BY <1>0, <1>1, <1>3
    <3> QED BY <1>2, <3>1 DEF Timed
  <2>2. ASSUME NEW x \in m PROVE \E k \in 1..(E - ViewQuery + 1) : x = Tag(run, itr, ViewQuery, k)
    <3>1. PICK n \in ViewQuery..E : x \in times[n] OBVIOUS
    <3>2. n - ViewQuery + 1 \in 1..(E - ViewQuery + 1) BY <1>1, <1>3
    <3> QED BY <2>1, <3>1, <3>2
  <2>3. ASSUME NEW k \in 1..(E - ViewQuery + 1) PROVE Tag(run, itr, ViewQuery, k) \in m
    <3>1. k + ViewQuery - 1 \in ViewQuery..E /\ (k + ViewQuery - 1) - ViewQuery + 1 = k BY <1>1, <1>3
    <3>2. times[k + ViewQuery - 1] = {Tag(run, itr, ViewQuery, k)} BY <2>1, <3>1
    <3> QED BY <3>1, <3>2
  <2>4. m \in SUBSET Tags
    <3>1. \A n \in ViewQuery..E : times[n] \in SUBSET Tags BY <1>0, <1>1, <1>3, <1>6
    <3> QED BY <3>1
  <2> HIDE DEF m
  <2> QED BY <2>2, <2>3, <2>4
<1> HIDE DEF A, B, m
<1>10. <<m>> \in Seq(SUBSET Tags) /\ Len(<<m>>) = 1 /\ <<m>>[1] = m BY <1>9
<1> DEFINE C == A \o <<m>>
<1>11. /\ C \in Seq(SUBSET Tags) /\ Len(C) = ViewQuery
       /\ (\A q \in 1..(ViewQuery - 1) : C[q] = times[q]) /\ C[ViewQuery] = m
  <2>1. /\ C \in Seq(SUBSET Tags) /\ Len(C) = Len(A) + 1
        /\ \A q \in 1..(Len(A) + 1) : C[q] = IF q <= Len(A) THEN A[q] ELSE <<m>>[q - Len(A)]
    BY <1>7, <1>10, ConcatProperties
  <2>2. ViewQuery - Len(A) = 1 BY <1>1, <1>7
  <2>3. Len(C) = ViewQuery BY <1>1, <1>7, <2>1
  <2>4. ASSUME NEW q \in 1..(ViewQuery - 1) PROVE C[q] = times[q]
    <3>1. q \in 1..(Len(A) + 1) /\ q <= Len(A) BY <1>1, <1>7
    <3> QED BY <1>7, <2>1, <3>1
  <2>5. C[ViewQuery] = m
    <3>1. ViewQuery \in 1..(Len(A) + 1) /\ ~(ViewQuery <= Len(A)) BY <1>1, <1>7
    <3>2. C[ViewQuery] = <<m>>[ViewQuery - Len(A)] BY <2>1, <3>1
    <3> QED BY <1>10, <2>2, <3>2
  <2> HIDE DEF C
  <2> QED BY <2>1, <2>3, <2>4, <2>5
<1>12. F = C \o B BY <1>4
<1> HIDE DEF C
<1>13. /\ F \in Seq(SUBSET Tags) /\ Len(F) = ViewQuery + (Len(times) - E)
       /\ \A q \in 1..Len(F) : F[q] = IF q <= ViewQuery THEN C[q] ELSE B[q - ViewQuery]
  <2>1. B \in Seq(SUBSET Tags) /\ C \in Seq(SUBSET Tags) BY <1>8, <1>11
  <2>2. F \in Seq(SUBSET Tags) BY <1>12, <2>1, ConcatProperties
  <2>3. Len(F) = Len(C) + Len(B) BY <1>12, <2>1, ConcatProperties
  <2>4. \A q \in 1..(Len(C) + Len(B)) : F[q] = IF q <= Len(C) THEN C[q] ELSE B[q - Len(C)]
    BY <1>12, <2>1, ConcatProperties
  <2>5. Len(C) = ViewQuery /\ Len(B) = Len(times) - E BY <1>8, <1>11
  <2> QED BY <2>2, <2>3, <2>4, <2>5
<1>14. ASSUME NEW q \in 1..Len(F), q < ViewQuery PROVE F[q] = QueryTime(run, itr, q)
  <2>1. q \in 1..(ViewQuery - 1) /\ q \in 1..Len(times) /\ q # ViewQuery /\ q <= ViewQuery /\ q \in Nat
    BY <1>0, <1>1, <1>3, <1>13, <1>14
  <2>2. F[q] = {Timed(q)} BY <1>2, <1>11, <1>13, <2>1
  <2> QED BY <1>14, <2>1, <2>2, TimeOf DEF Timed
<1>15. ASSUME NEW q \in 1..Len(F), q > ViewQuery PROVE F[q] = QueryTime(run, itr, q)
  <2>1. /\ E = ViewQuery + ViewStmts - 1 /\ q - ViewQuery \in 1..(Len(times) - E) /\ ~(q <= ViewQuery)
        /\ E + (q - ViewQuery) = q + ViewStmts - 1
    BY <1>0, <1>1, <1>3, <1>13, <1>15
  <2>2. F[q] = times[q + ViewStmts - 1] BY <1>8, <1>13, <2>1
  <2>3. /\ q + ViewStmts - 1 \in 1..Len(times) /\ ~(q + ViewStmts - 1 < ViewQuery) /\ q \in Nat /\ q # ViewQuery
        /\ ~(q + ViewStmts - 1 < ViewQuery + ViewStmts) /\ q + ViewStmts - 1 - ViewStmts + 1 = q
    <3>1. q \in Nat /\ q > ViewQuery BY <1>13, <1>15, LenProperties
    <3>2. q + ViewStmts - 1 <= Len(times) BY <1>0, <1>1, <2>1, <3>1
    <3> QED BY <1>0, <1>1, <3>1, <3>2
  <2>4. Timed(q + ViewStmts - 1) = Tag(run, itr, q, 1)
    <3> DEFINE p == q + ViewStmts - 1
    <3>1. /\ ~(p < ViewQuery) /\ ~(p < ViewQuery + ViewStmts) /\ p - ViewStmts + 1 = q
      <4>1. q \in Nat /\ q > ViewQuery BY <1>15, <2>3
      <4> QED BY <1>1, <4>1
    <3> HIDE DEF p
    <3>2. Timed(p) = Tag(run, itr, q, 1) BY <3>1 DEF Timed
    <3> QED BY <3>2 DEF p
  <2> QED BY <1>2, <2>2, <2>3, <2>4, TimeOf
<1>16. ViewQuery \in 1..Len(F) /\ F[ViewQuery] = m BY <1>0, <1>1, <1>3, <1>11, <1>13
<1>17. m \subseteq QueryTime(run, itr, ViewQuery) /\ m # {} /\ (~Inside15 => m = QueryTime(run, itr, ViewQuery))
  <2>1. QueryTime(run, itr, ViewQuery) = {Tag(run, itr, ViewQuery, k) : k \in 1..ViewStmts} BY <1>1, TimeOf
  <2>2. 1 \in 1..(E - ViewQuery + 1) /\ \A k \in 1..(E - ViewQuery + 1) : k \in 1..ViewStmts BY <1>1, <1>3
  <2>3. ~Inside15 => E - ViewQuery + 1 = ViewStmts BY <1>1, <1>5
  <2> QED BY <1>9, <2>1, <2>2, <2>3
<1>18. ~Inside15 => Len(F) = gq - 1 BY <1>1, <1>2, <1>5, <1>13
<1>19. ASSUME NEW q \in 1..Len(F)
       PROVE  /\ F[q] \subseteq QueryTime(run, itr, q) /\ F[q] # {}
              /\ q # ViewQuery => F[q] = QueryTime(run, itr, q)
  <2>1. q \in Nat /\ (q < ViewQuery \/ q > ViewQuery \/ q = ViewQuery) BY <1>1, <1>13, LenProperties
  <2>2. q # ViewQuery => F[q] = QueryTime(run, itr, q) BY <1>14, <1>15, <2>1
  <2>3. q # ViewQuery => QueryTime(run, itr, q) # {} BY <2>1, TimeOf
  <2> QED BY <1>16, <1>17, <2>2, <2>3
<1> QED BY <1>13, <1>16, <1>17, <1>18, <1>19 DEF F

(* The rows of an iteration are added to those of the iterations before; they *)
(* are those of the queries that its guest finished, unless it died inside    *)
(* query 15.                                                                  *)
LEMMA UkWriteRows == ASSUME UkInv, WriteRows PROVE UkInv' /\ (Inside15 \/ SaveIteration(gq - 1))
<1>0. /\ run \in Nat /\ itr \in Nat /\ csv \in Seq(CsvRows) /\ faults \in SUBSET FaultNames /\ ListInv /\ OwnInv
  BY UkBefore
<1> DEFINE L == Folded
           R == [q \in 1..Len(L) |-> Row(itr, q, L[q])]
           c == csv \o R
<1>1. /\ pc = "fold" /\ Len(times) >= ViewQuery /\ csv' = c /\ itr' = itr + 1 /\ pc' \in {"guest", "idle"}
      /\ gq' = 1 /\ gk' = 1 /\ times' = <<>> /\ faults' = faults /\ run' = run
  <2>1. [q \in 1..Len(L) |-> Row(itr, q, L[q])] = R OBVIOUS
  <2> QED BY <2>1 DEF WriteRows
<1>2. /\ L \in Seq(SUBSET Tags)
      /\ \A q \in 1..Len(L) :
           /\ L[q] \subseteq QueryTime(run, itr, q) /\ L[q] # {}
           /\ q # ViewQuery => L[q] = QueryTime(run, itr, q)
      /\ ~Inside15 => Len(L) = gq - 1 /\ L[ViewQuery] = QueryTime(run, itr, ViewQuery)
  BY <1>1, FoldIs
<1>3. itr > 0 /\ (itr = 1 => csv = <<>>) BY <1>0, <1>1 DEF ListInv
<1> HIDE DEF L
<1>4. /\ R \in Seq(CsvRows) /\ Len(R) = Len(L) /\ Len(L) \in Nat
      /\ \A n \in 1..Len(L) : R[n].itr = itr /\ R[n].q = n /\ R[n].time = L[n]
  BY <1>0, <1>2, RowsOf, LenProperties
<1>5. ~Inside15 => SaveIteration(gq - 1)
  <2> SUFFICES ASSUME ~Inside15 PROVE SaveIteration(gq - 1) OBVIOUS
  <2>1. Len(L) = gq - 1 /\ \A q \in 1..Len(L) : L[q] = QueryTime(run, itr, q) BY <1>2
  <2>2. R = [q \in 1..(gq - 1) |-> Row(itr, q, QueryTime(run, itr, q))] BY <2>1
  <2>3. R = IterationRows(run, itr, gq - 1) BY <2>2 DEF IterationRows
  <2>4. csv = IF itr = 1 THEN <<>> ELSE csv BY <1>3
  <2> HIDE DEF R
  <2> QED BY <1>1, <1>3, <2>3, <2>4 DEF SaveIteration
<1> HIDE DEF R
<1>6. c \in Seq(CsvRows) /\ Len(c) = Len(csv) + Len(L)
  <2>1. c \in Seq(CsvRows) BY <1>0, <1>4, ConcatProperties
  <2>2. Len(c) = Len(csv) + Len(R) BY <1>0, <1>4, ConcatProperties
  <2> QED BY <1>4, <2>1, <2>2
<1>7. \A n \in 1..(Len(csv) + Len(R)) : c[n] = IF n <= Len(csv) THEN csv[n] ELSE R[n - Len(csv)]
  BY <1>0, <1>4, ConcatProperties
<1> HIDE DEF c
<1>8. ASSUME NEW n \in 1..Len(c) PROVE Own(c[n])
  <2>0. Len(csv) \in Nat BY <1>0, LenProperties
  <2>1. n \in 1..(Len(csv) + Len(R)) BY <1>4, <1>6
  <2>2. CASE n <= Len(csv)
    <3>1. n \in 1..Len(csv) /\ c[n] = csv[n] BY <1>7, <2>0, <2>1, <2>2
    <3> QED BY <1>0, <3>1 DEF OwnInv
  <2>3. CASE ~(n <= Len(csv))
    <3> DEFINE q == n - Len(csv)
    <3>1. q \in 1..Len(L) BY <1>4, <2>0, <2>1, <2>3
    <3>2. c[n] = R[q] BY <1>7, <2>1, <2>3
    <3> HIDE DEF q
    <3>3. c[n].itr = itr /\ c[n].q = q /\ c[n].time = L[q] BY <1>4, <3>1, <3>2
    <3> QED BY <1>2, <3>1, <3>3 DEF Own
  <2> QED BY <2>2, <2>3
<1>9. OwnInv' BY <1>1, <1>8 DEF OwnInv, Own, QueryTime, Stmts
<1>10. Len(times') = 0 /\ times' \in Seq(SUBSET Tags) BY <1>1, EmptySeq
<1>11. 1 \in 1..(NumQueries + 1) /\ 1 \in 1..Stmts(1) /\ LineOf(1, 1) = 1
  BY QueriesAssumption DEF Stmts, LineOf
<1>12. itr' > 0 /\ itr' # 1 BY <1>0, <1>1, <1>3
<1>13. ListInv' BY <1>1, <1>10, <1>11, <1>12 DEF ListInv
<1>14. itr' \in Nat /\ csv' \in Seq(CsvRows) BY <1>0, <1>1, <1>6
<1>15. UkInv' BY <1>0, <1>1, <1>9, <1>10, <1>13, <1>14, UkAfter
<1> QED BY <1>5, <1>15

(* A step that changes nothing keeps the invariant.                           *)
LEMMA UkStutters == ASSUME UkInv, UNCHANGED unikraftVars PROVE UkInv'
<1>0. /\ run \in Nat /\ itr \in Nat /\ csv \in Seq(CsvRows) /\ times \in Seq(SUBSET Tags)
      /\ faults \in SUBSET FaultNames /\ gq \in Nat /\ gk \in Nat /\ ListInv /\ OwnInv
      /\ pc \in {"idle", "guest", "fold", "failed"}
  BY UkBefore
<1>1. /\ pc' = pc /\ run' = run /\ itr' = itr /\ csv' = csv /\ faults' = faults /\ times' = times /\ gq' = gq /\ gk' = gk
  BY DEF unikraftVars
<1>2. ListInv' BY <1>0, <1>1 DEF ListInv, Timed
<1>3. OwnInv' BY <1>0, <1>1 DEF OwnInv, Own
<1> QED BY <1>0, <1>1, <1>2, <1>3, UkAfter

(* Every step keeps the invariant.                                            *)
LEMMA UkInductive == UkInv /\ [UnikraftNext]_unikraftVars => UkInv'
BY UkStart, UkStatement, UkGuestEnds, UkWriteRows, UkRaise, UkStutters DEF UnikraftNext

(* The invariant holds in every state.                                        *)
LEMMA UkAlways == UnikraftSpec => []UkInv
<1>1. UnikraftInit => UkInv BY UkStarts
<1> QED BY <1>1, UkInductive, PTL DEF UnikraftSpec
-----------------------------------------------------------------------------
(* unikraft/benchmark.py's variables and its report keep their types.         *)
THEOREM UnikraftTypeCorrect == UnikraftSpec => []UnikraftTypeOK
<1>1. UkInv => UnikraftTypeOK BY DEF UkInv
<1> QED BY <1>1, UkAlways, PTL

(* unikraft/benchmark.py:38-41: wherever a guest dies, the slices of its      *)
(* short list shift no time to another query: a row has its own query's time, *)
(* or, for query 15, a part of it, in the running invocation.                 *)
THEOREM UnikraftNoForeignTime == UnikraftSpec => []NoForeignTime
<1>1. ASSUME UkInv PROVE NoForeignTime
  <2>1. csv \in Seq(CsvRows) /\ OwnInv BY <1>1, UkBefore
  <2>2. DOMAIN csv = 1..Len(csv) BY <2>1, LenProperties
  <2> QED BY <2>1, <2>2 DEF NoForeignTime, OwnInv, Own
<1> QED BY <1>1, UkAlways, PTL

(* unikraft/benchmark.py:19-45: unless a guest died inside query 15, every    *)
(* step of the loop is a step of PowerReport or leaves the report alone: a    *)
(* new invocation, or an iteration of rows, one for every query the guest     *)
(* finished and no other, each with its query's whole time.                   *)
THEOREM UnikraftIsReport == UnikraftSpec => FoldImplementsReport
<1> DEFINE A == (gq = ViewQuery /\ gk > 1) \/ ReportNext(gq - 1)
<1>1. ASSUME UkInv, UnikraftNext PROVE A \/ UNCHANGED <<run, itr, csv>>
  <2>1. CASE UnikraftStart BY <1>1, <2>1, UkStart DEF ReportNext
  <2>2. CASE UnikraftStatement BY <1>1, <2>2, UkStatement
  <2>3. CASE UnikraftGuestEnds BY <1>1, <2>3, UkGuestEnds
  <2>4. CASE WriteRows BY <1>1, <2>4, UkWriteRows DEF ReportNext, Inside15
  <2>5. CASE RaiseIndexError BY <1>1, <2>5, UkRaise
  <2> QED BY <1>1, <2>1, <2>2, <2>3, <2>4, <2>5 DEF UnikraftNext
<1>2. UNCHANGED unikraftVars => UNCHANGED <<run, itr, csv>> BY DEF unikraftVars
<1>3. UnikraftInit => ReportInit BY DEF UnikraftInit
<1> HIDE DEF A
<1>4. UkInv /\ [UnikraftNext]_unikraftVars => [A]_<<run, itr, csv>> BY <1>1, <1>2
<1>5. UnikraftSpec => ReportInit /\ [][A]_<<run, itr, csv>> BY <1>3, <1>4, UkAlways, PTL DEF UnikraftSpec
<1> QED BY <1>5 DEF FoldImplementsReport, A
=============================================================================
