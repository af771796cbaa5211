----------------------------- MODULE MainProofs -----------------------------
(***************************************************************************)
(* Proofs about main.c, in three parts: the queries (module PowerTest),    *)
(* the refresh functions (Refresh) and the loading of the tables           *)
(* (TableLoad).  They hold for any number of queries, of statements of     *)
(* query 15, of iterations and of runs, for files of any length and for    *)
(* every set of faults.                                                    *)
(*                                                                         *)
(* What the report shows is decided before its rows reach it: Timed says   *)
(* what main() has measured at each point of a query, HurtInv and PlaceInv *)
(* say of the rows in the buffer of the C library what the properties say  *)
(* of those in the file.                                                   *)
(*                                                                         *)
(* The other two parts say at each point what the open transaction has     *)
(* done to the tables on disk: TxnInv and PartInv.                         *)
(***************************************************************************)
EXTENDS PowerTest, Refresh, TableLoad, SequenceTheorems, FiniteSetTheorems, TLAPS

(* TypeOK, with the bounds of the loops.                                      *)
Times == SUBSET [run : Nat, itr : Nat, q : Nat, k : Nat]
CtlType ==
  /\ faults \in SUBSET FaultNames
  /\ pc \in {"idle", "open", "exec", "print"} /\ leg \in Legs /\ run \in Nat
  /\ itr \in Nat \ {0} /\ i \in 1..NumQueries /\ k \in Nat \ {0}
  /\ spent \in Times /\ view \in [Legs -> BOOLEAN]
RowType == stdout \in Seq(Rows) /\ csv \in Seq(Rows)

(* The statements of the query that come before its statement n.              *)
Before(n) == {Tag(run, itr, i, m) : m \in 1..(n - 1)}

(* revenue0 is in the database of the running leg, and not because query 15   *)
(* is just being executed: its create will fail.                              *)
Stuck == view[leg] /\ ~(pc = "exec" /\ i = ViewQuery /\ k > 1)

(* What is measured while a query is executed, and when it is.                *)
Timed ==
  "sql" \notin faults =>
    /\ pc = "exec" => k <= Stmts(i) /\ spent = Before(k)
    /\ pc = "print" => spent = QueryTime(run, itr, i) \/ (i = ViewQuery /\ spent = {} /\ Stuck)

(* A row has the time of its query, or is of a query 15 that could not start. *)
Hurt(row) == \/ row.time = QueryTime(run, row.itr, row.q)
             \/ row.q = ViewQuery /\ row.time = {} /\ Stuck
HurtInv ==
  "sql" \notin faults =>
    (\A n \in 1..Len(csv) : Hurt(csv[n])) /\ (\A n \in 1..Len(stdout) : Hurt(stdout[n]))

(* Row n of a report is of this iteration and query.                          *)
Place(n, j, q) == j = ((n - 1) \div NumQueries) + 1 /\ q = ((n - 1) % NumQueries) + 1
PlaceInv ==
  "nofile" \notin faults =>
    /\ \A n \in 1..Len(csv) : Place(n, csv[n].itr, csv[n].q)
    /\ \A n \in 1..Len(stdout) : Place(Len(csv) + n, stdout[n].itr, stdout[n].q)
    /\ pc # "idle" => Place(Len(csv) + Len(stdout) + 1, itr, i)

(* The inductive invariant.                                                   *)
IInv == CtlType /\ RowType /\ Timed /\ HurtInv /\ PlaceInv
-----------------------------------------------------------------------------
(* Quotient and remainder are unique.                                         *)
LEMMA Unique ==
  ASSUME NEW n \in Nat \ {0}, NEW a \in Nat, NEW r \in 0..(n - 1), NEW b \in Nat, NEW s \in 0..(n - 1),
         a * n + r = b * n + s
  PROVE  a = b /\ r = s
<1>1. ASSUME NEW w \in Nat, NEW d \in Nat, w < d PROVE w * n + n <= d * n
  <2>1. PICK e \in Nat : d = w + 1 + e BY <1>1
  <2>2. d * n = w * n + n + e * n BY <2>1
  <2>3. e * n >= 0 /\ e * n \in Nat /\ w * n \in Nat /\ d * n \in Nat OBVIOUS
  <2> QED BY <2>2, <2>3
<1>2. a * n \in Nat /\ b * n \in Nat OBVIOUS
<1>3. ~(a < b) BY <1>1, <1>2
<1>4. ~(b < a) BY <1>1, <1>2
<1> QED BY <1>2, <1>3, <1>4

(* What quotient and remainder are.                                           *)
LEMMA DivMod ==
  ASSUME NEW n \in Nat \ {0}, NEW x \in Nat
  PROVE  x \div n \in Nat /\ x % n \in 0..(n - 1) /\ x = (x \div n) * n + (x % n)
OBVIOUS

(* The two for loops of main() count the rows in base NumQueries.             *)
LEMMA Successor ==
  ASSUME NEW n \in Nat \ {0}, NEW x \in Nat, NEW y \in Nat, y = x + 1
  PROVE  IF x % n < n - 1 THEN y \div n = x \div n /\ y % n = (x % n) + 1
                          ELSE y \div n = (x \div n) + 1 /\ y % n = 0
<1> DEFINE a == x \div n
           r == x % n
           b == y \div n
           s == y % n
<1>1. a \in Nat /\ r \in 0..(n - 1) /\ x = a * n + r BY DivMod
<1>2. b \in Nat /\ s \in 0..(n - 1) /\ y = b * n + s BY DivMod
<1> HIDE DEF a, r, b, s
<1>3. CASE r < n - 1
  <2>1. r + 1 \in 0..(n - 1) BY <1>1, <1>3
  <2>2. a * n + (r + 1) = b * n + s BY <1>1, <1>2
  <2> QED BY <1>1, <1>2, <1>3, <2>1, <2>2, Unique DEF a, b, r, s
<1>4. CASE ~(r < n - 1)
  <2>1. (a + 1) * n = a * n + n BY <1>1
  <2>2. (a + 1) * n + 0 = b * n + s BY <1>1, <1>2, <1>4, <2>1
  <2>3. a + 1 \in Nat /\ 0 \in 0..(n - 1) BY <1>1
  <2>4. a + 1 = b /\ s = 0
    <3> HIDE DEF a
    <3> DEFINE w == a + 1
    <3>1. w \in Nat /\ w * n + 0 = b * n + s BY <2>2, <2>3
    <3> HIDE DEF w
    <3>2. w = b /\ 0 = s BY <1>2, <2>3, <3>1, Unique
    <3> QED BY <3>2 DEF w
  <2> QED BY <1>4, <2>4 DEF a, b, r, s
<1> QED BY <1>3, <1>4
-----------------------------------------------------------------------------
(* The two parts of the types.                                                *)
LEMMA TypeParts == CtlType /\ RowType => TypeOK
BY QueriesAssumption DEF CtlType, RowType, TypeOK, Times

(* Nothing has run, and the report is empty.                                  *)
LEMMA Starts == Init => IInv
<1> SUFFICES ASSUME Init PROVE IInv OBVIOUS
<1>1. <<>> \in Seq(Rows) /\ Len(<<>>) = 0 BY EmptySeq
<1>2. CtlType BY MainLoopAssumption, QueriesAssumption DEF Init, CtlType, Times
<1>3. RowType BY <1>1 DEF Init, RowType
<1>4. Timed BY DEF Init, Timed
<1>5. HurtInv BY <1>1 DEF Init, HurtInv
<1>6. PlaceInv BY <1>1 DEF Init, PlaceInv
<1> QED BY <1>2, <1>3, <1>4, <1>5, <1>6 DEF IInv

(* Rows that are as they should be stay so while revenue0 stays.              *)
LEMMA HurtNext ==
  ASSUME faults' = faults, run' = run, Stuck => Stuck',
         "sql" \notin faults => (\A n \in 1..Len(csv') : Hurt(csv'[n])) /\ (\A n \in 1..Len(stdout') : Hurt(stdout'[n]))
  PROVE  HurtInv'
<1>1. ASSUME "sql" \notin faults, NEW n \in 1..Len(csv') PROVE Hurt(csv[n])' BY <1>1 DEF Hurt
<1>2. ASSUME "sql" \notin faults, NEW n \in 1..Len(stdout') PROVE Hurt(stdout[n])' BY <1>2 DEF Hurt
<1> QED BY <1>1, <1>2 DEF HurtInv

(* A step that leaves the rows and the database alone.                        *)
LEMMA RowsStay ==
  ASSUME IInv, csv' = csv, stdout' = stdout, faults' = faults, run' = run, Stuck => Stuck'
  PROVE  HurtInv'
BY HurtNext DEF IInv, HurtInv

(* The same of the order of the rows.                                         *)
LEMMA PlacesStay ==
  ASSUME IInv, csv' = csv, stdout' = stdout, faults' = faults, pc' # "idle" => pc # "idle" /\ itr' = itr /\ i' = i
  PROVE  PlaceInv'
BY DEF IInv, PlaceInv, Place

(* benchmark.sh starts the program on an empty report.                        *)
LEMMA StartKeeps ==
  ASSUME IInv, NEW l \in Legs, Start(l)
  PROVE  IInv'
<1>1. <<>> \in Seq(Rows) /\ Len(<<>>) = 0 BY EmptySeq
<1>0. CtlType BY DEF IInv
<1>2. CtlType' BY <1>0, QueriesAssumption DEF Start, CtlType, Legs
<1>3. RowType' BY <1>1 DEF Start, RowType
<1>4. Timed' BY DEF Start, Timed
<1>5. HurtInv' BY <1>1 DEF Start, HurtInv
<1>6. PlaceInv'
  <2>1. csv' = <<>> /\ stdout' = <<>> /\ itr' = 1 /\ i' = 1 BY DEF Start
  <2>2. 0 \div NumQueries = 0 /\ 0 % NumQueries = 0
    <3>1. 0 = 0 * NumQueries + 0 BY QueriesAssumption
    <3>2. /\ 0 \div NumQueries \in Nat /\ 0 % NumQueries \in 0..(NumQueries - 1)
          /\ 0 = (0 \div NumQueries) * NumQueries + (0 % NumQueries)
      BY QueriesAssumption, DivMod
    <3> QED BY <3>1, <3>2, QueriesAssumption, Unique
  <2>3. Place(1, 1, 1) BY <2>2 DEF Place
  <2>4. Len(csv') = 0 /\ Len(stdout') = 0 /\ Len(csv') + Len(stdout') + 1 = 1 BY <1>1, <2>1
  <2> QED BY <2>1, <2>3, <2>4 DEF PlaceInv
<1> QED BY <1>2, <1>3, <1>4, <1>5, <1>6 DEF IInv

(* A query file is read and the clock started.                                *)
LEMMA OpenQueryKeeps ==
  ASSUME IInv, OpenQuery
  PROVE  IInv'
<1>0. CtlType /\ RowType /\ Timed BY DEF IInv
<1>1. /\ pc = "open" /\ pc' = "exec" /\ k' = 1 /\ spent' = {} /\ faults' = faults /\ leg' = leg /\ run' = run
      /\ itr' = itr /\ i' = i /\ view' = view /\ stdout' = stdout /\ csv' = csv
  BY DEF OpenQuery
<1>2. CtlType' BY <1>0, <1>1 DEF CtlType, Times
<1>3. RowType' BY <1>0, <1>1 DEF RowType
<1>4. Timed'
  <2>1. 1 <= Stmts(i) BY QueriesAssumption DEF Stmts
  <2>2. Before(1)' = {} BY DEF Before
  <2> QED BY <1>1, <2>1, <2>2 DEF Timed, Stmts
<1>5. HurtInv' BY <1>1, RowsStay DEF Stuck
<1>6. PlaceInv' BY <1>1, PlacesStay
<1> QED BY <1>2, <1>3, <1>4, <1>5, <1>6 DEF IInv

(* The loops go on after a row, or without one.                               *)
LEMMA AdvanceKeeps ==
  ASSUME CtlType, Advance, NEW n \in Nat \ {0}
  PROVE  /\ itr' \in Nat \ {0} /\ i' \in 1..NumQueries
         /\ Place(n, itr, i) => Place(n + 1, itr', i')
<1>1. itr \in Nat \ {0} /\ i \in 1..NumQueries /\ NumQueries \in Nat \ {0} BY QueriesAssumption DEF CtlType
<1>2. itr' \in Nat \ {0} /\ i' \in 1..NumQueries BY <1>1 DEF Advance
<1>3. ASSUME Place(n, itr, i) PROVE Place(n + 1, itr', i')
  <2> DEFINE x == n - 1
             y == (n + 1) - 1
  <2>1. x \in Nat /\ y \in Nat /\ y = x + 1 OBVIOUS
  <2>2. itr = (x \div NumQueries) + 1 /\ i = (x % NumQueries) + 1 BY <1>3 DEF Place
  <2>3. SUFFICES itr' = (y \div NumQueries) + 1 /\ i' = (y % NumQueries) + 1 BY DEF Place
  <2> HIDE DEF x, y
  <2>4. IF x % NumQueries < NumQueries - 1
        THEN y \div NumQueries = x \div NumQueries /\ y % NumQueries = (x % NumQueries) + 1
        ELSE y \div NumQueries = (x \div NumQueries) + 1 /\ y % NumQueries = 0
    BY <1>1, <2>1, Successor
  <2>5. x \div NumQueries \in Nat /\ x % NumQueries \in 0..(NumQueries - 1) BY <1>1, <2>1, DivMod
  <2>6. CASE i < NumQueries BY <1>1, <2>2, <2>4, <2>5, <2>6 DEF Advance
  <2>7. CASE ~(i < NumQueries) BY <1>1, <2>2, <2>4, <2>5, <2>7 DEF Advance
  <2> QED BY <2>6, <2>7
<1> QED BY <1>2, <1>3

(* A query file cannot be opened: there will be a gap in the report, and only *)
(* the fault set that allows it may reach this.                               *)
LEMMA CannotOpenKeeps ==
  ASSUME IInv, CannotOpen
  PROVE  IInv'
<1>0. CtlType /\ RowType BY DEF IInv
<1>1. /\ pc = "open" /\ pc' = pc /\ "nofile" \in faults /\ Advance /\ faults' = faults /\ leg' = leg /\ run' = run
      /\ k' = k /\ spent' = spent /\ view' = view /\ stdout' = stdout /\ csv' = csv
  BY DEF CannotOpen
<1>7. itr' \in Nat \ {0} /\ i' \in 1..NumQueries BY <1>0, <1>1, AdvanceKeeps
<1>2. CtlType' BY <1>0, <1>1, <1>7 DEF CtlType
<1>3. RowType' BY <1>0, <1>1 DEF RowType
<1>4. Timed' BY <1>1 DEF Timed
<1>5. HurtInv' BY <1>1, RowsStay DEF Stuck
<1>6. PlaceInv' BY <1>1 DEF PlaceInv
<1> QED BY <1>2, <1>3, <1>4, <1>5, <1>6 DEF IInv

(* sqlite3_exec executes a statement.                                         *)
LEMMA ExecStatementKeeps ==
  ASSUME IInv, ExecStatement
  PROVE  IInv'
<1>0. CtlType /\ RowType /\ Timed BY DEF IInv
<1>1. /\ pc = "exec" /\ ~(i = ViewQuery /\ k = 1 /\ view[leg]) /\ faults' = faults /\ leg' = leg /\ run' = run
      /\ itr' = itr /\ i' = i /\ stdout' = stdout /\ csv' = csv /\ k' = k + 1
      /\ spent' = spent \cup {Tag(run, itr, i, k)} /\ pc' = IF k = Stmts(i) THEN "print" ELSE "exec"
      /\ view' = IF i = ViewQuery THEN [view EXCEPT ![leg] = k < ViewStmts] ELSE view
  BY DEF ExecStatement
<1>a. Stmts(i) \in Nat \ {0} /\ Stmts(ViewQuery) = ViewStmts BY QueriesAssumption DEF Stmts
<1>b. Tag(run, itr, i, k) \in [run : Nat, itr : Nat, q : Nat, k : Nat]
  BY <1>0, QueriesAssumption DEF CtlType, Tag
<1>2. CtlType'
  <2>1. spent' \in Times BY <1>0, <1>1, <1>b DEF CtlType, Times
  <2>2. view' \in [Legs -> BOOLEAN] BY <1>0, <1>1 DEF CtlType
  <2> QED BY <1>0, <1>1, <2>1, <2>2 DEF CtlType
<1>3. RowType' BY <1>0, <1>1 DEF RowType
<1>c. k \in Nat \ {0} /\ leg \in Legs /\ view \in [Legs -> BOOLEAN] BY <1>0 DEF CtlType
<1>4. Timed'
  <2> SUFFICES ASSUME "sql" \notin faults
               PROVE  /\ pc' = "exec" => k' <= Stmts(i') /\ spent' = Before(k)'
                      /\ pc' = "print" => spent' = QueryTime(run', itr', i')
    BY <1>1 DEF Timed
  <2>1. k <= Stmts(i) /\ spent = Before(k) BY <1>0, <1>1 DEF Timed
  <2>2. spent' = {Tag(run, itr, i, m) : m \in 1..k}
    <3>1. 1..k = 1..(k - 1) \cup {k} BY <1>c
    <3> QED BY <1>1, <2>1, <3>1 DEF Before
  <2>3. pc' = "print" => spent' = QueryTime(run', itr', i') BY <1>1, <2>2 DEF QueryTime
  <2>4. pc' = "exec" => k' <= Stmts(i') BY <1>1, <1>a, <1>c, <2>1
  <2>5. spent' = Before(k)'
    <3>1. k' - 1 = k BY <1>1, <1>c
    <3> QED BY <1>1, <2>2, <3>1 DEF Before
  <2> QED BY <2>3, <2>4, <2>5
<1>5. HurtInv'
  <2>1. Stuck => Stuck'
    <3>1. ASSUME Stuck, i = ViewQuery PROVE FALSE BY <1>1, <1>c, <3>1 DEF Stuck
    <3>2. ASSUME Stuck, i # ViewQuery PROVE Stuck' BY <1>1, <3>2 DEF Stuck
    <3> QED BY <3>1, <3>2
  <2> QED BY <1>1, <2>1, RowsStay
<1>6. PlaceInv' BY <1>1, PlacesStay
<1> QED BY <1>2, <1>3, <1>4, <1>5, <1>6 DEF IInv

(* sqlite3_exec returns at a statement that fails.                            *)
LEMMA ExecErrorKeeps ==
  ASSUME IInv, ExecError
  PROVE  IInv'
<1>0. CtlType /\ RowType /\ Timed BY DEF IInv
<1>1. /\ pc = "exec" /\ ((i = ViewQuery /\ k = 1 /\ view[leg]) \/ "sql" \in faults)
      /\ pc' = "print" /\ faults' = faults /\ leg' = leg /\ run' = run
      /\ itr' = itr /\ i' = i /\ stdout' = stdout /\ csv' = csv /\ k' = k /\ spent' = spent /\ view' = view
  BY DEF ExecError
<1>2. CtlType' BY <1>0, <1>1 DEF CtlType
<1>3. RowType' BY <1>0, <1>1 DEF RowType
<1>4. Timed'
  <2> SUFFICES ASSUME "sql" \notin faults
               PROVE  spent' = QueryTime(run', itr', i') \/ (i' = ViewQuery /\ spent' = {} /\ Stuck')
    BY <1>1 DEF Timed
  <2>1. i = ViewQuery /\ k = 1 /\ view[leg] /\ spent = Before(k) BY <1>0, <1>1 DEF Timed
  <2>2. Before(1) = {} BY DEF Before
  <2> QED BY <1>1, <2>1, <2>2 DEF Stuck
<1>5. HurtInv' BY <1>1, RowsStay DEF Stuck
<1>6. PlaceInv' BY <1>1, PlacesStay
<1> QED BY <1>2, <1>3, <1>4, <1>5, <1>6 DEF IInv

(* The row is printed into the buffer.                                        *)
LEMMA PrintRowKeeps ==
  ASSUME IInv, PrintRow
  PROVE  IInv'
<1> DEFINE r == Row(itr, i, spent)
           out == Append(stdout, r)
<1>0. CtlType /\ RowType /\ Timed /\ HurtInv /\ PlaceInv BY DEF IInv
<1>1. /\ pc = "print" /\ pc' = "open" /\ Advance /\ stdout' = out /\ csv' = csv
      /\ faults' = faults /\ leg' = leg /\ run' = run /\ k' = k /\ spent' = spent /\ view' = view
  BY DEF PrintRow
<1>a. r \in Rows /\ r.itr = itr /\ r.q = i /\ r.time = spent
  BY <1>0, QueriesAssumption DEF CtlType, Times, Rows, Row
<1>b. /\ out \in Seq(Rows) /\ Len(out) = Len(stdout) + 1 /\ out[Len(stdout) + 1] = r
      /\ \A n \in 1..Len(stdout) : out[n] = stdout[n]
      /\ Len(stdout) \in Nat /\ Len(csv) \in Nat
  BY <1>0, <1>a, AppendProperties, LenProperties DEF RowType
<1> HIDE DEF r, out
<1>c. \A n \in 1..Len(out) : n \in 1..Len(stdout) \/ n = Len(stdout) + 1 BY <1>b
<1>7. itr' \in Nat \ {0} /\ i' \in 1..NumQueries BY <1>0, <1>1, AdvanceKeeps
<1>2. CtlType' BY <1>0, <1>1, <1>7 DEF CtlType
<1>3. RowType' BY <1>0, <1>1, <1>b DEF RowType
<1>4. Timed' BY <1>1 DEF Timed
<1>5. HurtInv'
  <2>1. Stuck => Stuck' BY <1>1 DEF Stuck
  <2>2. ASSUME "sql" \notin faults PROVE Hurt(r) BY <1>0, <1>1, <1>a, <2>2 DEF Timed, Hurt
  <2>3. ASSUME "sql" \notin faults, NEW n \in 1..Len(out) PROVE Hurt(out[n])
    BY <1>0, <1>b, <1>c, <2>2, <2>3 DEF HurtInv
  <2>4. ASSUME "sql" \notin faults, NEW n \in 1..Len(csv) PROVE Hurt(csv[n]) BY <1>0, <2>4 DEF HurtInv
  <2> QED BY <1>1, <2>1, <2>3, <2>4, HurtNext
<1>6. PlaceInv'
  <2> SUFFICES ASSUME "nofile" \notin faults
               PROVE  /\ \A n \in 1..Len(csv) : Place(n, csv[n].itr, csv[n].q)
                      /\ \A n \in 1..Len(out) : Place(Len(csv) + n, out[n].itr, out[n].q)
                      /\ Place(Len(csv) + Len(out) + 1, itr', i')
    BY <1>1 DEF PlaceInv
  <2> DEFINE x == Len(csv) + Len(stdout) + 1
  <2>0. x \in Nat \ {0} /\ Len(csv) + (Len(stdout) + 1) = x /\ Len(csv) + Len(out) + 1 = x + 1 BY <1>b
  <2>1. Place(x, itr, i) BY <1>0, <1>1 DEF PlaceInv
  <2> HIDE DEF x
  <2>2. Place(x + 1, itr', i') BY <1>0, <1>1, <2>0, <2>1, AdvanceKeeps
  <2>3. ASSUME NEW n \in 1..Len(out) PROVE Place(Len(csv) + n, out[n].itr, out[n].q)
    <3>1. CASE n \in 1..Len(stdout) BY <1>0, <1>b, <3>1 DEF PlaceInv
    <3>2. CASE n = Len(stdout) + 1 BY <1>a, <1>b, <2>0, <2>1, <3>2
    <3> QED BY <1>c, <3>1, <3>2
  <2>4. \A n \in 1..Len(csv) : Place(n, csv[n].itr, csv[n].q) BY <1>0 DEF PlaceInv
  <2> QED BY <2>0, <2>2, <2>3, <2>4
<1> QED BY <1>2, <1>3, <1>4, <1>5, <1>6 DEF IInv

(* The oldest buffered row is written.                                        *)
LEMMA FlushKeeps ==
  ASSUME IInv, Flush
  PROVE  IInv'
<1> DEFINE h == Head(stdout)
           tl == Tail(stdout)
           w == Append(csv, h)
<1>0. CtlType /\ RowType /\ Timed /\ HurtInv /\ PlaceInv BY DEF IInv
<1>1. /\ pc # "idle" /\ stdout # <<>> /\ csv' = w /\ stdout' = tl /\ faults' = faults /\ pc' = pc /\ leg' = leg
      /\ run' = run /\ itr' = itr /\ i' = i /\ k' = k /\ spent' = spent /\ view' = view
  BY DEF Flush
<1>a. /\ h \in Rows /\ h = stdout[1] /\ tl \in Seq(Rows) /\ Len(tl) = Len(stdout) - 1
      /\ \A n \in 1..Len(tl) : tl[n] = stdout[n + 1]
      /\ Len(stdout) \in Nat \ {0} /\ Len(csv) \in Nat
  <2>1. stdout \in Seq(Rows) /\ csv \in Seq(Rows) BY <1>0 DEF RowType
  <2>2. h = stdout[1] BY <1>1, <2>1
  <2> QED BY <1>1, <2>1, <2>2, HeadTailProperties, LenProperties, EmptySeq
<1> HIDE DEF h, tl
<1>b. /\ w \in Seq(Rows) /\ Len(w) = Len(csv) + 1 /\ w[Len(csv) + 1] = h /\ \A n \in 1..Len(csv) : w[n] = csv[n]
  BY <1>0, <1>a, AppendProperties DEF RowType
<1> HIDE DEF w
<1>c. \A n \in 1..Len(w) : n \in 1..Len(csv) \/ n = Len(csv) + 1 BY <1>a, <1>b
<1>2. CtlType' BY <1>0, <1>1 DEF CtlType
<1>3. RowType' BY <1>1, <1>a, <1>b DEF RowType
<1>4. Timed' BY <1>0, <1>1 DEF Timed, Before, Stuck
<1>5. HurtInv'
  <2>1. ASSUME "sql" \notin faults, NEW n \in 1..Len(w) PROVE Hurt(w[n])
    <3>1. Hurt(h) BY <1>0, <1>a, <2>1 DEF HurtInv
    <3> QED BY <1>0, <1>b, <1>c, <2>1, <3>1 DEF HurtInv
  <2>2. ASSUME "sql" \notin faults, NEW n \in 1..Len(tl) PROVE Hurt(tl[n])
    <3>1. n + 1 \in 1..Len(stdout) BY <1>a
    <3> QED BY <1>0, <1>a, <2>2, <3>1 DEF HurtInv
  <2>3. Stuck => Stuck' BY <1>1 DEF Stuck
  <2> QED BY <1>1, <2>1, <2>2, <2>3, HurtNext
<1>6. PlaceInv'
  <2> SUFFICES ASSUME "nofile" \notin faults
               PROVE  /\ \A n \in 1..Len(w) : Place(n, w[n].itr, w[n].q)
                      /\ \A n \in 1..Len(tl) : Place(Len(w) + n, tl[n].itr, tl[n].q)
                      /\ Place(Len(w) + Len(tl) + 1, itr, i)
    BY <1>1 DEF PlaceInv
  <2>0. /\ \A n \in 1..Len(csv) : Place(n, csv[n].itr, csv[n].q)
        /\ \A n \in 1..Len(stdout) : Place(Len(csv) + n, stdout[n].itr, stdout[n].q)
        /\ Place(Len(csv) + Len(stdout) + 1, itr, i)
    BY <1>0, <1>1 DEF PlaceInv
  <2>1. Len(w) + Len(tl) + 1 = Len(csv) + Len(stdout) + 1 BY <1>a, <1>b
  <2>2. ASSUME NEW n \in 1..Len(w) PROVE Place(n, w[n].itr, w[n].q)
    <3>1. CASE n \in 1..Len(csv) BY <1>b, <2>0, <3>1
    <3>2. CASE n = Len(csv) + 1
      <4>1. 1 \in 1..Len(stdout) BY <1>a
      <4> QED BY <1>a, <1>b, <2>0, <3>2, <4>1
    <3> QED BY <1>c, <3>1, <3>2
  <2>3. ASSUME NEW n \in 1..Len(tl) PROVE Place(Len(w) + n, tl[n].itr, tl[n].q)
    <3>1. n + 1 \in 1..Len(stdout) /\ Len(w) + n = Len(csv) + (n + 1) BY <1>a, <1>b
    <3> QED BY <1>a, <2>0, <3>1
  <2> QED BY <2>0, <2>1, <2>2, <2>3
<1> QED BY <1>2, <1>3, <1>4, <1>5, <1>6 DEF IInv

(* main() returns and the buffer is written.                                  *)
LEMMA ExitKeeps ==
  ASSUME IInv, Exit
  PROVE  IInv'
<1> DEFINE w == csv \o stdout
<1>0. CtlType /\ RowType /\ Timed /\ HurtInv /\ PlaceInv BY DEF IInv
<1>1. /\ pc = "open" /\ csv' = w /\ stdout' = <<>> /\ faults' = faults /\ pc' = "idle" /\ leg' = leg
      /\ run' = run /\ itr' = itr /\ i' = i /\ k' = k /\ spent' = spent /\ view' = view
  BY DEF Exit
<1>a. <<>> \in Seq(Rows) /\ Len(<<>>) = 0 BY EmptySeq
<1>b. /\ w \in Seq(Rows) /\ Len(w) = Len(csv) + Len(stdout)
      /\ \A n \in 1..(Len(csv) + Len(stdout)) : w[n] = IF n <= Len(csv) THEN csv[n] ELSE stdout[n - Len(csv)]
      /\ Len(csv) \in Nat /\ Len(stdout) \in Nat
  BY <1>0, ConcatProperties, LenProperties DEF RowType
<1> HIDE DEF w
<1>c. ASSUME NEW n \in 1..Len(w)
      PROVE  \/ n \in 1..Len(csv) /\ w[n] = csv[n]
             \/ \E m \in 1..Len(stdout) : n = Len(csv) + m /\ w[n] = stdout[m]
  <2>1. CASE n <= Len(csv) BY <1>b, <2>1
  <2>2. CASE ~(n <= Len(csv))
    <3>1. n - Len(csv) \in 1..Len(stdout) /\ n = Len(csv) + (n - Len(csv)) BY <1>b, <2>2
    <3>2. w[n] = stdout[n - Len(csv)] BY <1>b, <2>2
    <3> QED BY <3>1, <3>2
  <2> QED BY <2>1, <2>2
<1>2. CtlType' BY <1>0, <1>1 DEF CtlType
<1>3. RowType' BY <1>1, <1>a, <1>b DEF RowType
<1>4. Timed' BY <1>1 DEF Timed
<1>5. HurtInv'
  <2>1. ASSUME "sql" \notin faults, NEW n \in 1..Len(w) PROVE Hurt(w[n]) BY <1>0, <1>c, <2>1 DEF HurtInv
  <2>2. Stuck => Stuck' BY <1>1 DEF Stuck
  <2> QED BY <1>1, <1>a, <2>1, <2>2, HurtNext
<1>6. PlaceInv'
  <2> SUFFICES ASSUME "nofile" \notin faults, NEW n \in 1..Len(w) PROVE Place(n, w[n].itr, w[n].q)
    BY <1>1, <1>a DEF PlaceInv
  <2> QED BY <1>0, <1>c DEF PlaceInv
<1> QED BY <1>2, <1>3, <1>4, <1>5, <1>6 DEF IInv

(* The database cannot be opened; nothing was printed.                        *)
LEMMA CannotOpenDatabaseKeeps ==
  ASSUME IInv, CannotOpenDatabase
  PROVE  IInv'
<1>1. /\ pc' = "idle" /\ csv' = csv /\ stdout' = stdout /\ faults' = faults /\ leg' = leg
      /\ run' = run /\ itr' = itr /\ i' = i /\ k' = k /\ spent' = spent /\ view' = view /\ "nofile" \in faults
  BY DEF CannotOpenDatabase
<1>2. CtlType' /\ RowType' BY <1>1 DEF IInv, CtlType, RowType
<1>3. Timed' BY <1>1 DEF Timed
<1>4. HurtInv' BY <1>1, RowsStay DEF Stuck
<1>5. PlaceInv' BY <1>1 DEF PlaceInv
<1> QED BY <1>2, <1>3, <1>4, <1>5 DEF IInv

(* The program is stopped and the buffer lost.                                *)
LEMMA KillKeeps ==
  ASSUME IInv, Kill
  PROVE  IInv'
<1>0. CtlType /\ RowType /\ Timed /\ HurtInv /\ PlaceInv BY DEF IInv
<1>1. /\ pc' = "idle" /\ csv' = csv /\ stdout' = <<>> /\ faults' = faults /\ leg' = leg
      /\ run' = run /\ itr' = itr /\ i' = i /\ k' = k /\ spent' = spent /\ view' = view
  BY DEF Kill
<1>a. <<>> \in Seq(Rows) /\ Len(<<>>) = 0 BY EmptySeq
<1>2. CtlType' BY <1>0, <1>1 DEF CtlType
<1>3. RowType' BY <1>0, <1>1, <1>a DEF RowType
<1>4. Timed' BY <1>1 DEF Timed
<1>5. HurtInv'
  <2>1. ASSUME "sql" \notin faults, NEW n \in 1..Len(csv) PROVE Hurt(csv[n]) BY <1>0, <2>1 DEF HurtInv
  <2>2. Stuck => Stuck' BY <1>1 DEF Stuck
  <2> QED BY <1>1, <1>a, <2>1, <2>2, HurtNext
<1>6. PlaceInv' BY <1>0, <1>1, <1>a DEF PlaceInv
<1> QED BY <1>2, <1>3, <1>4, <1>5, <1>6 DEF IInv

(* A step that changes nothing keeps the invariant.                           *)
LEMMA Stutters == IInv /\ UNCHANGED vars => IInv'
<1> SUFFICES ASSUME IInv, UNCHANGED vars PROVE IInv' OBVIOUS
<1>1. /\ pc' = pc /\ csv' = csv /\ stdout' = stdout /\ faults' = faults /\ leg' = leg
      /\ run' = run /\ itr' = itr /\ i' = i /\ k' = k /\ spent' = spent /\ view' = view
  BY DEF vars
<1>2. CtlType' /\ RowType' BY <1>1 DEF IInv, CtlType, RowType
<1>3. Timed' BY <1>1 DEF IInv, Timed, Before, Stuck
<1>4. HurtInv' BY <1>1, RowsStay DEF Stuck
<1>5. PlaceInv' BY <1>1, PlacesStay
<1> QED BY <1>2, <1>3, <1>4, <1>5 DEF IInv

(* Every step keeps the invariant.                                            *)
LEMMA Inductive == IInv /\ [Next]_vars => IInv'
BY StartKeeps, CannotOpenDatabaseKeeps, OpenQueryKeeps, CannotOpenKeeps, ExecStatementKeeps, ExecErrorKeeps, PrintRowKeeps, FlushKeeps,
   ExitKeeps, KillKeeps, Stutters DEF Next

(* The invariant holds in every state.                                        *)
LEMMA Always == Spec => []IInv
BY Starts, Inductive, PTL DEF Spec
-----------------------------------------------------------------------------
(* main()'s variables keep their types.                                       *)
THEOREM TypeCorrect == Spec => []TypeOK
<1>1. IInv => TypeOK BY TypeParts DEF IInv
<1> QED BY <1>1, Always, PTL

(* baremetal/main.c:382-390: unless a statement fails for another reason, a   *)
(* row shows the time of its own query, or is of query 15, shows nothing, and *)
(* revenue0 is in the database. The view that a stopped run left is what the  *)
(* rows of later runs depend on, so the invariant ties the rows that are      *)
(* still buffered, and the time being taken, to Stuck.                        *)
THEOREM OnlyQuery15Hurt == Spec => []OnlyViewQueryHurt
<1>1. ASSUME IInv PROVE OnlyViewQueryHurt
  <2>1. csv \in Seq(Rows) /\ DOMAIN csv = 1..Len(csv) BY <1>1, LenProperties DEF IInv, RowType
  <2>2. "sql" \notin faults => \A n \in 1..Len(csv) : Hurt(csv[n]) BY <1>1 DEF IInv, HurtInv
  <2> QED BY <2>1, <2>2 DEF OnlyViewQueryHurt, Hurt, Stuck
<1> QED BY <1>1, Always, PTL

(* baremetal/main.c:350-396: rows leave the buffer in the order they were     *)
(* printed, so the file is a prefix of the report wherever the program stops. *)
(* The invariant numbers the buffered rows after those in the file.           *)
THEOREM ReportIsPrefix == Spec => []PrefixReport
<1>1. IInv => PrefixReport BY DEF IInv, PlaceInv, Place, PrefixReport
<1> QED BY <1>1, Always, PTL

(* queries/query15.sql with baremetal/main.c:385: a revenue0 that is left in  *)
(* the database of the bare-metal runner is there for good, as only the drop  *)
(* of a query 15 whose create succeeded would remove it.                      *)
THEOREM LeakStays == Spec => LeakIsPermanent
<1>1. ASSUME IInv, Leaked, Next PROVE Leaked'
  <2>0. CtlType /\ view["baremetal"] /\ ~(leg = "baremetal" /\ pc = "exec" /\ i = ViewQuery /\ k > 1)
    BY <1>1 DEF IInv, Leaked
  <2>1. ASSUME NEW l \in Legs, Start(l) PROVE Leaked'
    BY <2>0, <2>1 DEF Start, Leaked, CtlType, Legs
  <2>2. CASE ExecStatement
    <3>1. /\ view' = IF i = ViewQuery THEN [view EXCEPT ![leg] = k < ViewStmts] ELSE view
          /\ ~(i = ViewQuery /\ k = 1 /\ view[leg]) /\ leg' = leg /\ i' = i /\ pc = "exec"
      BY <2>2 DEF ExecStatement
    <3>2. k \in Nat \ {0} /\ view \in [Legs -> BOOLEAN] /\ leg \in Legs BY <2>0 DEF CtlType
    <3>3. ~(leg = "baremetal" /\ i = ViewQuery) BY <2>0, <3>1, <3>2
    <3>4. view'["baremetal"] BY <2>0, <3>1, <3>2, <3>3 DEF Legs
    <3> QED BY <3>1, <3>3, <3>4 DEF Leaked
  <2>3. CASE OpenQuery BY <2>0, <2>3 DEF OpenQuery, Leaked
  <2>4. CASE CannotOpen BY <2>0, <2>4 DEF CannotOpen, Leaked
  <2>5. CASE ExecError BY <2>0, <2>5 DEF ExecError, Leaked
  <2>6. CASE PrintRow BY <2>0, <2>6 DEF PrintRow, Leaked
  <2>7. CASE Flush BY <2>0, <2>7 DEF Flush, Leaked
  <2>8. CASE Exit BY <2>0, <2>8 DEF Exit, Leaked
  <2>9. CASE Kill BY <2>0, <2>9 DEF Kill, Leaked
  <2>10. CASE CannotOpenDatabase BY <2>0, <2>10 DEF CannotOpenDatabase, Leaked
  <2> QED BY <1>1, <2>1, <2>2, <2>3, <2>4, <2>5, <2>6, <2>7, <2>8, <2>9, <2>10 DEF Next
<1>2. IInv /\ [Next]_vars => [Leaked => Leaked']_vars BY <1>1
<1> QED BY <1>2, Always, PTL DEF Spec, LeakIsPermanent
-----------------------------------------------------------------------------
(* The tables with the rows of so many lines of the files of this iteration.  *)
Inserted(o, l) == [orders   |-> Plus(disk.orders, Orders[itr], o),
                   lineitem |-> Plus(disk.lineitem, LineItems[itr], l)]

(* The tables without the orders of so many lines of the delete file.         *)
Deleted(o) == [orders   |-> Minus(disk.orders, {Deletes[itr][m] : m \in 1..o}),
               lineitem |-> disk.lineitem]

(* What the open transaction has done to the tables on disk.                  *)
TxnInv ==
  /\ pc = "orders" => lines <= Pairs(itr) /\ txn = Inserted(lines, lines)
  /\ pc = "lineitem" => lines < Pairs(itr) /\ txn = Inserted(lines + 1, lines)
  /\ pc = "delete" => lines <= Len(Deletes[itr]) /\ txn = Deleted(lines)

(* The inductive invariant.                                                   *)
RInv == RefreshTypeOK /\ TxnInv /\ QueriesSeeRefresh
-----------------------------------------------------------------------------
(* The length of the files.                                                   *)
LEMMA FileLengths ==
  ASSUME NEW j \in 1..Iterations
  PROVE  /\ Len(Orders[j]) \in Nat /\ Len(LineItems[j]) \in Nat /\ Len(Deletes[j]) \in Nat
         /\ Pairs(j) \in 0..Len(Orders[j]) /\ Pairs(j) \in 0..Len(LineItems[j])
         /\ \A m \in Nat : (m < Len(Orders[j]) /\ m < Len(LineItems[j])) <=> m < Pairs(j)
<1>1. /\ Orders[j] \in Seq(Contents(Orders[j])) /\ LineItems[j] \in Seq(Contents(LineItems[j]))
      /\ Deletes[j] \in Seq(Contents(Deletes[j]))
  BY RefreshFilesAssumption, RefreshAssumption
<1>2. Len(Orders[j]) \in Nat /\ Len(LineItems[j]) \in Nat /\ Len(Deletes[j]) \in Nat BY <1>1, LenProperties
<1> QED BY <1>2 DEF Pairs

(* No line adds nothing.                                                      *)
LEMMA PlusNone ==
  ASSUME NEW D, NEW b \in [D -> Nat], NEW s
  PROVE  Plus(b, s, 0) = b
<1>1. \A o : {p \in 1..0 : s[p] = o} = {} OBVIOUS
<1>2. Cardinality({}) = 0 BY FS_EmptySet
<1>3. \A o \in D : b[o] + Cardinality({p \in 1..0 : s[p] = o}) = b[o] BY <1>1, <1>2
<1>4. Plus(b, s, 0) = [o \in D |-> b[o] + Cardinality({p \in 1..0 : s[p] = o})] BY Zenon DEF Plus
<1>5. b = [o \in D |-> b[o]] OBVIOUS
<1>6. [o \in D |-> b[o] + Cardinality({p \in 1..0 : s[p] = o})] = [o \in D |-> b[o]] BY <1>3, Zenon
<1> QED BY <1>4, <1>5, <1>6

(* A line adds its row, and the rows of all the lines are there.              *)
LEMMA PlusLine ==
  ASSUME NEW D, NEW b \in [D -> Nat], NEW s, NEW m \in Nat
  PROVE  /\ Plus(b, s, m) \in [D -> Nat]
         /\ Plus(b, s, m + 1) = [Plus(b, s, m) EXCEPT ![s[m + 1]] = @ + 1]
         /\ \A p \in 1..m : s[p] \in D => Plus(b, s, m)[s[p]] > 0
<1> DEFINE C(h, o) == {p \in 1..h : s[p] = o}
<1>1. \A h \in Nat : \A o : IsFiniteSet(C(h, o)) /\ Cardinality(C(h, o)) \in Nat
  <2>1. \A h \in Nat : IsFiniteSet(1..h) BY FS_Interval
  <2>2. \A h \in Nat : \A o : IsFiniteSet(C(h, o))
    <3> SUFFICES ASSUME NEW h \in Nat, NEW o PROVE IsFiniteSet(C(h, o)) OBVIOUS
    <3>1. C(h, o) \subseteq 1..h OBVIOUS
    <3> QED BY <2>1, <3>1, FS_Subset
  <2> HIDE DEF C
  <2> QED BY <2>2, FS_CardinalityType
<1>2. ASSUME NEW o PROVE Cardinality(C(m + 1, o)) = Cardinality(C(m, o)) + (IF s[m + 1] = o THEN 1 ELSE 0)
  <2>1. 1..(m + 1) = (1..m) \cup {m + 1} /\ m + 1 \notin 1..m OBVIOUS
  <2>2. CASE s[m + 1] = o
    <3>1. C(m + 1, o) = C(m, o) \cup {m + 1} /\ m + 1 \notin C(m, o) BY <2>1, <2>2
    <3> HIDE DEF C
    <3>2. Cardinality(C(m, o) \cup {m + 1}) = Cardinality(C(m, o)) + 1 BY <1>1, <3>1, FS_AddElement
    <3> QED BY <2>2, <3>1, <3>2
  <2>3. CASE s[m + 1] # o
    <3>1. C(m + 1, o) = C(m, o) BY <2>1, <2>3
    <3> HIDE DEF C
    <3> QED BY <1>1, <2>3, <3>1
  <2> QED BY <2>2, <2>3
<1>3. ASSUME NEW p \in 1..m PROVE Cardinality(C(m, s[p])) > 0
  <2>1. p \in C(m, s[p]) OBVIOUS
  <2> HIDE DEF C
  <2>2. C(m, s[p]) # {} BY <2>1
  <2>3. Cardinality(C(m, s[p])) # 0 BY <1>1, <2>2, FS_EmptySet
  <2> QED BY <1>1, <2>3
<1>4. \A h : Plus(b, s, h) = [o \in D |-> b[o] + Cardinality(C(h, o))]
  <2>1. DOMAIN b = D OBVIOUS
  <2> QED BY <2>1, Zenon DEF Plus
<1> HIDE DEF C
<1>5. Plus(b, s, m) \in [D -> Nat] BY <1>1, <1>4
<1>6. Plus(b, s, m + 1) = [Plus(b, s, m) EXCEPT ![s[m + 1]] = @ + 1]
  <2> DEFINE P == Plus(b, s, m)
  <2>1. \A o \in D : P[o] = b[o] + Cardinality(C(m, o)) BY <1>4
  <2>2. \A o \in D : b[o] + Cardinality(C(m + 1, o)) = IF o = s[m + 1] THEN P[o] + 1 ELSE P[o] BY <1>1, <1>2, <2>1
  <2>3. Plus(b, s, m + 1) = [o \in D |-> b[o] + Cardinality(C(m + 1, o))] BY <1>4
  <2>4. P \in [D -> Nat] BY <1>5
  <2> HIDE DEF P
  <2>5. Plus(b, s, m + 1) = [o \in D |-> IF o = s[m + 1] THEN P[o] + 1 ELSE P[o]] BY <2>2, <2>3
  <2>6. [P EXCEPT ![s[m + 1]] = @ + 1] = [o \in D |-> IF o = s[m + 1] THEN P[o] + 1 ELSE P[o]] BY <2>4
  <2> QED BY <2>5, <2>6 DEF P
<1>7. \A p \in 1..m : s[p] \in D => Plus(b, s, m)[s[p]] > 0
  <2> SUFFICES ASSUME NEW p \in 1..m, s[p] \in D PROVE Plus(b, s, m)[s[p]] > 0 OBVIOUS
  <2>1. Plus(b, s, m)[s[p]] = b[s[p]] + Cardinality(C(m, s[p])) BY <1>4
  <2> QED BY <1>1, <1>3, <2>1
<1> QED BY <1>5, <1>6, <1>7

(* No delete removes nothing.                                                 *)
LEMMA MinusKeys ==
  ASSUME NEW D, NEW b \in [D -> Nat], NEW K
  PROVE  Minus(b, {}) = b /\ Minus(b, K) \in [D -> Nat]
BY DEF Minus

(* Deletes add up.                                                            *)
LEMMA MinusBoth ==
  ASSUME NEW b, NEW K, NEW x
  PROVE  Minus(Minus(b, K), {x}) = Minus(b, K \cup {x})
<1>1. Minus(Minus(b, K), {x}) = [o \in DOMAIN b |-> IF o \in {x} THEN 0 ELSE IF o \in K THEN 0 ELSE b[o]]
  BY DEF Minus
<1>2. Minus(b, K \cup {x}) = [o \in DOMAIN b |-> IF o \in K \cup {x} THEN 0 ELSE b[o]] BY DEF Minus
<1> QED BY <1>1, <1>2
-----------------------------------------------------------------------------
(* What every step starts from.                                               *)
LEMMA RBefore ==
  ASSUME RInv
  PROVE  /\ faults \in SUBSET FaultNames /\ run \in Nat /\ itr \in 1..Iterations /\ lines \in Nat
         /\ pc \in {"idle", "rf1", "orders", "lineitem", "queries", "rf2", "delete"}
         /\ disk \in TablesSet /\ disk.orders \in [Keys -> Nat] /\ disk.lineitem \in [Items -> Nat]
         /\ txn \in TablesSet /\ TxnInv /\ QueriesSeeRefresh
BY DEF RInv, RefreshTypeOK, TablesSet

(* The tables that a transaction makes of those on disk are tables.           *)
LEMMA TxnTables ==
  ASSUME disk \in TablesSet, NEW o \in Nat, NEW l \in Nat
  PROVE  Inserted(o, l) \in TablesSet /\ Deleted(o) \in TablesSet
<1>1. disk.orders \in [Keys -> Nat] /\ disk.lineitem \in [Items -> Nat] BY DEF TablesSet
<1>2. Plus(disk.orders, Orders[itr], o) \in [Keys -> Nat] BY <1>1, PlusLine
<1>3. Plus(disk.lineitem, LineItems[itr], l) \in [Items -> Nat] BY <1>1, PlusLine
<1>4. Minus(disk.orders, {Deletes[itr][m] : m \in 1..o}) \in [Keys -> Nat] BY <1>1, MinusKeys
<1> QED BY <1>1, <1>2, <1>3, <1>4 DEF Inserted, Deleted, TablesSet

(* The invariant holds of an empty database.                                  *)
LEMMA RStarts == ASSUME RefreshInit PROVE RInv
<1>1. /\ faults \in SUBSET FaultNames /\ disk = EmptyTables /\ txn = EmptyTables
      /\ pc = "idle" /\ run = 0 /\ itr = 1 /\ lines = 0
  BY MainLoopAssumption DEF RefreshInit, AtomicInit
<1>2. EmptyTables \in TablesSet BY DEF EmptyTables, TablesSet
<1>3. 1 \in 1..Iterations BY MainLoopAssumption
<1>4. RefreshTypeOK BY <1>1, <1>2, <1>3 DEF RefreshTypeOK
<1> QED BY <1>1, <1>4 DEF RInv, TxnInv, QueriesSeeRefresh

(* A step between the transactions, or one that ends the program.             *)
LEMMA RIdle ==
  ASSUME RInv, pc' \in {"idle", "rf1"}, run' \in Nat, itr' \in 1..Iterations,
         UNCHANGED <<faults, lines, txn, disk>>
  PROVE  RInv'
BY RBefore DEF RInv, RefreshTypeOK, TxnInv, QueriesSeeRefresh, FaultNames, TablesSet, Keys, Items, Contents

(* BEGIN TRANSACTION.                                                         *)
LEMMA RBegin ==
  ASSUME RInv, BeginRF1 \/ BeginRF2
  PROVE  RInv' /\ disk' = disk
<1>0. /\ faults \in SUBSET FaultNames /\ run \in Nat /\ itr \in 1..Iterations /\ disk \in TablesSet
      /\ disk.orders \in [Keys -> Nat] /\ disk.lineitem \in [Items -> Nat]
  BY RBefore
<1>1. /\ pc' \in {"orders", "delete"} /\ lines' = 0 /\ txn' = disk
      /\ faults' = faults /\ run' = run /\ itr' = itr /\ disk' = disk
  BY DEF BeginRF1, BeginRF2
<1>2. disk = [orders |-> disk.orders, lineitem |-> disk.lineitem] BY <1>0 DEF TablesSet
<1>3. Inserted(0, 0) = disk BY <1>0, <1>2, PlusNone DEF Inserted
<1>4. Deleted(0) = disk
  <2>1. {Deletes[itr][m] : m \in 1..0} = {} OBVIOUS
  <2> QED BY <1>0, <1>2, <2>1, MinusKeys DEF Deleted
<1>5. 0 <= Pairs(itr) /\ 0 <= Len(Deletes[itr]) BY <1>0, FileLengths
<1>6. TxnInv'
  <2>1. Inserted(lines, lines)' = Inserted(0, 0) /\ Deleted(lines)' = Deleted(0) BY <1>1 DEF Inserted, Deleted
  <2> QED BY <1>1, <1>3, <1>4, <1>5, <2>1 DEF TxnInv, Pairs
<1> QED BY <1>0, <1>1, <1>6 DEF RInv, RefreshTypeOK, QueriesSeeRefresh, FaultNames, TablesSet, Keys, Items, Contents

(* INSERT INTO ORDERS.                                                        *)
LEMMA RInsertOrder ==
  ASSUME RInv, InsertOrder
  PROVE  RInv' /\ disk' = disk
<1>0. /\ faults \in SUBSET FaultNames /\ run \in Nat /\ itr \in 1..Iterations /\ lines \in Nat
      /\ disk \in TablesSet /\ disk.orders \in [Keys -> Nat] /\ TxnInv
  BY RBefore
<1>1. /\ pc = "orders" /\ lines < Len(Orders[itr]) /\ lines < Len(LineItems[itr])
      /\ txn' = [txn EXCEPT !.orders[Orders[itr][lines + 1]] = @ + 1]
      /\ pc' = "lineitem" /\ faults' = faults /\ run' = run /\ itr' = itr /\ lines' = lines /\ disk' = disk
  BY DEF InsertOrder
<1>2. txn = Inserted(lines, lines) BY <1>0, <1>1 DEF TxnInv
<1>3. lines < Pairs(itr) BY <1>0, <1>1, FileLengths
<1>4. txn' = Inserted(lines + 1, lines)
  <2>1. Plus(disk.orders, Orders[itr], lines + 1)
          = [Plus(disk.orders, Orders[itr], lines) EXCEPT ![Orders[itr][lines + 1]] = @ + 1]
    BY <1>0, PlusLine
  <2> QED BY <1>1, <1>2, <2>1 DEF Inserted
<1>5. txn' \in TablesSet BY <1>0, <1>4, TxnTables
<1>6. TxnInv'
  <2>1. Inserted(lines + 1, lines)' = Inserted(lines + 1, lines) BY <1>1 DEF Inserted
  <2> QED BY <1>1, <1>3, <1>4, <2>1 DEF TxnInv, Pairs
<1> QED BY <1>0, <1>1, <1>5, <1>6 DEF RInv, RefreshTypeOK, QueriesSeeRefresh, FaultNames, TablesSet, Keys, Items, Contents

(* INSERT INTO LINEITEM.                                                      *)
LEMMA RInsertLineItem ==
  ASSUME RInv, InsertLineItem
  PROVE  RInv' /\ disk' = disk
<1>0. /\ faults \in SUBSET FaultNames /\ run \in Nat /\ itr \in 1..Iterations /\ lines \in Nat
      /\ disk \in TablesSet /\ disk.lineitem \in [Items -> Nat] /\ TxnInv
  BY RBefore
<1>1. /\ pc = "lineitem" /\ txn' = [txn EXCEPT !.lineitem[LineItems[itr][lines + 1]] = @ + 1]
      /\ pc' = "orders" /\ faults' = faults /\ run' = run /\ itr' = itr /\ lines' = lines + 1 /\ disk' = disk
  BY DEF InsertLineItem
<1>2. txn = Inserted(lines + 1, lines) /\ lines < Pairs(itr) BY <1>0, <1>1 DEF TxnInv
<1>3. lines + 1 <= Pairs(itr) /\ lines + 1 \in Nat BY <1>0, <1>2, FileLengths
<1>4. txn' = Inserted(lines + 1, lines + 1)
  <2>1. Plus(disk.lineitem, LineItems[itr], lines + 1)
          = [Plus(disk.lineitem, LineItems[itr], lines) EXCEPT ![LineItems[itr][lines + 1]] = @ + 1]
    BY <1>0, PlusLine
  <2> QED BY <1>1, <1>2, <2>1 DEF Inserted
<1>5. txn' \in TablesSet BY <1>0, <1>3, <1>4, TxnTables
<1>6. TxnInv'
  <2>1. Inserted(lines, lines)' = Inserted(lines + 1, lines + 1) BY <1>1 DEF Inserted
  <2> QED BY <1>1, <1>3, <1>4, <2>1 DEF TxnInv, Pairs
<1> QED BY <1>0, <1>1, <1>3, <1>5, <1>6 DEF RInv, RefreshTypeOK, QueriesSeeRefresh, FaultNames, TablesSet, Keys, Items, Contents

(* DELETE FROM ORDERS.                                                        *)
LEMMA RDeleteOrder ==
  ASSUME RInv, DeleteOrder
  PROVE  RInv' /\ disk' = disk
<1>0. /\ faults \in SUBSET FaultNames /\ run \in Nat /\ itr \in 1..Iterations /\ lines \in Nat
      /\ disk \in TablesSet /\ disk.orders \in [Keys -> Nat] /\ TxnInv
  BY RBefore
<1>1. /\ pc = "delete" /\ lines < Len(Deletes[itr])
      /\ txn' = [txn EXCEPT !.orders = Minus(@, {Deletes[itr][lines + 1]})]
      /\ pc' = pc /\ faults' = faults /\ run' = run /\ itr' = itr /\ lines' = lines + 1 /\ disk' = disk
  BY DEF DeleteOrder
<1>2. txn = Deleted(lines) BY <1>0, <1>1 DEF TxnInv
<1>3. lines + 1 <= Len(Deletes[itr]) /\ lines + 1 \in Nat BY <1>0, <1>1, FileLengths
<1>4. txn' = Deleted(lines + 1)
  <2> DEFINE K == {Deletes[itr][m] : m \in 1..lines}
             x == Deletes[itr][lines + 1]
  <2>1. {Deletes[itr][m] : m \in 1..(lines + 1)} = K \cup {x}
    <3>1. 1..(lines + 1) = (1..lines) \cup {lines + 1} BY <1>0
    <3> QED BY <3>1
  <2>2. Deleted(lines).orders = Minus(disk.orders, K) /\ Deleted(lines).lineitem = disk.lineitem BY DEF Deleted
  <2>3. txn' = [orders |-> Minus(Minus(disk.orders, K), {x}), lineitem |-> disk.lineitem]
    BY <1>1, <1>2, <2>2 DEF Deleted
  <2> HIDE DEF K, x
  <2>4. Minus(Minus(disk.orders, K), {x}) = Minus(disk.orders, K \cup {x})
    <3>1. \A b, S, y : Minus(Minus(b, S), {y}) = Minus(b, S \cup {y}) BY MinusBoth
    <3>2. \A S, y : Minus(Minus(disk.orders, S), {y}) = Minus(disk.orders, S \cup {y}) BY <3>1
    <3>3. \A y : Minus(Minus(disk.orders, K), {y}) = Minus(disk.orders, K \cup {y}) BY <3>2
    <3> QED BY <3>3
  <2> QED BY <2>1, <2>3, <2>4 DEF Deleted
<1>5. txn' \in TablesSet BY <1>0, <1>3, <1>4, TxnTables
<1>6. TxnInv'
  <2>1. Deleted(lines)' = Deleted(lines + 1) BY <1>1 DEF Deleted
  <2> QED BY <1>1, <1>3, <1>4, <2>1 DEF TxnInv
<1> QED BY <1>0, <1>1, <1>3, <1>5, <1>6 DEF RInv, RefreshTypeOK, QueriesSeeRefresh, FaultNames, TablesSet, Keys, Items, Contents

(* COMMIT of RF1: the rows of the whole files are there.                      *)
LEMMA RCommitRF1 ==
  ASSUME RInv, CommitRF1
  PROVE  RInv' /\ disk' = AfterRF1(disk, itr)
<1>0. /\ faults \in SUBSET FaultNames /\ run \in Nat /\ itr \in 1..Iterations /\ lines \in Nat
      /\ disk.orders \in [Keys -> Nat] /\ txn \in TablesSet /\ TxnInv
  BY RBefore
<1>1. /\ pc = "orders" /\ ~(lines < Len(Orders[itr]) /\ lines < Len(LineItems[itr])) /\ disk' = txn
      /\ pc' = "queries" /\ faults' = faults /\ run' = run /\ itr' = itr /\ lines' = lines /\ txn' = txn
  BY DEF CommitRF1
<1>2. lines = Pairs(itr)
  <2>1. lines <= Pairs(itr) BY <1>0, <1>1 DEF TxnInv
  <2>2. ~(lines < Pairs(itr)) BY <1>0, <1>1, FileLengths
  <2>3. Pairs(itr) \in Nat BY <1>0, FileLengths
  <2> QED BY <1>0, <2>1, <2>2, <2>3
<1>3. disk' = AfterRF1(disk, itr) BY <1>0, <1>1, <1>2 DEF TxnInv, Inserted, AfterRF1
<1>4. ASSUME NEW m \in 1..Pairs(itr) PROVE disk'.orders[Orders[itr][m]] > 0
  <2>1. disk'.orders = Plus(disk.orders, Orders[itr], lines) BY <1>2, <1>3 DEF AfterRF1
  <2>2. Orders[itr][m] \in Keys
    <3>1. m \in 1..Len(Orders[itr]) BY <1>0, FileLengths
    <3> QED BY <1>0, <3>1, RefreshAssumption DEF Keys, Contents
  <2> DEFINE b == disk.orders
             f == Orders[itr]
  <2>3. b \in [Keys -> Nat] /\ f[m] \in Keys /\ m \in 1..lines BY <1>0, <1>2, <2>2
  <2> HIDE DEF b, f
  <2>4. \A p \in 1..lines : f[p] \in Keys => Plus(b, f, lines)[f[p]] > 0 BY <1>0, <2>3, PlusLine
  <2>5. Plus(b, f, lines)[f[m]] > 0 BY <2>3, <2>4
  <2> QED BY <2>1, <2>5 DEF b, f
<1>5. QueriesSeeRefresh'
  <2>1. Pairs(itr)' = Pairs(itr) BY <1>1 DEF Pairs
  <2> QED BY <1>1, <1>4, <2>1 DEF QueriesSeeRefresh
<1> QED BY <1>0, <1>1, <1>3, <1>5 DEF RInv, RefreshTypeOK, TxnInv, FaultNames, TablesSet, Keys, Items, Contents

(* The queries leave the tables alone.                                        *)
LEMMA RQueries ==
  ASSUME RInv, RunQueries
  PROVE  RInv' /\ disk' = disk
<1>1. /\ pc = "queries" /\ pc' = "rf2" /\ faults' = faults /\ run' = run /\ itr' = itr /\ lines' = lines /\ txn' = txn
      /\ disk' = disk
  BY DEF RunQueries
<1> QED BY <1>1, RBefore DEF RInv, RefreshTypeOK, TxnInv, QueriesSeeRefresh, Pairs, FaultNames, TablesSet, Keys, Items, Contents

(* COMMIT of RF2: all the orders of the file are gone.                        *)
LEMMA RCommitRF2 ==
  ASSUME RInv, CommitRF2
  PROVE  RInv' /\ disk' = AfterRF2(disk, itr)
<1>0. /\ faults \in SUBSET FaultNames /\ run \in Nat /\ itr \in 1..Iterations /\ lines \in Nat
      /\ txn \in TablesSet /\ TxnInv
  BY RBefore
<1>1. /\ pc = "delete" /\ lines = Len(Deletes[itr]) /\ disk' = txn
      /\ IF itr < Iterations THEN itr' = itr + 1 /\ pc' = "rf1" ELSE pc' = "idle" /\ itr' = itr
      /\ faults' = faults /\ run' = run /\ lines' = lines /\ txn' = txn
  BY DEF CommitRF2
<1>2. disk' = AfterRF2(disk, itr) BY <1>0, <1>1 DEF TxnInv, Deleted, AfterRF2, Contents
<1>3. itr' \in 1..Iterations /\ pc' \in {"idle", "rf1"} BY <1>0, <1>1, MainLoopAssumption
<1> QED BY <1>0, <1>1, <1>2, <1>3
        DEF RInv, RefreshTypeOK, TxnInv, QueriesSeeRefresh, FaultNames, TablesSet, Keys, Items, Contents

(* The program fails or is stopped: the transaction is undone.                *)
LEMMA RStops ==
  ASSUME RInv, RefreshStart \/ RefreshFails \/ RefreshKill
  PROVE  RInv' /\ disk' = disk
<1>1. /\ pc' \in {"idle", "rf1"} /\ run' \in {run, run + 1} /\ itr' \in {itr, 1} /\ UNCHANGED <<faults, lines, txn, disk>>
  BY DEF RefreshStart, RefreshFails, RefreshKill
<1>2. run' \in Nat /\ itr' \in 1..Iterations
  <2>1. run \in Nat /\ itr \in 1..Iterations BY RBefore
  <2>2. 1 \in 1..Iterations BY MainLoopAssumption
  <2> QED BY <1>1, <2>1, <2>2
<1> QED BY <1>1, <1>2, RIdle

(* A step that changes nothing keeps the invariant.                           *)
LEMMA RStutters == ASSUME RInv, UNCHANGED refreshVars PROVE RInv' /\ disk' = disk
<1>1. /\ pc' = pc /\ faults' = faults /\ run' = run /\ itr' = itr /\ lines' = lines /\ txn' = txn /\ disk' = disk
  BY DEF refreshVars
<1> QED BY <1>1 DEF RInv, RefreshTypeOK, TxnInv, Inserted, Deleted, QueriesSeeRefresh, Pairs, Plus, Minus,
                    FaultNames, TablesSet, Keys, Items, Contents

(* Every step keeps the invariant, and is a whole refresh or none.            *)
LEMMA RInductive == ASSUME RInv, [RefreshNext]_refreshVars PROVE RInv' /\ [AtomicNext]_disk
<1>0. itr \in 1..Iterations BY RBefore
<1>1. CASE CommitRF1 BY <1>0, <1>1, RCommitRF1, RefreshAssumption DEF AtomicNext
<1>2. CASE CommitRF2 BY <1>0, <1>2, RCommitRF2, RefreshAssumption DEF AtomicNext
<1>3. CASE UNCHANGED refreshVars BY <1>3, RStutters
<1> QED BY <1>1, <1>2, <1>3, RBegin, RInsertOrder, RInsertLineItem, RDeleteOrder, RQueries, RStops DEF RefreshNext

(* The invariant holds in every state.                                        *)
LEMMA RAlways == RefreshSpec => []RInv
<1>1. RefreshInit => RInv BY RStarts
<1>2. RInv /\ [RefreshNext]_refreshVars => RInv' BY RInductive
<1> QED BY <1>1, <1>2, PTL DEF RefreshSpec
-----------------------------------------------------------------------------
(* The refresh functions' counters and the tables keep their types.           *)
THEOREM RefreshTypeCorrect == RefreshSpec => []RefreshTypeOK
<1>1. RInv => RefreshTypeOK BY DEF RInv
<1> QED BY <1>1, RAlways, PTL

(* main.c:356-407: whatever earlier runs left behind, the queries of an       *)
(* iteration find every order that its RF1 read with a line item.             *)
THEOREM QueriesSeeOrders == RefreshSpec => []QueriesSeeRefresh
<1>1. RInv => QueriesSeeRefresh BY DEF RInv
<1> QED BY <1>1, RAlways, PTL

(* main.c:173-177, 253-257, 265-269 and 294-298: line by line, failing or     *)
(* stopped anywhere, the functions implement refreshes that happen at once.   *)
THEOREM RefreshesAreAtomic == RefreshSpec => WholeRefreshes
<1>1. RefreshInit => AtomicInit BY DEF RefreshInit
<1>2. RInv /\ [RefreshNext]_refreshVars => [AtomicNext]_disk BY RInductive
<1>3. RefreshSpec => AtomicInit /\ [][AtomicNext]_disk BY <1>1, <1>2, RAlways, PTL DEF RefreshSpec
<1> QED BY <1>3 DEF WholeRefreshes, AtomicSpec
-----------------------------------------------------------------------------
(* What is said of the tables of a database: none has rows; all that exist    *)
(* have seen the same number of loads, at most b; the first exists if any     *)
(* does, as createTables makes them in order.                                 *)
Empties(d)   == \A t \in Created(d) : d[t] = <<>>
Whole(d, b)  == \E m \in 0..b : \A t \in Created(d) : d[t] = Loads(m, t)
FirstMade(d) == Created(d) # {} => d[TableSeq[1]] # NoTable

(* createTables makes tables only in a database that has none.                *)
FirstInv ==
  /\ \A j \in 1..Iterations : FirstMade(database[j])
  /\ pc = "create" /\ c > 1 => database[itr][TableSeq[1]] # NoTable /\ Empties(database[itr])

(* The transaction creates no tables, and gets past a file only if its table  *)
(* exists.                                                                    *)
DoneInv ==
  /\ pc \in {"dir", "insert"} =>
       /\ Created(rows) = Created(database[itr])
       /\ \A t \in Tables \ todo : rows[t] # NoTable \/ (pc = "insert" /\ t = table /\ line = 2)
  /\ pc = "remove" => Created(database[itr]) = Tables

(* The place in the file that is being loaded.                                *)
PlaceInFile ==
  pc = "insert" => /\ table \notin todo /\ line \in 2..(Len(Files[table]) + 1)
                   /\ num_columns = Columns[table] + 1

(* Without interruptions, only a database about to be removed has rows.       *)
FreshInv ==
  faults \cap {"kill", "rm"} = {} =>
    \A j \in 1..Iterations : (pc = "remove" /\ itr = j) \/ Empties(database[j])

(* The number of loads a database can have seen: this run's may be to come.   *)
Bound(j) == IF pc # "idle" /\ (itr < j \/ (itr = j /\ pc # "remove")) THEN run - 1 ELSE run

(* Every database has seen a whole number of loads.                           *)
LoadInv ==
  /\ pc # "idle" => run > 0
  /\ \A j \in 1..Iterations : Whole(database[j], Bound(j))

(* A table in the transaction, after m whole loads and its part of this one.  *)
PartLoad(m, t) == IF t \in todo THEN Loads(m, t)
                  ELSE IF pc = "insert" /\ t = table THEN Loads(m, t) \o SubSeq(LoadOf(t), 1, line - 2)
                  ELSE Loads(m + 1, t)

(* Every table of the transaction has seen the same number of them.           *)
PartInv ==
  pc \in {"dir", "insert"} => \E m \in 0..(run - 1) : \A t \in Created(rows) : rows[t] = PartLoad(m, t)

(* The inductive invariant.                                                   *)
TInv == LoadTypeOK /\ FirstInv /\ DoneInv /\ PlaceInFile /\ FreshInv /\ LoadInv /\ PartInv
-----------------------------------------------------------------------------
(* The rows of a table that exists.                                           *)
TRows == Seq(Seq(Pieces))

(* strtok gives back a line without empty fields.                             *)
LEMMA TokensAll ==
  ASSUME NEW S, NEW l \in Seq(S), \A p \in 1..Len(l) : l[p] # Empty
  PROVE  Tokens(l) = l
<1> DEFINE n == Len(l)
           full == {p \in 1..n : l[p] # Empty}
           upto(p) == {q \in full : q <= p}
           at(m) == CHOOSE p \in full : Cardinality(upto(p)) = m
<1>1. n \in Nat /\ DOMAIN l = 1..n /\ l = [m \in 1..n |-> l[m]]
  <2>1. Len(l) \in Nat /\ l \in [1..Len(l) -> S] BY LenProperties
  <2> QED BY <2>1
<1>2. full = 1..n OBVIOUS
<1>3. Tokens(l) = [m \in 1..Cardinality(full) |-> l[at(m)]] BY DEF Tokens
<1>4. Cardinality(full) = n
  <2>1. Cardinality(1..n) = n BY <1>1, FS_Interval
  <2> QED BY <1>2, <2>1
<1>5. ASSUME NEW p \in 1..n PROVE Cardinality(upto(p)) = p
  <2>1. upto(p) = 1..p BY <1>1, <1>2
  <2>2. Cardinality(1..p) = p BY <1>1, FS_Interval
  <2> QED BY <2>1, <2>2
<1> HIDE DEF n, full, upto
<1>6. ASSUME NEW m \in 1..n PROVE at(m) = m
  <2>1. m \in full /\ Cardinality(upto(m)) = m BY <1>2, <1>5
  <2>2. at(m) \in full /\ Cardinality(upto(at(m))) = m BY <2>1
  <2> QED BY <1>2, <1>5, <2>2
<1> HIDE DEF at
<1>7. [m \in 1..n |-> l[at(m)]] = [m \in 1..n |-> l[m]] BY <1>6
<1> QED BY <1>1, <1>3, <1>4, <1>7

(* The tables, and the lines of their files.                                  *)
LEMMA TableFacts ==
  /\ TableSeq[1] \in Tables /\ Len(TableSeq) \in Nat \ {0}
  /\ \A p \in 1..Len(TableSeq) : TableSeq[p] \in Tables
  /\ NoTable \notin TRows /\ Iterations \in Nat \ {0} /\ FaultModels \subseteq SUBSET FaultNames
  /\ \A t \in Tables : /\ Columns[t] \in Nat \ {0} /\ Len(Files[t]) \in Nat /\ Len(Files[t]) >= 2
                       /\ Files[t] \in Seq(DbgenLines(t))
<1>1. TableSeq \in Seq(Tables) /\ TableSeq # <<>> BY TableLoadAssumption
<1>2. Len(TableSeq) \in Nat \ {0} BY <1>1, EmptySeq, LenProperties
<1>3. \A p \in 1..Len(TableSeq) : TableSeq[p] \in Tables BY <1>1, ElementOfSeq
<1>4. \A t \in Tables : Len(Files[t]) \in Nat BY LenProperties, TableLoadAssumption
<1> QED BY <1>2, <1>3, <1>4, TableLoadAssumption, MainLoopAssumption DEF TRows

(* A line of a file: all of its pieces are fields, but the last.              *)
LEMMA LineFacts ==
  ASSUME NEW t \in Tables, NEW p \in 1..Len(Files[t])
  PROVE  LET l == Files[t][p] IN
         /\ l \in Seq(Pieces) /\ Len(l) = Columns[t] + 1 /\ Tokens(l) = l
         /\ Fields(l) = SubSeq(l, 1, Columns[t])
         /\ Fields(l) \in Seq(Pieces) /\ Len(Fields(l)) = Columns[t]
<1> DEFINE l == Files[t][p]
           w == Columns[t]
<1>1. w \in Nat \ {0} /\ l \in DbgenLines(t) BY TableFacts, ElementOfSeq
<1>2. l \in [1..(w + 1) -> Pieces \ {Empty}] BY <1>1 DEF DbgenLines
<1> HIDE DEF l, w
<1>3. l \in Seq(Pieces) BY <1>1, <1>2, SeqDef
<1>4. Len(l) = w + 1 BY <1>1, <1>2, <1>3, LenProperties
<1>5. \A m \in 1..(w + 1) : l[m] \in Pieces /\ l[m] # Empty BY <1>2
<1>6. Tokens(l) = l BY <1>3, <1>4, <1>5, TokensAll
<1>7. Fields(l) = SubSeq(l, 1, w)
  <2>1. Len(l) - 1 = w BY <1>1, <1>4
  <2> QED BY <2>1 DEF Fields
<1>8. \A m \in 1..w : l[m] \in Pieces BY <1>1, <1>5
<1>9. SubSeq(l, 1, w) \in Seq(Pieces) BY <1>1, <1>8, SubSeqProperties
<1>10. Len(SubSeq(l, 1, w)) = w BY <1>1, <1>8, SubSeqProperties
<1> QED BY <1>3, <1>4, <1>6, <1>7, <1>9, <1>10 DEF l, w

(* The values of an INSERT are the fields of the line.                        *)
LEMMA ValuesAre ==
  ASSUME NEW t \in Tables, NEW p \in 1..Len(Files[t]), num_columns = Columns[t] + 1
  PROVE  Values(Files[t][p]) = Fields(Files[t][p])
<1> DEFINE l == Files[t][p]
<1>1. Columns[t] \in Nat BY TableFacts
<1>2. Len(l) = Columns[t] + 1 /\ Tokens(l) = l /\ Fields(l) = SubSeq(l, 1, Columns[t]) BY LineFacts
<1> HIDE DEF l
<1>3. num_columns - 1 = Columns[t] /\ Columns[t] < Len(Tokens(l)) BY <1>1, <1>2
<1>4. Values(l) = SubSeq(Tokens(l), 1, Columns[t]) BY <1>3 DEF Values
<1> QED BY <1>2, <1>4 DEF l

(* What one load adds.                                                        *)
LEMMA LoadOfFacts ==
  ASSUME NEW t \in Tables
  PROVE  /\ LoadOf(t) \in TRows /\ Len(LoadOf(t)) = Len(Files[t]) - 1 /\ Len(LoadOf(t)) \in Nat \ {0}
         /\ \A p \in 1..(Len(Files[t]) - 1) : LoadOf(t)[p] = Fields(Files[t][p + 1])
<1> DEFINE h == Len(Files[t]) - 1
           L == LoadOf(t)
<1>1. h \in Nat \ {0} /\ \A p \in 1..h : p + 1 \in 1..Len(Files[t])
  <2>1. Len(Files[t]) \in Nat /\ Len(Files[t]) >= 2 BY TableFacts
  <2>2. \A g \in Nat : g >= 2 => g - 1 \in Nat \ {0} /\ \A p \in 1..(g - 1) : p + 1 \in 1..g OBVIOUS
  <2> QED BY <2>1, <2>2
<1>2. L = [p \in 1..h |-> Fields(Files[t][p + 1])] BY DEF LoadOf
<1>3. \A p \in 1..h : Fields(Files[t][p + 1]) \in Seq(Pieces) BY <1>1, LineFacts
<1> HIDE DEF h, L
<1>4. L \in [1..h -> Seq(Pieces)] BY <1>2, <1>3
<1>5. L \in Seq(Seq(Pieces)) BY <1>1, <1>4, SeqDef
<1>6. Len(L) = h BY <1>1, <1>4, <1>5, LenProperties
<1> QED BY <1>1, <1>2, <1>5, <1>6 DEF h, L, TRows

(* m loads are a table of so many rows.                                       *)
LEMMA LoadsFacts ==
  ASSUME NEW t \in Tables, NEW m \in Nat
  PROVE  /\ Loads(m, t) \in TRows /\ Len(Loads(m, t)) = m * Len(LoadOf(t)) /\ m * Len(LoadOf(t)) \in Nat
         /\ \A p \in 1..(m * Len(LoadOf(t))) :
              Loads(m, t)[p] = LoadOf(t)[((p - 1) % Len(LoadOf(t))) + 1]
<1> DEFINE L == LoadOf(t)
           h == Len(L)
           A == Loads(m, t)
<1>1. h \in Nat \ {0} /\ L \in Seq(Seq(Pieces)) BY LoadOfFacts DEF TRows
<1>2. A = [p \in 1..(m * h) |-> L[((p - 1) % h) + 1]] BY DEF Loads
<1> HIDE DEF L, A
<1>3. \A p \in 1..h : L[p] \in Seq(Pieces) BY <1>1, ElementOfSeq
<1> HIDE DEF h
<1>4. m * h \in Nat BY <1>1
<1>5. ASSUME NEW p \in 1..(m * h) PROVE ((p - 1) % h) + 1 \in 1..h
  <2>1. p - 1 \in Nat BY <1>4
  <2>2. (p - 1) % h \in 0..(h - 1) BY <1>1, <2>1, DivMod
  <2> QED BY <1>1, <2>2
<1>6. A \in [1..(m * h) -> Seq(Pieces)] BY <1>2, <1>3, <1>5
<1>7. A \in Seq(Seq(Pieces)) /\ Len(A) = m * h
  <2> DEFINE N == m * h
  <2>1. N \in Nat /\ A \in [1..N -> Seq(Pieces)] BY <1>4, <1>6
  <2> HIDE DEF N
  <2>2. A \in Seq(Seq(Pieces)) BY <2>1, SeqDef
  <2>3. Len(A) = N BY <2>1, <2>2, LenProperties
  <2> QED BY <2>2, <2>3 DEF N
<1> QED BY <1>2, <1>4, <1>7 DEF A, h, L, TRows

(* One load more.                                                             *)
LEMMA OneMore ==
  ASSUME NEW t \in Tables, NEW m \in Nat
  PROVE  Loads(m, t) \o LoadOf(t) = Loads(m + 1, t)
<1> DEFINE L == LoadOf(t)
           h == Len(L)
           A == Loads(m, t)
           B == Loads(m + 1, t)
           C == A \o L
<1>1. h \in Nat \ {0} /\ L \in TRows BY LoadOfFacts
<1>2. /\ A \in TRows /\ Len(A) = m * h /\ m * h \in Nat
      /\ \A p \in 1..(m * h) : A[p] = L[((p - 1) % h) + 1]
  BY LoadsFacts
<1>3. m + 1 \in Nat OBVIOUS
<1>4. /\ B \in TRows /\ Len(B) = (m + 1) * h
      /\ \A p \in 1..((m + 1) * h) : B[p] = L[((p - 1) % h) + 1]
  BY <1>3, LoadsFacts
<1>5. (m + 1) * h = m * h + h BY <1>1
<1> HIDE DEF A, B, L, h
<1>6. Len(L) = h BY DEF h
<1>7. C \in TRows /\ Len(C) = m * h + h
  <2>1. A \in Seq(Seq(Pieces)) /\ L \in Seq(Seq(Pieces)) BY <1>1, <1>2 DEF TRows
  <2>2. C \in Seq(Seq(Pieces)) BY <2>1, ConcatProperties
  <2>3. Len(C) = Len(A) + Len(L) BY <2>1, ConcatProperties
  <2> QED BY <1>2, <1>6, <2>2, <2>3 DEF TRows
<1>8. \A p \in 1..(m * h + h) : C[p] = IF p <= m * h THEN A[p] ELSE L[p - m * h]
  <2>1. A \in Seq(Seq(Pieces)) /\ L \in Seq(Seq(Pieces)) BY <1>1, <1>2 DEF TRows
  <2>2. \A p \in 1..(Len(A) + Len(L)) : C[p] = IF p <= Len(A) THEN A[p] ELSE L[p - Len(A)] BY <2>1, ConcatProperties
  <2> QED BY <1>2, <1>6, <2>2
<1> HIDE DEF C
<1>9. ASSUME NEW p \in 1..(m * h + h) PROVE C[p] = B[p]
  <2>0. B[p] = L[((p - 1) % h) + 1] BY <1>4, <1>5
  <2>1. CASE p <= m * h
    <3>1. p \in 1..(m * h) BY <1>2, <2>1
    <3> QED BY <1>2, <1>8, <2>0, <2>1, <3>1
  <2>2. CASE ~(p <= m * h)
    <3> DEFINE x == p - 1
               s == x - m * h
               a == x \div h
               r == x % h
    <3>1. x \in Nat /\ s \in 0..(h - 1) /\ x = m * h + s BY <1>1, <1>2, <2>2
    <3>2. a \in Nat /\ r \in 0..(h - 1) /\ x = a * h + r BY <1>1, <3>1, DivMod
    <3> HIDE DEF x, s, a, r
    <3>3. a * h + r = m * h + s BY <3>1, <3>2
    <3>4. r = s
      <4>1. h \in Nat \ {0} /\ a \in Nat /\ r \in 0..(h - 1) /\ m \in Nat /\ s \in 0..(h - 1) BY <1>1, <3>1, <3>2
      <4>2. a * h + r = m * h + s => r = s BY <4>1, Unique
      <4> QED BY <3>3, <4>2
    <3>5. p - m * h = s + 1 BY <1>1, <1>2 DEF s, x
    <3>6. ((p - 1) % h) + 1 = s + 1 BY <3>4 DEF r, x
    <3> QED BY <1>8, <2>0, <2>2, <3>5, <3>6
  <2> QED BY <2>1, <2>2
<1>10. C = B
  <2>1. C \in Seq(Seq(Pieces)) /\ B \in Seq(Seq(Pieces)) /\ Len(C) = Len(B) BY <1>4, <1>5, <1>7 DEF TRows
  <2>2. \A p \in 1..Len(C) : C[p] = B[p] BY <1>7, <1>9
  <2> QED BY <2>1, <2>2, SeqEqual
<1> QED BY <1>10 DEF A, B, C, L

(* No load leaves a table empty.                                              *)
LEMMA NoLoad == ASSUME NEW t \in Tables PROVE Loads(0, t) = <<>>
<1>1. Len(LoadOf(t)) \in Nat BY LoadOfFacts
<1>2. Loads(0, t) \in TRows /\ Len(Loads(0, t)) = 0 BY <1>1, LoadsFacts
<1> QED BY <1>2, EmptySeq DEF TRows

(* The rows of a table are never mistaken for a table that does not exist.    *)
LEMMA RowsAreRows == TableRows = TRows \cup {NoTable}
BY DEF TableRows, TRows
-----------------------------------------------------------------------------
(* The parts of the types.                                                    *)
TTypes ==
  /\ faults \in SUBSET FaultNames /\ pc \in {"idle", "create", "begin", "dir", "insert", "remove"}
  /\ run \in Nat /\ itr \in 1..Iterations /\ c \in 1..(Len(TableSeq) + 1)
  /\ todo \subseteq Tables /\ table \in Tables /\ line \in Nat /\ num_columns \in Nat
  /\ rows \in [Tables -> TableRows] /\ database \in [1..Iterations -> [Tables -> TableRows]]

(* They are what TypeOK says.                                                 *)
LEMMA TTypesAre == (LoadTypeOK <=> TTypes) /\ (LoadTypeOK' <=> TTypes')
BY DEF LoadTypeOK, TTypes

(* No database file exists.                                                   *)
LEMMA TStarts == ASSUME LoadInit PROVE TInv
<1>0. /\ TableSeq[1] \in Tables /\ Len(TableSeq) \in Nat \ {0} /\ Iterations \in Nat \ {0}
      /\ FaultModels \subseteq SUBSET FaultNames
  BY TableFacts
<1>1. /\ faults \in FaultModels /\ pc = "idle" /\ run = 0 /\ itr = 1 /\ c = 1
      /\ database = [j \in 1..Iterations |-> NoTables] /\ rows = NoTables /\ todo = {} /\ table = TableSeq[1]
      /\ line = 1 /\ num_columns = 0
  BY DEF LoadInit
<1>2. NoTables \in [Tables -> TableRows] /\ Created(NoTables) = {}
  BY RowsAreRows DEF NoTables, Created
<1>3. \A j \in 1..Iterations : database[j] = NoTables BY <1>1
<1>4. TTypes BY <1>0, <1>1, <1>2 DEF TTypes
<1>5. Empties(NoTables) /\ FirstMade(NoTables) BY <1>2 DEF Empties, FirstMade
<1>6. Whole(NoTables, 0)
  <2>1. 0 \in 0..0 OBVIOUS
  <2> QED BY <1>2, <2>1 DEF Whole
<1>7. \A j : Bound(j) = 0 BY <1>1 DEF Bound
<1>8. LoadInv BY <1>1, <1>3, <1>6, <1>7 DEF LoadInv
<1>9. FirstInv /\ FreshInv BY <1>1, <1>3, <1>5 DEF FirstInv, FreshInv
<1>10. DoneInv /\ PlaceInFile /\ PartInv BY <1>1 DEF DoneInv, PlaceInFile, PartInv
<1> QED BY <1>4, <1>8, <1>9, <1>10, TTypesAre DEF TInv

(* A larger bound.                                                            *)
LEMMA WholeUp ==
  ASSUME NEW d, NEW a \in Int, NEW b \in Int, a <= b, Whole(d, a)
  PROVE  Whole(d, b)
<1>1. \A m \in 0..a : m \in 0..b OBVIOUS
<1> QED BY <1>1 DEF Whole

(* The files on database stay, and no run may have loaded more or fewer of them.  *)
LEMMA LoadStays ==
  ASSUME LoadInv, database' = database, pc' # "idle" => run' > 0,
         \A j \in 1..Iterations : Bound(j) \in Int /\ Bound(j)' \in Int /\ Bound(j) <= Bound(j)'
  PROVE  LoadInv'
<1>1. ASSUME NEW j \in 1..Iterations PROVE Whole(database'[j], Bound(j)')
  <2>1. Whole(database[j], Bound(j)) BY DEF LoadInv
  <2> QED BY <2>1, WholeUp
<1> QED BY <1>1 DEF LoadInv

(* The program stops or createTables returns: nothing else changes.           *)
LEMMA TQuiet ==
  ASSUME TInv, UNCHANGED <<faults, run, itr, c, database, rows, todo, table, line, num_columns>>,
         pc' = "idle" \/ (pc = "create" /\ pc' = "begin"),
         pc = "remove" => faults \cap {"kill", "rm"} # {}
  PROVE  TInv'
<1>0. TTypes /\ FirstInv /\ FreshInv /\ LoadInv BY TTypesAre DEF TInv
<1>1. TTypes' BY <1>0 DEF TTypes
<1>2. FirstInv' BY <1>0 DEF FirstInv
<1>3. DoneInv' /\ PlaceInFile' /\ PartInv' BY DEF DoneInv, PlaceInFile, PartInv
<1>4. FreshInv' BY <1>0 DEF FreshInv
<1>5. LoadInv'
  <2>1. pc' # "idle" => run' > 0 BY <1>0 DEF LoadInv
  <2>2. ASSUME NEW j \in 1..Iterations PROVE Bound(j) \in Int /\ Bound(j)' \in Int /\ Bound(j) <= Bound(j)'
    BY <1>0 DEF Bound, TTypes
  <2> QED BY <1>0, <2>1, <2>2, LoadStays
<1> QED BY <1>1, <1>2, <1>3, <1>4, <1>5, TTypesAre DEF TInv

(* A new run begins with the first database.                                  *)
LEMMA TStart == ASSUME TInv, LoadStart PROVE TInv'
<1>0. TTypes /\ FirstInv /\ FreshInv /\ LoadInv /\ Iterations \in Nat \ {0} /\ Len(TableSeq) \in Nat
  BY TTypesAre, TableFacts DEF TInv
<1>1. /\ pc = "idle" /\ run' = run + 1 /\ itr' = 1 /\ c' = 1 /\ pc' = "create"
      /\ UNCHANGED <<faults, database, rows, todo, table, line, num_columns>>
  BY DEF LoadStart, load
<1>2. TTypes' BY <1>0, <1>1 DEF TTypes
<1>3. FirstInv' BY <1>0, <1>1 DEF FirstInv
<1>4. DoneInv' /\ PlaceInFile' /\ PartInv' BY <1>1 DEF DoneInv, PlaceInFile, PartInv
<1>5. FreshInv' BY <1>0, <1>1 DEF FreshInv
<1>6. LoadInv'
  <2>1. run' > 0 BY <1>0, <1>1 DEF TTypes
  <2>2. ASSUME NEW j \in 1..Iterations PROVE Bound(j) \in Int /\ Bound(j)' \in Int /\ Bound(j) <= Bound(j)'
    BY <1>0, <1>1 DEF Bound, TTypes
  <2> QED BY <1>0, <1>1, <2>1, <2>2, LoadStays
<1> QED BY <1>2, <1>3, <1>4, <1>5, <1>6, TTypesAre DEF TInv

(* createTables adds a table to a database whose tables, if any, are empty.   *)
LEMMA TCreateTable == ASSUME TInv, CreateTable PROVE TInv'
<1>0. /\ TTypes /\ FirstInv /\ FreshInv /\ LoadInv /\ Len(TableSeq) \in Nat \ {0} /\ TableSeq[1] \in Tables
      /\ (\A p \in 1..Len(TableSeq) : TableSeq[p] \in Tables) /\ NoTable \notin TRows
  BY TTypesAre, TableFacts DEF TInv
<1> DEFINE x == TableSeq[c]
           d == [database[itr] EXCEPT ![x] = <<>>]
<1>1. /\ pc = "create" /\ c <= Len(TableSeq) /\ database[itr][x] = NoTable /\ database' = [database EXCEPT ![itr] = d] /\ c' = c + 1
      /\ UNCHANGED <<faults, pc, run, itr, rows, todo, table, line, num_columns>>
  BY DEF CreateTable, load
<1>2. x \in Tables /\ itr \in 1..Iterations /\ database[itr] \in [Tables -> TableRows] BY <1>0, <1>1 DEF TTypes
<1>3. <<>> \in TRows /\ <<>> # NoTable BY <1>0, EmptySeq DEF TRows
<1>4. Empties(database[itr])
  <2>1. CASE c > 1 BY <1>0, <1>1, <2>1 DEF FirstInv
  <2>2. CASE ~(c > 1)
    <3>1. c = 1 BY <1>0, <2>2 DEF TTypes
    <3>2. Created(database[itr]) = {} BY <1>0, <1>1, <1>2, <3>1 DEF FirstInv, FirstMade
    <3> QED BY <3>2 DEF Empties
  <2> QED BY <2>1, <2>2
<1>5. /\ d \in [Tables -> TableRows] /\ d[x] = <<>> /\ \A t \in Tables \ {x} : d[t] = database[itr][t]
  BY <1>2, <1>3, RowsAreRows
<1>6. database' \in [1..Iterations -> [Tables -> TableRows]] /\ database'[itr] = d /\ \A j \in 1..Iterations \ {itr} : database'[j] = database[j]
  BY <1>0, <1>1, <1>2, <1>5 DEF TTypes
<1> HIDE DEF d, x
<1>7. Empties(d) BY <1>2, <1>4, <1>5 DEF Empties, Created
<1>8. d[TableSeq[1]] # NoTable
  <2>1. CASE c > 1 BY <1>0, <1>1, <1>3, <1>5, <2>1 DEF FirstInv
  <2>2. CASE ~(c > 1)
    <3>1. c = 1 BY <1>0, <2>2 DEF TTypes
    <3> QED BY <1>3, <1>5, <3>1 DEF x
  <2> QED BY <2>1, <2>2
<1>9. TTypes'
  <2>1. c + 1 \in 1..(Len(TableSeq) + 1) BY <1>0, <1>1 DEF TTypes
  <2> QED BY <1>0, <1>1, <1>6, <2>1 DEF TTypes
<1>10. FirstInv'
  <2>1. ASSUME NEW j \in 1..Iterations PROVE FirstMade(database'[j])
    <3>1. CASE j = itr BY <1>6, <1>8, <3>1 DEF FirstMade
    <3>2. CASE j # itr BY <1>0, <1>6, <3>2 DEF FirstInv
    <3> QED BY <3>1, <3>2
  <2> QED BY <1>1, <1>6, <1>7, <1>8, <2>1 DEF FirstInv
<1>11. DoneInv' /\ PlaceInFile' /\ PartInv' BY <1>1 DEF DoneInv, PlaceInFile, PartInv
<1>12. FreshInv'
  <2>1. ASSUME NEW j \in 1..Iterations, faults \cap {"kill", "rm"} = {} PROVE Empties(database'[j])
    <3>1. CASE j = itr BY <1>6, <1>7, <3>1
    <3>2. CASE j # itr BY <1>0, <1>1, <1>6, <2>1, <3>2 DEF FreshInv
    <3> QED BY <3>1, <3>2
  <2> QED BY <1>1, <2>1 DEF FreshInv
<1>13. LoadInv'
  <2>1. ASSUME NEW j \in 1..Iterations PROVE Whole(database'[j], Bound(j)')
    <3>1. Bound(j)' = Bound(j) BY <1>1 DEF Bound
    <3>2. CASE j = itr
      <4>1. 0 \in 0..Bound(itr)
        <5>1. run \in Nat /\ run > 0 /\ itr \in Int BY <1>0, <1>1, <1>2 DEF TTypes, LoadInv
        <5> QED BY <1>1, <5>1 DEF Bound
      <4>2. \A t \in Created(d) : d[t] = Loads(0, t) BY <1>7, NoLoad DEF Empties, Created
      <4>3. Whole(d, Bound(itr)) BY <4>1, <4>2 DEF Whole
      <4> QED BY <1>6, <3>1, <3>2, <4>3
    <3>3. CASE j # itr BY <1>0, <1>6, <3>1, <3>3 DEF LoadInv
    <3> QED BY <3>2, <3>3
  <2> QED BY <1>0, <1>1, <2>1 DEF LoadInv
<1> QED BY <1>9, <1>10, <1>11, <1>12, <1>13, TTypesAre DEF TInv

(* BEGIN TRANSACTION, and the directory is opened.                            *)
LEMMA TBegin == ASSUME TInv, Begin PROVE TInv'
<1>0. TTypes /\ FirstInv /\ FreshInv /\ LoadInv BY TTypesAre DEF TInv
<1>1. /\ pc = "begin" /\ pc' = "dir" /\ rows' = database[itr] /\ todo' = Tables
      /\ UNCHANGED <<faults, run, itr, c, database, table, line, num_columns>>
  BY DEF Begin
<1>2. itr \in 1..Iterations /\ database[itr] \in [Tables -> TableRows] BY <1>0 DEF TTypes
<1>3. TTypes' BY <1>0, <1>1, <1>2 DEF TTypes
<1>4. FirstInv' /\ FreshInv' BY <1>0, <1>1 DEF FirstInv, FreshInv
<1>5. DoneInv' /\ PlaceInFile' BY <1>1 DEF DoneInv, PlaceInFile
<1>6. LoadInv'
  <2>1. \A j : Bound(j)' = Bound(j) BY <1>1 DEF Bound
  <2> QED BY <1>0, <1>1, <2>1 DEF LoadInv
<1>7. PartInv'
  <2>1. Whole(database[itr], run - 1)
    <3>1. Bound(itr) = run - 1 BY <1>1, <1>2 DEF Bound
    <3> QED BY <1>0, <1>2, <3>1 DEF LoadInv
  <2>2. PICK m \in 0..(run - 1) : \A t \in Created(database[itr]) : database[itr][t] = Loads(m, t) BY <2>1 DEF Whole
  <2>3. \A t \in Tables : PartLoad(m, t)' = Loads(m, t) BY <1>1 DEF PartLoad
  <2>4. \A t \in Created(rows') : rows'[t] = PartLoad(m, t)' BY <1>1, <2>2, <2>3 DEF Created
  <2> QED BY <1>1, <2>2, <2>4 DEF PartInv
<1> QED BY <1>3, <1>4, <1>5, <1>6, <1>7, TTypesAre DEF TInv

(* What no step of the inserts disturbs.                                      *)
LEMMA DiskStays ==
  ASSUME TInv, UNCHANGED <<faults, run, itr, c, database>>, pc \in {"dir", "insert"}, pc' \in {"dir", "insert"}
  PROVE  FirstInv' /\ FreshInv' /\ LoadInv'
<1>0. FirstInv /\ FreshInv /\ LoadInv BY DEF TInv
<1>1. \A j : Bound(j)' = Bound(j) BY DEF Bound
<1> QED BY <1>0, <1>1 DEF FirstInv, FreshInv, LoadInv

(* readdir gives a file; its first line is read and not inserted.             *)
LEMMA TOpenFile == ASSUME TInv, NEW x \in Tables, OpenFile(x) PROVE TInv'
<1>0. TTypes /\ DoneInv /\ PartInv BY TTypesAre DEF TInv
<1>1. /\ pc = "dir" /\ x \in todo /\ todo' = todo \ {x} /\ table' = x /\ line' = 2 /\ pc' = "insert"
      /\ num_columns' = (IF Files[x] = <<>> THEN 0 ELSE Len(Tokens(Files[x][1])))
      /\ UNCHANGED <<faults, run, itr, c, database, rows>>
  BY DEF OpenFile
<1>2. Columns[x] \in Nat \ {0} /\ Len(Files[x]) \in Nat /\ Len(Files[x]) >= 2 BY TableFacts
<1>3. num_columns' = Columns[x] + 1
  <2>1. Files[x] # <<>> /\ 1 \in 1..Len(Files[x]) BY <1>2, EmptySeq
  <2>2. Len(Tokens(Files[x][1])) = Columns[x] + 1 BY <2>1, LineFacts
  <2> QED BY <1>1, <2>1, <2>2
<1>4. TTypes' BY <1>0, <1>1, <1>2, <1>3 DEF TTypes
<1>5. FirstInv' /\ FreshInv' /\ LoadInv' BY <1>1, DiskStays
<1>6. DoneInv' BY <1>0, <1>1 DEF DoneInv
<1>7. PlaceInFile' BY <1>1, <1>2, <1>3 DEF PlaceInFile
<1>8. PartInv'
  <2>1. PICK m \in 0..(run - 1) : \A t \in Created(rows) : rows[t] = PartLoad(m, t) BY <1>0, <1>1 DEF PartInv
  <2>2. m \in Nat BY <1>0 DEF TTypes
  <2>3. PartLoad(m, x)' = Loads(m, x)
    <3> DEFINE A == Loads(m, x)
               L == LoadOf(x)
    <3>1. A \in Seq(Seq(Pieces)) BY <2>2, LoadsFacts DEF TRows
    <3>2. PartLoad(m, x)' = A \o SubSeq(L, 1, 0) BY <1>1 DEF PartLoad
    <3> HIDE DEF A, L
    <3>3. SubSeq(L, 1, 0) = <<>> BY SubSeqProperties
    <3>4. A \o <<>> = A BY <3>1, ConcatEmptySeq
    <3> QED BY <3>2, <3>3, <3>4 DEF A
  <2>4. \A t \in Tables \ {x} : PartLoad(m, t)' = PartLoad(m, t) BY <1>1 DEF PartLoad
  <2>5. PartLoad(m, x) = Loads(m, x) BY <1>1 DEF PartLoad
  <2>6. \A t \in Created(rows') : rows'[t] = PartLoad(m, t)' BY <1>1, <2>1, <2>3, <2>4, <2>5 DEF Created
  <2> QED BY <1>1, <2>1, <2>6 DEF PartInv
<1> QED BY <1>4, <1>5, <1>6, <1>7, <1>8, TTypesAre DEF TInv

(* A row added to two pieces is added to the second.                          *)
LEMMA AppendToSecond ==
  ASSUME NEW S, NEW A \in Seq(S), NEW P \in Seq(S), NEW x \in S
  PROVE  Append(A \o P, x) = A \o (P \o <<x>>)
<1>1. A \o P \in Seq(S) BY ConcatProperties
<1>2. Append(A \o P, x) = (A \o P) \o <<x>> BY <1>1, AppendIsConcat
<1>3. ASSUME NEW y \in Seq(S) PROVE (A \o P) \o y = A \o (P \o y) BY ConcatAssociative
<1>4. <<x>> \in Seq(S) OBVIOUS
<1>5. (A \o P) \o <<x>> = A \o (P \o <<x>>) BY <1>3, <1>4
<1> QED BY <1>2, <1>5

(* Adding the next row to a part of a load makes a longer part.               *)
LEMMA PartGrows ==
  ASSUME NEW S, NEW A \in Seq(S), NEW L \in Seq(S), NEW p \in 0..(Len(L) - 1)
  PROVE  Append(A \o SubSeq(L, 1, p), L[p + 1]) = A \o SubSeq(L, 1, p + 1)
<1> DEFINE P == SubSeq(L, 1, p)
           x == L[p + 1]
<1>0. Len(L) \in Nat /\ p \in Nat /\ 1 \in 1..Len(L) /\ p + 1 \in 1..Len(L) /\ (p + 1) - 1 = p BY LenProperties
<1>1. \A q \in 1..Len(L) : L[q] \in S BY ElementOfSeq
<1>2. \A q \in 1..p : L[q] \in S BY <1>0, <1>1
<1>3. P \in Seq(S) /\ x \in S BY <1>0, <1>1, <1>2, SubSeqProperties
<1>4. SubSeq(L, 1, p + 1) = SubSeq(L, 1, (p + 1) - 1) \o <<x>> BY <1>0, SubSeqRecursiveSecond
<1>5. SubSeq(L, 1, p + 1) = P \o <<x>> BY <1>0, <1>4
<1> HIDE DEF P, x
<1>6. Append(A \o P, x) = A \o (P \o <<x>>) BY <1>3, AppendToSecond
<1> QED BY <1>5, <1>6 DEF P, x

(* A line is inserted: its fields, into a table that exists.                  *)
LEMMA TInsertLine == ASSUME TInv, InsertLine PROVE TInv'
<1>0. TTypes /\ DoneInv /\ PlaceInFile /\ PartInv /\ NoTable \notin TRows BY TTypesAre, TableFacts DEF TInv
<1> DEFINE v == Values(Files[table][line])
           s == Append(rows[table], v)
<1>1. /\ pc = "insert" /\ line <= Len(Files[table]) /\ rows[table] # NoTable
      /\ rows' = [rows EXCEPT ![table] = s] /\ line' = line + 1
      /\ UNCHANGED <<faults, pc, run, itr, c, database, todo, table, num_columns>>
  BY DEF InsertLine, Insertable
<1>2. table \in Tables /\ rows[table] \in TRows /\ Len(Files[table]) \in Nat
  <2>1. table \in Tables /\ rows[table] \in TableRows BY <1>0 DEF TTypes
  <2> QED BY <1>1, <2>1, RowsAreRows, TableFacts
<1>3. /\ table \notin todo /\ line \in 2..(Len(Files[table]) + 1) /\ num_columns = Columns[table] + 1
  BY <1>0, <1>1 DEF PlaceInFile
<1>4. line \in 1..Len(Files[table]) /\ line - 1 \in 1..(Len(Files[table]) - 1) /\ (line - 1) + 1 = line
      /\ (line - 2) + 1 = line - 1 /\ line - 2 \in 0..((Len(Files[table]) - 1) - 1) /\ (line + 1) - 2 = line - 1
  BY <1>1, <1>2, <1>3
<1>5. v = LoadOf(table)[line - 1] /\ v \in Seq(Pieces)
  <2>1. v = Fields(Files[table][line]) BY <1>2, <1>3, <1>4, ValuesAre
  <2>2. LoadOf(table)[line - 1] = Fields(Files[table][(line - 1) + 1]) BY <1>2, <1>4, LoadOfFacts
  <2>3. Fields(Files[table][line]) \in Seq(Pieces) BY <1>2, <1>4, LineFacts
  <2> QED BY <1>4, <2>1, <2>2, <2>3
<1> HIDE DEF v
<1>6. s \in TRows /\ s # NoTable
  <2>1. s \in TRows BY <1>2, <1>5, AppendProperties DEF TRows
  <2> QED BY <1>0, <2>1
<1>7. rows' \in [Tables -> TableRows] /\ rows'[table] = s /\ \A t \in Tables \ {table} : rows'[t] = rows[t]
  BY <1>0, <1>1, <1>2, <1>6, RowsAreRows DEF TTypes
<1>8. Created(rows') = Created(rows) BY <1>1, <1>6, <1>7 DEF Created
<1>9. TTypes'
  <2>1. line + 1 \in Nat BY <1>3, <1>4
  <2> QED BY <1>0, <1>1, <1>7, <2>1 DEF TTypes
<1>10. FirstInv' /\ FreshInv' /\ LoadInv' BY <1>1, DiskStays
<1>11. DoneInv'
  <2>1. Created(rows') = Created(database'[itr']) BY <1>0, <1>1, <1>8 DEF DoneInv
  <2>2. ASSUME NEW t \in Tables \ todo PROVE rows'[t] # NoTable
    <3>1. CASE t = table BY <1>6, <1>7, <3>1
    <3>2. CASE t # table BY <1>0, <1>1, <1>7, <3>2 DEF DoneInv
    <3> QED BY <3>1, <3>2
  <2> QED BY <1>1, <2>1, <2>2 DEF DoneInv
<1>12. PlaceInFile'
  <2>1. \A a, b \in Nat : a \in 1..b => a + 1 \in 2..(b + 1) OBVIOUS
  <2>2. line \in Nat /\ Len(Files[table]) \in Nat BY <1>2, <1>4
  <2>3. line + 1 \in 2..(Len(Files[table]) + 1) BY <1>4, <2>1, <2>2
  <2> QED BY <1>1, <1>3, <2>3 DEF PlaceInFile
<1>13. PartInv'
  <2>1. PICK m \in 0..(run - 1) : \A t \in Created(rows) : rows[t] = PartLoad(m, t) BY <1>0, <1>1 DEF PartInv
  <2>2. m \in Nat BY <1>0 DEF TTypes
  <2> DEFINE A == Loads(m, table)
             L == LoadOf(table)
  <2>3. A \in Seq(Seq(Pieces)) /\ L \in Seq(Seq(Pieces)) /\ Len(L) = Len(Files[table]) - 1
    BY <1>2, <2>2, LoadsFacts, LoadOfFacts DEF TRows
  <2>4. rows[table] = A \o SubSeq(L, 1, line - 2)
    <3>1. table \in Created(rows) BY <1>1, <1>2 DEF Created
    <3> QED BY <1>1, <1>3, <2>1, <3>1 DEF PartLoad
  <2>5. ASSUME NEW t, t = table PROVE PartLoad(m, t)' = A \o SubSeq(L, 1, line - 1)
    <3>1. PartLoad(m, t)' = A \o SubSeq(L, 1, (line + 1) - 2) BY <1>1, <1>3, <2>5 DEF PartLoad
    <3> QED BY <1>4, <3>1
  <2>6. s = A \o SubSeq(L, 1, line - 1)
    <3> HIDE DEF A, L
    <3> DEFINE p == line - 2
    <3>1. p \in 0..(Len(L) - 1) /\ p + 1 = line - 1 BY <1>4, <2>3
    <3>2. v = L[p + 1] BY <1>5, <3>1 DEF L
    <3>3. rows[table] = A \o SubSeq(L, 1, p) BY <2>4
    <3> HIDE DEF p
    <3>4. Append(A \o SubSeq(L, 1, p), L[p + 1]) = A \o SubSeq(L, 1, p + 1) BY <2>3, <3>1, PartGrows
    <3> QED BY <3>1, <3>2, <3>3, <3>4
  <2>7. ASSUME NEW t \in Tables \ {table} PROVE PartLoad(m, t)' = PartLoad(m, t) BY <1>1 DEF PartLoad
  <2> HIDE DEF s
  <2>8. \A t \in Created(rows') : rows'[t] = PartLoad(m, t)'
    <3> SUFFICES ASSUME NEW t \in Created(rows') PROVE rows'[t] = PartLoad(m, t)' OBVIOUS
    <3>1. t \in Tables /\ t \in Created(rows) BY <1>8 DEF Created
    <3>2. CASE t = table BY <1>7, <2>5, <2>6, <3>2
    <3>3. CASE t # table BY <1>7, <2>1, <2>7, <3>1, <3>3
    <3> QED BY <3>2, <3>3
  <2> QED BY <1>1, <2>1, <2>8 DEF PartInv
<1> QED BY <1>9, <1>10, <1>11, <1>12, <1>13, TTypesAre DEF TInv

(* The end of a file: its table has had one more load.                        *)
LEMMA TEndOfFile == ASSUME TInv, EndOfFile PROVE TInv'
<1>0. TTypes /\ DoneInv /\ PlaceInFile /\ PartInv BY TTypesAre DEF TInv
<1>1. /\ pc = "insert" /\ line > Len(Files[table]) /\ pc' = "dir"
      /\ UNCHANGED <<faults, run, itr, c, database, rows, todo, table, line, num_columns>>
  BY DEF EndOfFile, load
<1>2. table \in Tables /\ Len(Files[table]) \in Nat /\ Len(Files[table]) >= 2 BY <1>0, TableFacts DEF TTypes
<1>3. table \notin todo /\ line = Len(Files[table]) + 1 /\ line # 2
  <2>1. table \notin todo /\ line \in 2..(Len(Files[table]) + 1) BY <1>0, <1>1 DEF PlaceInFile
  <2> QED BY <1>1, <1>2, <2>1
<1>4. TTypes' BY <1>0, <1>1 DEF TTypes
<1>5. FirstInv' /\ FreshInv' /\ LoadInv' BY <1>1, DiskStays
<1>6. DoneInv' BY <1>0, <1>1, <1>3 DEF DoneInv
<1>7. PlaceInFile' BY <1>1 DEF PlaceInFile
<1>8. PartInv'
  <2>1. PICK m \in 0..(run - 1) : \A t \in Created(rows) : rows[t] = PartLoad(m, t) BY <1>0, <1>1 DEF PartInv
  <2>2. m \in Nat BY <1>0 DEF TTypes
  <2>3. PartLoad(m, table) = PartLoad(m, table)'
    <3> DEFINE A == Loads(m, table)
               L == LoadOf(table)
    <3>1. L \in Seq(Seq(Pieces)) /\ Len(L) = Len(Files[table]) - 1 BY <1>2, LoadOfFacts DEF TRows
    <3>2. PartLoad(m, table) = A \o SubSeq(L, 1, line - 2) BY <1>1, <1>3 DEF PartLoad
    <3>3. PartLoad(m, table)' = Loads(m + 1, table) BY <1>1, <1>3 DEF PartLoad
    <3>4. A \o L = Loads(m + 1, table) BY <1>2, <2>2, OneMore
    <3> HIDE DEF A, L
    <3>5. line - 2 = Len(L) BY <1>2, <1>3, <3>1
    <3>6. SubSeq(L, 1, Len(L)) = L BY <3>1, SubSeqFull
    <3> QED BY <3>2, <3>3, <3>4, <3>5, <3>6
  <2>4. ASSUME NEW t \in Tables \ {table} PROVE PartLoad(m, t)' = PartLoad(m, t) BY <1>1 DEF PartLoad
  <2>5. \A t \in Created(rows') : rows'[t] = PartLoad(m, t)' BY <1>1, <2>1, <2>3, <2>4 DEF Created
  <2> QED BY <1>1, <2>1, <2>5 DEF PartInv
<1> QED BY <1>4, <1>5, <1>6, <1>7, <1>8, TTypesAre DEF TInv

(* All files are done, so all tables exist: a partly created database never   *)
(* comes this far.                                                            *)
LEMMA AllThere ==
  ASSUME TInv, pc = "dir", todo = {}
  PROVE  Created(rows) = Tables /\ Created(database[itr]) = Tables
<1>1. /\ Created(rows) = Created(database[itr]) /\ \A t \in Tables : rows[t] # NoTable BY DEF TInv, DoneInv
<1> QED BY <1>1 DEF Created

(* COMMIT: the file has all the rows of one more load.                        *)
LEMMA TCommit == ASSUME TInv, Commit PROVE TInv'
<1>0. TTypes /\ FirstInv /\ FreshInv /\ LoadInv /\ PartInv /\ TableSeq[1] \in Tables BY TTypesAre, TableFacts DEF TInv
<1>1. /\ pc = "dir" /\ todo = {} /\ database' = [database EXCEPT ![itr] = rows] /\ pc' = "remove"
      /\ UNCHANGED <<faults, run, itr, c, rows, todo, table, line, num_columns>>
  BY DEF Commit, load
<1>2. /\ database' \in [1..Iterations -> [Tables -> TableRows]] /\ itr \in 1..Iterations /\ database'[itr] = rows
      /\ \A j \in 1..Iterations \ {itr} : database'[j] = database[j]
  BY <1>0, <1>1 DEF TTypes
<1>3. Created(rows) = Tables BY <1>1, AllThere
<1>4. TTypes' BY <1>0, <1>1, <1>2 DEF TTypes
<1>5. FirstInv'
  <2>1. FirstMade(rows) BY <1>0, <1>3 DEF FirstMade, Created
  <2>2. \A j \in 1..Iterations : FirstMade(database'[j]) BY <1>0, <1>2, <2>1 DEF FirstInv
  <2> QED BY <1>1, <2>2 DEF FirstInv
<1>6. DoneInv' /\ PlaceInFile' /\ PartInv' BY <1>1, <1>2, <1>3 DEF DoneInv, PlaceInFile, PartInv
<1>7. FreshInv' BY <1>0, <1>1, <1>2 DEF FreshInv
<1>8. LoadInv'
  <2>0. run \in Nat /\ run > 0 /\ itr \in Int BY <1>0, <1>1, <1>2 DEF TTypes, LoadInv
  <2>1. Whole(rows, run)
    <3>1. PICK m \in 0..(run - 1) : \A t \in Created(rows) : rows[t] = PartLoad(m, t) BY <1>0, <1>1 DEF PartInv
    <3>2. m + 1 \in 0..run BY <2>0
    <3>3. \A t : PartLoad(m, t) = Loads(m + 1, t) BY <1>1 DEF PartLoad
    <3> QED BY <3>1, <3>2, <3>3 DEF Whole
  <2>2. ASSUME NEW j \in 1..Iterations PROVE Whole(database'[j], Bound(j)')
    <3>1. CASE j = itr
      <4>1. Bound(j)' = run BY <1>1, <2>0, <3>1 DEF Bound
      <4> QED BY <1>2, <2>1, <3>1, <4>1
    <3>2. CASE j # itr
      <4>1. Bound(j)' = Bound(j) BY <1>1, <3>2 DEF Bound
      <4> QED BY <1>0, <1>2, <3>2, <4>1 DEF LoadInv
    <3> QED BY <3>1, <3>2
  <2> QED BY <1>1, <2>0, <2>2 DEF LoadInv
<1> QED BY <1>4, <1>5, <1>6, <1>7, <1>8, TTypesAre DEF TInv

(* remove(): the file is gone, and the next one's turn has come.              *)
LEMMA TRemove == ASSUME TInv, Remove PROVE TInv'
<1>0. TTypes /\ FirstInv /\ FreshInv /\ LoadInv /\ Len(TableSeq) \in Nat \ {0} /\ Iterations \in Nat \ {0}
  BY TTypesAre, TableFacts DEF TInv
<1>1. /\ pc = "remove" /\ database' = [database EXCEPT ![itr] = NoTables]
      /\ IF itr < Iterations THEN itr' = itr + 1 /\ c' = 1 /\ pc' = "create" ELSE pc' = "idle" /\ itr' = itr /\ c' = c
      /\ UNCHANGED <<faults, run, rows, todo, table, line, num_columns>>
  BY DEF Remove, load
<1>2. NoTables \in [Tables -> TableRows] /\ Created(NoTables) = {}
  BY RowsAreRows DEF NoTables, Created
<1>3. /\ database' \in [1..Iterations -> [Tables -> TableRows]] /\ itr \in 1..Iterations /\ database'[itr] = NoTables
      /\ \A j \in 1..Iterations \ {itr} : database'[j] = database[j]
  BY <1>0, <1>1, <1>2 DEF TTypes
<1>4. itr' \in 1..Iterations /\ c' \in 1..(Len(TableSeq) + 1) /\ pc' \in {"idle", "create"} /\ (pc' = "create" => c' = 1)
  BY <1>0, <1>1, <1>3 DEF TTypes
<1>5. TTypes' BY <1>0, <1>1, <1>3, <1>4 DEF TTypes
<1>6. Empties(NoTables) /\ FirstMade(NoTables) BY <1>2 DEF Empties, FirstMade
<1>7. FirstInv'
  <2>1. \A j \in 1..Iterations : FirstMade(database'[j]) BY <1>0, <1>3, <1>6 DEF FirstInv
  <2> QED BY <1>4, <2>1 DEF FirstInv
<1>8. DoneInv' /\ PlaceInFile' /\ PartInv' BY <1>4 DEF DoneInv, PlaceInFile, PartInv
<1>9. FreshInv'
  <2>1. ASSUME NEW j \in 1..Iterations, faults \cap {"kill", "rm"} = {} PROVE Empties(database'[j])
    BY <1>0, <1>3, <1>6, <2>1 DEF FreshInv
  <2> QED BY <1>1, <2>1 DEF FreshInv
<1>10. LoadInv'
  <2>0. run \in Nat /\ run > 0 BY <1>0, <1>1 DEF TTypes, LoadInv
  <2>1. ASSUME NEW j \in 1..Iterations PROVE Whole(database'[j], Bound(j)')
    <3>1. CASE j = itr
      <4>1. Bound(j)' = run BY <1>1, <1>3, <3>1 DEF Bound
      <4>2. 0 \in 0..run BY <2>0
      <4> QED BY <1>2, <1>3, <3>1, <4>1, <4>2 DEF Whole
    <3>2. CASE j # itr
      <4>1. Bound(j) \in Int /\ Bound(j)' \in Int /\ Bound(j) <= Bound(j)'
        <5>1. CASE itr < Iterations BY <1>1, <1>3, <2>0, <3>2, <5>1 DEF Bound
        <5>2. CASE ~(itr < Iterations) BY <1>1, <1>3, <2>0, <3>2, <5>2 DEF Bound
        <5> QED BY <5>1, <5>2
      <4>2. Whole(database[j], Bound(j)) BY <1>0 DEF LoadInv
      <4>3. Whole(database[j], Bound(j)') BY <4>1, <4>2, WholeUp
      <4> QED BY <1>3, <3>2, <4>3
    <3> QED BY <3>1, <3>2
  <2> QED BY <1>1, <2>0, <2>1 DEF LoadInv
<1> QED BY <1>5, <1>7, <1>8, <1>9, <1>10, TTypesAre DEF TInv

(* A step that changes nothing keeps the invariant.                           *)
LEMMA TStutters == ASSUME TInv, UNCHANGED loadVars PROVE TInv'
<1>1. UNCHANGED <<faults, pc, run, itr, c, database, rows, todo, table, line, num_columns>> BY DEF loadVars
<1>2. TTypes /\ FirstInv /\ DoneInv /\ PlaceInFile /\ FreshInv /\ LoadInv /\ PartInv BY TTypesAre DEF TInv
<1>3. TTypes' BY <1>1, <1>2 DEF TTypes
<1>4. FirstInv' /\ DoneInv' /\ PlaceInFile' /\ FreshInv' BY <1>1, <1>2 DEF FirstInv, DoneInv, PlaceInFile, FreshInv
<1>5. LoadInv' BY <1>1, <1>2 DEF LoadInv, Bound
<1>6. PartInv' BY <1>1, <1>2 DEF PartInv, PartLoad
<1> QED BY <1>3, <1>4, <1>5, <1>6, TTypesAre DEF TInv

(* createTables returns, the database cannot be opened, a load or a remove    *)
(* fails, or the program is stopped.                                          *)
LEMMA TStops == ASSUME TInv, CannotOpenFile \/ TablesDone \/ LoadFails \/ RemoveFails \/ LoadKill PROVE TInv'
<1>1. /\ UNCHANGED <<faults, run, itr, c, database, rows, todo, table, line, num_columns>>
      /\ pc' = "idle" \/ (pc = "create" /\ pc' = "begin")
      /\ pc = "remove" => faults \cap {"kill", "rm"} # {}
  BY DEF CannotOpenFile, TablesDone, LoadFails, RemoveFails, LoadKill, load
<1> QED BY <1>1, TQuiet

(* Every step keeps the invariant.                                            *)
LEMMA TInductive == ASSUME TInv, [LoadNext]_loadVars PROVE TInv'
BY TStart, TCreateTable, TBegin, TOpenFile, TInsertLine, TEndOfFile, TCommit, TRemove, TStops, TStutters DEF LoadNext

(* The invariant holds in every state.                                        *)
LEMMA TAlways == LoadSpec => []TInv
<1>1. LoadInit => TInv BY TStarts
<1>2. TInv /\ [LoadNext]_loadVars => TInv' BY TInductive
<1> QED BY <1>1, <1>2, PTL DEF LoadSpec
-----------------------------------------------------------------------------
(* The loader's counters and the tables of every database keep their types.   *)
THEOREM TableLoadTypeCorrect == LoadSpec => []LoadTypeOK
<1>1. TInv => LoadTypeOK BY DEF TInv
<1> QED BY <1>1, TAlways, PTL

(* main.c:48-53 and 114-119: wherever a statement fails or the program is     *)
(* stopped, all the tables of a file have been loaded equally often, each     *)
(* time with every line of their file but the first.                          *)
THEOREM LoadsAreWhole == LoadSpec => []AllOrNothing
<1>1. ASSUME TInv PROVE AllOrNothing
  <2> SUFFICES ASSUME NEW j \in 1..Iterations
               PROVE  \E m \in 0..run : \A t \in Created(database[j]) : database[j][t] = Loads(m, t)
    BY DEF AllOrNothing
  <2>1. Whole(database[j], Bound(j)) /\ run \in Nat BY <1>1, TTypesAre DEF TInv, LoadInv, TTypes
  <2>2. Bound(j) \in Int /\ Bound(j) <= run BY <2>1 DEF Bound
  <2>3. Whole(database[j], run) BY <2>1, <2>2, WholeUp
  <2> QED BY <2>3 DEF Whole
<1> QED BY <1>1, TAlways, PTL

(* main.c:128: however many loads failed before, a load starts on empty       *)
(* tables, unless the program was stopped or a remove failed.                 *)
THEOREM LoadsStartFresh == LoadSpec => []FreshDatabase
<1>1. ASSUME TInv PROVE FreshDatabase
  <2>1. itr \in 1..Iterations /\ FreshInv BY <1>1, TTypesAre DEF TInv, TTypes
  <2> QED BY <2>1 DEF FreshInv, Empties, FreshDatabase
<1> QED BY <1>1, TAlways, PTL

(* main.c:29-32, 140 and 143-147: a database in which createTables was cut    *)
(* short stays so; no later run loads or removes it.                          *)
THEOREM PartialStays == LoadSpec => StaysPartial
<1> DEFINE A == \A j \in 1..Iterations : Partial(j) => Partial(j)'
<1>1. ASSUME TInv, LoadNext PROVE A
  <2> SUFFICES ASSUME NEW j \in 1..Iterations, Partial(j) PROVE Partial(j)' OBVIOUS
  <2>0. /\ TTypes /\ FirstInv /\ DoneInv BY <1>1, TTypesAre DEF TInv
  <2>1. Created(database[j]) \notin {{}, Tables} /\ ~(pc = "create" /\ itr = j /\ c > 1) BY DEF Partial
  <2>2. SUFFICES database'[j] = database[j] /\ ~(pc' = "create" /\ itr' = j /\ c' > 1) BY <2>1 DEF Partial
  <2>3. itr \in 1..Iterations /\ DOMAIN database = 1..Iterations /\ c \in 1..(Len(TableSeq) + 1) BY <2>0 DEF TTypes
  <2>4. CASE LoadStart BY <2>4 DEF LoadStart
  <2>5. CASE CreateTable
    <3>1. itr # j
      <4> SUFFICES ASSUME itr = j PROVE FALSE OBVIOUS
      <4>1. c = 1 /\ database[j][TableSeq[1]] = NoTable
        <5>1. Len(TableSeq) \in Nat BY TableFacts
        <5>2. ~(c > 1) BY <2>1, <2>5 DEF CreateTable
        <5>3. c = 1 BY <2>3, <5>1, <5>2
        <5> QED BY <2>5, <5>3 DEF CreateTable
      <4> QED BY <2>0, <2>1, <4>1 DEF FirstInv, FirstMade
    <3> QED BY <2>3, <2>5, <3>1 DEF CreateTable
  <2>6. CASE Commit
    <3>1. itr # j BY <1>1, <2>1, <2>6, AllThere DEF Commit
    <3> QED BY <2>3, <2>6, <3>1 DEF Commit
  <2>7. CASE Remove
    <3>1. itr # j BY <2>0, <2>1, <2>7 DEF Remove, DoneInv
    <3> QED BY <2>3, <2>7, <3>1 DEF Remove
  <2>8. CASE TablesDone BY <2>8 DEF TablesDone
  <2>9. CASE Begin BY <2>9 DEF Begin
  <2>10. CASE \E t \in Tables : OpenFile(t) BY <2>10 DEF OpenFile
  <2>11. CASE InsertLine BY <2>11 DEF InsertLine
  <2>12. CASE EndOfFile BY <2>12 DEF EndOfFile
  <2>13. CASE LoadFails BY <2>13 DEF LoadFails
  <2>14. CASE RemoveFails BY <2>14 DEF RemoveFails
  <2>15. CASE LoadKill BY <2>15 DEF LoadKill
  <2>16. CASE CannotOpenFile BY <2>16 DEF CannotOpenFile
  <2> QED BY <1>1, <2>4, <2>5, <2>6, <2>7, <2>8, <2>9, <2>10, <2>11, <2>12, <2>13, <2>14, <2>15, <2>16 DEF LoadNext
<1> HIDE DEF A
<1>2. TInv /\ [LoadNext]_loadVars => [A]_(loadVars) BY <1>1
<1>3. LoadSpec => [][A]_loadVars BY <1>2, TAlways, PTL DEF LoadSpec
<1> QED BY <1>3 DEF A, StaysPartial
=============================================================================
