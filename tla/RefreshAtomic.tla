--------------------------- MODULE RefreshAtomic ----------------------------
(***************************************************************************)
(* What the refresh functions promise of the database: it changes by whole *)
(* refreshes only.  An order is its key, a line item the pair of its       *)
(* order's key and its line number.  createTables declares no primary keys *)
(* and the rows of a table have no order, so a table is a bag: the number  *)
(* of rows with each key.                                                  *)
(***************************************************************************)
EXTENDS Naturals, Sequences, FiniteSets

CONSTANTS Orders,      \* Orders[j]: the keys in orders.tbl.u<j>
          LineItems,   \* LineItems[j]: the pairs in lineitem.tbl.u<j>
          Deletes      \* Deletes[j]: the keys in delete.<j>

Contents(s) == {s[m] : m \in 1..Len(s)}

ASSUME RefreshFilesAssumption ==
  \A j \in DOMAIN Orders :
    /\ Orders[j] \in Seq(Contents(Orders[j])) /\ LineItems[j] \in Seq(Contents(LineItems[j]))
    /\ Deletes[j] \in Seq(Contents(Deletes[j]))

VARIABLE disk          \* the committed rows of ORDERS and LINEITEM

Keys  == UNION {Contents(Orders[j]) : j \in DOMAIN Orders}
Items == UNION {Contents(LineItems[j]) : j \in DOMAIN Orders}

EmptyTables == [orders |-> [o \in Keys |-> 0], lineitem |-> [o \in Items |-> 0]]

(* The rows of bag b and those of the first m lines of file s.                *)
Plus(b, s, m) == [o \in DOMAIN b |-> b[o] + Cardinality({p \in 1..m : s[p] = o})]

(* The rows of bag b with another key than those in K.                        *)
Minus(b, K) == [o \in DOMAIN b |-> IF o \in K THEN 0 ELSE b[o]]

(* RF1 reads the two files in step and ends with the shorter one.             *)
Pairs(j) == IF Len(Orders[j]) < Len(LineItems[j]) THEN Len(Orders[j]) ELSE Len(LineItems[j])

AfterRF1(d, j) ==
  [orders   |-> Plus(d.orders, Orders[j], Pairs(j)),
   lineitem |-> Plus(d.lineitem, LineItems[j], Pairs(j))]

(* RF2 removes every row with one of the keys, from ORDERS only.              *)
AfterRF2(d, j) ==
  [orders |-> Minus(d.orders, Contents(Deletes[j])), lineitem |-> d.lineitem]

AtomicInit == disk = EmptyTables
AtomicNext == \E j \in DOMAIN Orders : disk' \in {AfterRF1(disk, j), AfterRF2(disk, j)}
AtomicSpec == AtomicInit /\ [][AtomicNext]_disk
=============================================================================
