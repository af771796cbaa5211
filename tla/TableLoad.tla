----------------------------- MODULE TableLoad ------------------------------
(***************************************************************************)
(* createTables, loadTables and preLoadTables of main.c: a database file   *)
(* database_<i>.db per iteration is created, its tables are created and    *)
(* loaded from the .tbl files in one transaction, and it is removed.       *)
(* The call in main() is commented out in the current revision.            *)
(*                                                                         *)
(* A line of a .tbl file is the sequence of the pieces between its bars;   *)
(* dbgen ends each line with a bar, so that its last piece is EOL.         *)
(*                                                                         *)
(* A missing file and an empty database are the same to sqlite3_open.      *)
(* Tables are created in autocommit; the inserts of an iteration are       *)
(* durable only with its COMMIT, a close or a crash before it undoes them. *)
(***************************************************************************)
EXTENDS MainLoop

CONSTANTS TableSeq,    \* the tables in the order of table_creations
          Columns,     \* Columns[t]: the number of columns of table t
          Files,       \* Files[t]: the lines of <t>.tbl
          EOL, Empty,  \* the newline after the last bar, a piece of length 0
          NoTable      \* in place of the rows of a table that does not exist

Tables == {TableSeq[c] : c \in 1..Len(TableSeq)}

Pieces    == UNION {UNION {{l[n] : n \in 1..Len(l)} : l \in {Files[t][m] : m \in 1..Len(Files[t])}}
                      : t \in Tables}
TableRows == Seq(Seq(Pieces)) \cup {NoTable}

(* What dbgen writes: every table has some lines, and a line has all of the   *)
(* table's fields, none of them empty, and EOL.                               *)
DbgenLines(t) == [1..(Columns[t] + 1) -> Pieces \ {Empty}]

ASSUME TableLoadAssumption ==
  /\ TableSeq \in Seq(Tables) /\ TableSeq # <<>> /\ NoTable \notin Seq(Seq(Pieces))
  /\ \A t \in Tables :
       /\ Columns[t] \in Nat \ {0}
       /\ Files[t] \in Seq(DbgenLines(t)) /\ Len(Files[t]) >= 2

VARIABLES
  c,            \* createTables' loop counter; itr is preLoadTables'
  database,     \* database[j]: the committed tables of database_<j>.db
  rows,         \* the tables as the open transaction sees them
  todo,         \* directory entries readdir has not returned
  table, line,  \* the file loadTables is in, and the next line of it
  num_columns

loadVars == <<faults, pc, run, itr, c, database, rows, todo, table, line, num_columns>>
load     == <<rows, todo, table, line, num_columns>>

(* The program's position and counters, and the tables a database may have.   *)
LoadTypeOK ==
  /\ faults \in SUBSET FaultNames
  /\ pc \in {"idle", "create", "begin", "dir", "insert", "remove"}
  /\ run \in Nat /\ itr \in 1..Iterations /\ c \in 1..(Len(TableSeq) + 1)
  /\ todo \subseteq Tables /\ table \in Tables /\ line \in Nat /\ num_columns \in Nat
  /\ rows \in [Tables -> TableRows]
  /\ database \in [1..Iterations -> [Tables -> TableRows]]

NoTables   == [t \in Tables |-> NoTable]
Created(d) == {t \in Tables : d[t] # NoTable}

LoadInit ==
  /\ faults \in FaultModels
  /\ pc = "idle" /\ run = 0 /\ itr = 1 /\ c = 1
  /\ database = [j \in 1..Iterations |-> NoTables]
  /\ rows = NoTables /\ todo = {} /\ table = TableSeq[1] /\ line = 1 /\ num_columns = 0
-----------------------------------------------------------------------------
(* strtok over a line: runs of bars count as one, so an empty piece is lost.  *)
Tokens(l) ==
  LET full == {n \in 1..Len(l) : l[n] # Empty}
  IN  [n \in 1..Cardinality(full) |->
         l[CHOOSE p \in full : Cardinality({q \in full : q <= p}) = n]]

(* The VALUES of the INSERT: one less than the tokens of the first line.      *)
Values(l) ==
  LET w == num_columns - 1
  IN  SubSeq(Tokens(l), 1, IF w < Len(Tokens(l)) THEN w ELSE Len(Tokens(l)))

LoadStart ==
  /\ pc = "idle" /\ run < MaxRuns
  /\ run' = run + 1 /\ itr' = 1 /\ c' = 1 /\ pc' = "create"
  /\ UNCHANGED <<faults, database, load>>

(* sqlite3_open fails: preLoadTables returns, before any table is created.    *)
CannotOpenFile ==
  /\ pc = "create" /\ c = 1 /\ "nofile" \in faults
  /\ pc' = "idle"
  /\ UNCHANGED <<faults, run, itr, c, database, load>>

CreateTable ==
  /\ pc = "create" /\ c <= Len(TableSeq) /\ database[itr][TableSeq[c]] = NoTable
  /\ database' = [database EXCEPT ![itr][TableSeq[c]] = <<>>]
  /\ c' = c + 1
  /\ UNCHANGED <<faults, pc, run, itr, load>>

(* createTables returns, at the end or at the first table that cannot be      *)
(* created; preLoadTables does not look at its result.                        *)
TablesDone ==
  /\ pc = "create"
  /\ c <= Len(TableSeq) => database[itr][TableSeq[c]] # NoTable \/ "sql" \in faults
  /\ pc' = "begin"
  /\ UNCHANGED <<faults, run, itr, c, database, load>>

Begin ==
  /\ pc = "begin" /\ pc' = "dir"
  /\ rows' = database[itr] /\ todo' = Tables
  /\ UNCHANGED <<faults, run, itr, c, database, table, line, num_columns>>

(* A file is opened, in whatever order readdir gives; its first line is read  *)
(* to count the columns.                                                      *)
OpenFile(t) ==
  /\ pc = "dir" /\ t \in todo
  /\ todo' = todo \ {t} /\ table' = t
  /\ line' = 2 /\ num_columns' = IF Files[t] = <<>> THEN 0 ELSE Len(Tokens(Files[t][1]))
  /\ pc' = "insert"
  /\ UNCHANGED <<faults, run, itr, c, database, rows>>

Insertable(l) == rows[table] # NoTable /\ Len(Values(l)) = Columns[table]
(* Bug: no transaction, each insert is durable.                               *)
BugLoadAutocommit ==
  /\ pc = "insert" /\ line <= Len(Files[table]) /\ Insertable(Files[table][line])
  /\ rows' = [rows EXCEPT ![table] = Append(@, Values(Files[table][line]))]
  /\ database' = [database EXCEPT ![itr] = rows']
  /\ line' = line + 1
  /\ UNCHANGED <<faults, pc, run, itr, c, todo, table, num_columns>>

(* Bug: an insert that fails is skipped.                                      *)
BugSkipInsert ==
  /\ pc = "insert" /\ line <= Len(Files[table])
  /\ rows' = IF Insertable(Files[table][line])
             THEN [rows EXCEPT ![table] = Append(@, Values(Files[table][line]))] ELSE rows
  /\ line' = line + 1
  /\ UNCHANGED <<faults, pc, run, itr, c, database, todo, table, num_columns>>

InsertLine ==
  /\ pc = "insert" /\ line <= Len(Files[table]) /\ Insertable(Files[table][line])
  /\ rows' = [rows EXCEPT ![table] = Append(@, Values(Files[table][line]))]
  /\ line' = line + 1
  /\ UNCHANGED <<faults, pc, run, itr, c, database, todo, table, num_columns>>

EndOfFile ==
  /\ pc = "insert" /\ line > Len(Files[table])
  /\ pc' = "dir"
  /\ UNCHANGED <<faults, run, itr, c, database, load>>

Commit ==
  /\ pc = "dir" /\ todo = {}
  /\ database' = [database EXCEPT ![itr] = rows] /\ pc' = "remove"
  /\ UNCHANGED <<faults, run, itr, c, load>>
(* Bug: the error path commits before it closes the database.                 *)
BugCommitOnError ==
  /\ pc = "insert" /\ line <= Len(Files[table])
  /\ ~Insertable(Files[table][line]) \/ "sql" \in faults
  /\ database' = [database EXCEPT ![itr] = rows] /\ pc' = "idle"
  /\ UNCHANGED <<faults, run, itr, c, load>>

(* loadTables returns 0: preLoadTables closes the database, which rolls the   *)
(* transaction back, and returns without removing the file.                   *)
LoadFails ==
  /\ \/ pc = "insert" /\ line <= Len(Files[table])
        /\ (~Insertable(Files[table][line]) \/ "sql" \in faults)
     \/ pc = "dir" /\ todo # {} /\ "nofile" \in faults
     \/ pc = "begin" /\ faults \cap {"sql", "nofile"} # {}
     \/ pc = "dir" /\ todo = {} /\ "sql" \in faults
  /\ pc' = "idle"
  /\ UNCHANGED <<faults, run, itr, c, database, load>>
Remove ==
  /\ pc = "remove"
  /\ database' = [database EXCEPT ![itr] = NoTables]
  /\ IF itr < Iterations THEN itr' = itr + 1 /\ c' = 1 /\ pc' = "create"
                         ELSE pc' = "idle" /\ UNCHANGED <<itr, c>>
  /\ UNCHANGED <<faults, run, load>>

RemoveFails ==
  /\ pc = "remove" /\ "rm" \in faults
  /\ pc' = "idle"
  /\ UNCHANGED <<faults, run, itr, c, database, load>>

LoadKill ==
  /\ pc # "idle" /\ "kill" \in faults
  /\ pc' = "idle"
  /\ UNCHANGED <<faults, run, itr, c, database, load>>

LoadNext ==
  \/ LoadStart \/ CannotOpenFile \/ CreateTable \/ TablesDone \/ Begin
  \/ \E t \in Tables : OpenFile(t)
  \/ InsertLine \/ EndOfFile \/ Commit \/ LoadFails \/ Remove \/ RemoveFails \/ LoadKill

LoadSpec == LoadInit /\ [][LoadNext]_loadVars
-----------------------------------------------------------------------------
(* The fields of a line that dbgen wrote.                                     *)
Fields(l) == SubSeq(l, 1, Len(l) - 1)

(* What one load adds to a table: the fields of every line but the first.     *)
LoadOf(t) == [n \in 1..(Len(Files[t]) - 1) |-> Fields(Files[t][n + 1])]

(* m loads one after the other.                                               *)
Loads(m, t) ==
  [n \in 1..(m * Len(LoadOf(t))) |-> LoadOf(t)[((n - 1) % Len(LoadOf(t))) + 1]]

(* A database file never holds part of a load: wherever a statement fails or  *)
(* the program stops, all its tables have been loaded the same number of      *)
(* times (main.c:48-53 and 114-119, the one transaction).                     *)
AllOrNothing ==
  \A j \in 1..Iterations : \E m \in 0..run :
    \A t \in Created(database[j]) : database[j][t] = Loads(m, t)

(* A file in which createTables was cut short is not repaired: the next       *)
(* createTables fails on its first table, so no later run completes an        *)
(* iteration on it or removes it (main.c:29-32, 140, 143-147).                *)
Partial(j) ==
  /\ Created(database[j]) \notin {{}, Tables}
  /\ ~(pc = "create" /\ itr = j /\ c > 1)
StaysPartial == [][\A j \in 1..Iterations : Partial(j) => Partial(j)']_loadVars

(* Every load starts on empty tables (main.c:128, "Create a new database file *)
(* for each iteration"), however many loads failed before; a program that is  *)
(* stopped between commit and remove, or a remove that fails, would leave the *)
(* rows of a whole load to the next run.                                      *)
FreshDatabase ==
  faults \cap {"kill", "rm"} = {} /\ pc = "begin" =>
    \A t \in Created(database[itr]) : database[itr][t] = <<>>
=============================================================================
