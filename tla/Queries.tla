------------------------------ MODULE Queries -------------------------------
(***************************************************************************)
(* The query files and what their run times measure, for all runners.      *)
(*                                                                         *)
(* A run time is represented by the set of statement executions it sums,   *)
(* so two times are equal only if they measure the same executions.        *)
(***************************************************************************)
EXTENDS Naturals, Sequences

CONSTANTS NumQueries,  \* 22 query files
          ViewQuery,   \* query 15: create view, select, drop view
          ViewStmts    \* its number of statements, 3

ASSUME QueriesAssumption ==
  /\ NumQueries \in Nat \ {0}
  /\ ViewQuery \in 1..NumQueries
  /\ ViewStmts \in Nat \ {0, 1}

(* The statements of queries/query<q>.sql, each timed on its own by .timer.   *)
Stmts(q) == IF q = ViewQuery THEN ViewStmts ELSE 1

(* One "Run Time:" line: statement k of query q in iteration i of run r.      *)
Tag(r, i, q, k) == [run |-> r, itr |-> i, q |-> q, k |-> k]

(* The whole run time of a query, and the row that reports a time.            *)
QueryTime(r, i, q) == {Tag(r, i, q, k) : k \in 1..Stmts(q)}
Row(i, q, time)    == [itr |-> i, q |-> q, time |-> time]

IterationRows(r, i, m) == [q \in 1..m |-> Row(i, q, QueryTime(r, i, q))]
=============================================================================
