------------------------------- MODULE RowIds -------------------------------
(***************************************************************************)
(* The ids SQLite gives to rows.  A table with an INTEGER PRIMARY KEY and  *)
(* no AUTOINCREMENT gives a new row the largest id in use plus one, so the *)
(* id of a deleted last row is given out again.                            *)
(***************************************************************************)
EXTENDS Naturals, FiniteSets, FiniteSetsExt, Functions

Ids == Nat \ {0}

NextId(table) == IF DOMAIN table = {} THEN 1 ELSE Max(DOMAIN table) + 1

With(table, id, row) ==
    [i \in DOMAIN table \union {id} |-> IF i = id THEN row ELSE table[i]]

Insert(table, row) == With(table, NextId(table), row)

Without(table, I) == Restrict(table, DOMAIN table \ I)

\* No table holds more rows than a number says.
Bounded(S) == \E n \in Nat : \A i \in S : i <= n

=============================================================================
