------------------------------- MODULE RowList -------------------------------
(* The list operations of ChatsModel: rows with an id and an order, kept in   *)
(* descending order.                                                          *)
EXTENDS Integers, Sequences, SequencesExt

Ids(rows) == {rows[i].id : i \in 1..Len(rows)}

UniqueIds(rows) == \A i, j \in 1..Len(rows) : rows[i].id = rows[j].id => i = j

isDescending(rows) ==
  \A i, j \in 1..Len(rows) : i < j => rows[i].order >= rows[j].order

getIndex(rows, c) == CHOOSE i \in 1..Len(rows) : rows[i].id = c

\* std::sort is not stable: rows of equal order come out in any arrangement.
sortByOrder(rows) ==
  {t \in {[i \in 1..Len(rows) |-> rows[p[i]]] :
            p \in Bijection(1..Len(rows), 1..Len(rows))} : isDescending(t)}

\* Where indexByOrder and addItem put a row: before the first smaller order.
indexByOrder(rows, o) ==
  CHOOSE i \in 1..(Len(rows) + 1) :
    /\ \A j \in 1..(i - 1) : rows[j].order >= o
    /\ i <= Len(rows) => rows[i].order < o

addItem(rows, row) == InsertAt(rows, indexByOrder(rows, row.order), row)
=============================================================================
