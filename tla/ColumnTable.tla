---------------------------- MODULE ColumnTable ----------------------------
(***************************************************************************)
(* storage::column_table: rows kept in parallel vectors (keys_, versions_  *)
(* and the columns, one sequence of records here), an index from key to    *)
(* position, and a logical clock that versions every write.                *)
(*                                                                         *)
(* The operations are operators on a table record, each the whole body of  *)
(* a member function under table_lock_; state machines that own tables     *)
(* apply them in their actions.  Positions count from 1.                   *)
(***************************************************************************)
EXTENDS Integers, Sequences

EmptyTable == [rows |-> <<>>, index |-> [k \in {} |-> 0], clock |-> 0]

Row(k, o, c, v) == [key |-> k, owner |-> o, clock |-> c, value |-> v]

Has(t, k) == k \in DOMAIN t.index
RowOf(t, k) == t.rows[t.index[k]]
Size(t) == Len(t.rows)

\* Overwrite the row of this key in place, or append it and index it.
Store(t, r) ==
    IF Has(t, r.key)
    THEN [t EXCEPT !.rows = [@ EXCEPT ![t.index[r.key]] = r]]
    ELSE [t EXCEPT
            !.rows = Append(@, r),
            !.index = [k \in DOMAIN @ \cup {r.key} |->
                          IF k = r.key THEN Size(t) + 1 ELSE @[k]]]

Tick(t) == [t EXCEPT !.clock = @ + 1]

\* add: a local write by owner o
Add(t, k, o, v) == Tick(Store(t, Row(k, o, t.clock, v)))

\* update_clock: a local write that only changes the version
UpdateClock(t, k, o) ==
    IF Has(t, k)
    THEN Tick(Store(t, Row(k, o, t.clock, RowOf(t, k).value)))
    ELSE t

\* Whether the row under this key is newer than c.
Newer(t, k, c) == Has(t, k) /\ RowOf(t, k).clock > c

\* Make the clock at least c.
ClockFrom(t, c) == [t EXCEPT !.clock = IF @ < c THEN c ELSE @]

\* Mutants of SetRow: clock_ is moved to the row's clock and not past it; the
\* stored row is overwritten whatever its clock; a tie keeps the stored row;
\* an overwrite takes the version and forgets the columns.
SetRowClockNotPast(t, r) ==
    ClockFrom(IF Newer(t, r.key, r.clock) THEN t ELSE Store(t, r), r.clock)
SetRowAlways(t, r) == ClockFrom(Store(t, r), r.clock + 1)
SetRowTieKeeps(t, r) ==
    ClockFrom(IF Newer(t, r.key, r.clock - 1) THEN t ELSE Store(t, r), r.clock + 1)

SetRowVersionOnly(t, r) ==
    ClockFrom(IF Newer(t, r.key, r.clock) THEN t
              ELSE Store(t, IF Has(t, r.key)
                            THEN [r EXCEPT !.value = RowOf(t, r.key).value] ELSE r),
              r.clock + 1)

\* set_row: a row from another table, taken unless ours is newer
SetRow(t, r) ==
    ClockFrom(IF Newer(t, r.key, r.clock) THEN t ELSE Store(t, r), r.clock + 1)

\* delete_row_: the last row is swapped into the hole and its index moved
DeleteAt(t, i) ==
    LET last == Size(t)
        moved == [t.index EXCEPT ![t.rows[last].key] = i]
    IN [rows |-> [j \in 1..last - 1 |-> IF j = i THEN t.rows[last] ELSE t.rows[j]],
        index |-> [k \in DOMAIN moved \ {t.rows[i].key} |-> moved[k]],
        clock |-> t.clock + 1]

\* delete_row by key
DeleteRow(t, k) == IF Has(t, k) THEN DeleteAt(t, t.index[k]) ELSE t

\* clear: the schema stays, the clock starts over
ClearTable(t) == EmptyTable

---------------------------------------------------------------------------
\* The index and the rows are inverse to each other.
IndexConsistent(t) ==
    /\ \A k \in DOMAIN t.index :
          t.index[k] \in 1..Size(t) /\ t.rows[t.index[k]].key = k
    /\ \A i \in 1..Size(t) :
          t.rows[i].key \in DOMAIN t.index /\ t.index[t.rows[i].key] = i

\* The table's clock is past every version it holds, its own or received.
ClockAhead(t) == \A i \in 1..Size(t) : t.rows[i].clock < t.clock

WellFormed(t) == IndexConsistent(t) /\ ClockAhead(t)
=============================================================================
