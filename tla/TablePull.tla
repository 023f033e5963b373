----------------------------- MODULE TablePull -----------------------------
(***************************************************************************)
(* mixable_versioned_table::pull_impl taken apart.  It walks the table     *)
(* twice, once to count the rows it will send and once to pack them, and   *)
(* holds the table's lock for one get_version or get_row at a time, so the *)
(* learner writes in between.  TableMix has the whole pull as one step;    *)
(* this module says what that costs.                                       *)
(***************************************************************************)
EXTENDS ColumnTable, FiniteSets

CONSTANTS Key,      \* row ids
          Me,       \* the owner of the table
          Write,    \* identities of writes; bounds their number
          MaxPulls, \* bound on the pulls
          MaxDeletes, \* bound on the deletions
          During    \* what may run during a pull: of "add", "update", "delete"

BoundAssumption == MaxPulls \in Nat /\ MaxDeletes \in Nat
DuringAssumption == During \subseteq {"add", "update", "delete"}

VARIABLES table,
          used,    \* the writes made
          deletes, \* how many rows were deleted
          pulls,   \* how many pulls were begun
          seen,    \* the puller's version vector at Me, -1 before any row
          peer,    \* the rows the puller received
          stage,   \* "idle"; "count", then "check" and "pack"
          size,    \* table_size
          i,       \* the loop's index
          count,   \* pack_size, the header of the array
          packed   \* the rows packed

learner == <<table, used, deletes>>
puller == <<pulls, seen, peer, stage, size, i, count, packed>>
vars == <<learner, puller>>

TypeOK ==
    /\ table.clock \in Nat /\ Size(table) \in Nat
    /\ used \subseteq Write /\ deletes \in 0..MaxDeletes /\ pulls \in 0..MaxPulls
    /\ seen \in Nat \cup {-1}
    /\ stage \in {"idle", "count", "check", "pack"}
    /\ size \in Nat /\ i \in 1..size + 1 /\ count \in 0..size
    /\ Len(packed) <= size

Init ==
    /\ table = EmptyTable /\ used = {} /\ deletes = 0 /\ pulls = 0
    /\ seen = -1 /\ peer = {}
    /\ stage = "idle" /\ size = 0 /\ i = 1 /\ count = 0 /\ packed = <<>>

Allowed(op) == stage = "idle" \/ op \in During

-----------------------------------------------------------------------------
(* The learner                                                             *)

Set(k, w) ==
    /\ Allowed(IF Has(table, k) THEN "update" ELSE "add")
    /\ w \notin used
    /\ used' = used \cup {w}
    /\ table' = Add(table, k, Me, w)
    /\ UNCHANGED <<deletes, puller>>

Delete(k) ==
    /\ Allowed("delete")
    /\ deletes < MaxDeletes
    /\ Has(table, k)
    /\ deletes' = deletes + 1
    /\ table' = DeleteRow(table, k)
    /\ UNCHANGED <<used, puller>>

-----------------------------------------------------------------------------
(* The pull.  A position beyond the table is read out of bounds: the steps *)
(* that read have no successor there, and ReadsInBounds forbids the state. *)

\* Mutant of Left: off by one.
LeftOneMore == i <= size + 1

\* The loop condition
Left == i <= size

\* Mutant of Wanted: off by one.
WantedOffByOne(r) == seen + 1 < r.clock

\* The row is unknown to the puller.
Wanted(r) == seen < r.clock

\* Mutant of Begin: pack_size is kept from the last pull.
BeginKeepsCount ==
    /\ stage = "idle"
    /\ pulls < MaxPulls
    /\ pulls' = pulls + 1
    /\ stage' = "count"
    /\ size' = Size(table)
    /\ i' = 1 /\ packed' = <<>>
    /\ UNCHANGED <<learner, seen, peer, count>>

\* get_argument of the puller, then pull: the size of the table is read once.
Begin ==
    /\ stage = "idle"
    /\ pulls < MaxPulls
    /\ pulls' = pulls + 1
    /\ stage' = "count"
    /\ size' = Size(table)
    /\ i' = 1 /\ count' = 0 /\ packed' = <<>>
    /\ UNCHANGED <<learner, seen, peer>>

\* get_version in the first loop
Count ==
    /\ stage = "count" /\ Left /\ i <= Size(table)
    /\ count' = IF Wanted(table.rows[i]) THEN count + 1 ELSE count
    /\ i' = i + 1
    /\ UNCHANGED <<learner, pulls, seen, peer, stage, size, packed>>

\* Mutant of Header: the second loop asks for the size again.
HeaderNewSize ==
    /\ stage = "count" /\ ~Left
    /\ stage' = "check"
    /\ size' = Size(table)
    /\ i' = 1
    /\ UNCHANGED <<learner, pulls, seen, peer, count, packed>>

\* pack_array(pack_size)
Header ==
    /\ stage = "count" /\ ~Left
    /\ stage' = "check"
    /\ i' = 1
    /\ UNCHANGED <<learner, pulls, seen, peer, size, count, packed>>

\* get_version in the second loop
Check ==
    /\ stage = "check" /\ Left /\ i <= Size(table)
    /\ IF Wanted(table.rows[i])
       THEN stage' = "pack" /\ i' = i
       ELSE stage' = stage /\ i' = i + 1
    /\ UNCHANGED <<learner, pulls, seen, peer, size, count, packed>>

\* get_row
Pack ==
    /\ stage = "pack" /\ i <= Size(table)
    /\ packed' = Append(packed, table.rows[i])
    /\ stage' = "check"
    /\ i' = i + 1
    /\ UNCHANGED <<learner, pulls, seen, peer, size, count>>

\* The last version the puller's update_version calls leave
Newest(rows, v) == IF rows = {} THEN v
    ELSE (CHOOSE r \in rows : \A q \in rows : q.clock <= r.clock).clock

\* The answer is pushed to the puller before it pulls again.
End ==
    /\ stage = "check" /\ ~Left
    /\ LET rows == {packed[j] : j \in 1..Len(packed)}
       IN  peer' = peer \cup rows /\ seen' = Newest(rows, seen)
    /\ stage' = "idle"
    /\ UNCHANGED <<learner, pulls, size, i, count, packed>>

Next ==
    \/ \E k \in Key, w \in Write : Set(k, w)
    \/ \E k \in Key : Delete(k)
    \/ Begin \/ Count \/ Header \/ Check \/ Pack \/ End

Spec == Init /\ [][Next]_vars

-----------------------------------------------------------------------------
Reading == stage = "pack" \/ (stage \in {"count", "check"} /\ Left)

(***************************************************************************)
(* The position about to be read is one of the table (release 0.3.4, "Fix  *)
(* out-of-bound index access while MIXing column table").                  *)
(***************************************************************************)
ReadsInBounds == Reading => i <= Size(table)

(***************************************************************************)
(* The array has as many rows as its header, written first, announces: a   *)
(* receiver could not parse it otherwise.                                  *)
(***************************************************************************)
HeaderMatches == (stage = "check" /\ ~Left) => Len(packed) = count

(***************************************************************************)
(* The puller has every row its version vector covers, so a row it lacks   *)
(* is still offered to it by a later pull.                                 *)
(***************************************************************************)
NothingSkipped ==
    stage = "idle" => \A j \in 1..Size(table) :
        table.rows[j].clock <= seen => table.rows[j] \in peer
=============================================================================
