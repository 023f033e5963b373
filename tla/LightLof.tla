------------------------------ MODULE LightLof ------------------------------
(***************************************************************************)
(* anomaly::light_lof with an LRU unlearner, on one node: the table of the *)
(* nearest neighbour engine, the table of k-distances and local            *)
(* reachability densities kept beside it, and the unlearner whose callback *)
(* changes both in the middle of a call.  Points are integers, the distance*)
(* is exact, a density is the pair <<length, sum_reachability>>.           *)
(***************************************************************************)
EXTENDS Integers, FiniteSets, Sequences, FiniteSetsExt, TLC

CONSTANTS Id, Point,
          Bulk,          \* arguments of set_bulk: sequences of [id, point]
          Sticky,        \* ids that the unlearner keeps for good
          Config,        \* [k, reverse, max_size, ignore]: k <= reverse, 2 <= k
          MaxCalls

VARIABLES conf,
          nn,            \* rows of the engine: sequence of [id, point]
          scores,        \* id -> [kdist, lrd]: the rows of the other table
          lru, sticky,   \* ids by last touch, newest first; sticky ids held
          outcome,       \* of the last call: "whole" (also when it threw before any
                         \* change), "half" (it threw half-way), "undefined"
          calls

vars == <<conf, nn, scores, lru, sticky, outcome, calls>>

Dummy == [kdist |-> -1, lrd |-> <<-1, 1>>]
Infinite == <<1, 0>>

Init ==
    /\ conf \in Config
    /\ nn = <<>> /\ scores = <<>> /\ lru = <<>> /\ sticky = {}
    /\ outcome = "whole" /\ calls = 0

---------------------------------------------------------------------------
\* The engine: rows by distance, then by position.
ids(t) == {t[i].id : i \in DOMAIN t}
RowOf(t, id) == CHOOSE i \in DOMAIN t : t[i].id = id
dist(t, p, i) == IF t[i].point >= p THEN t[i].point - p ELSE p - t[i].point
neighbor_row(t, p, n) ==
    {i \in DOMAIN t : Cardinality({j \in DOMAIN t : \/ dist(t, p, j) < dist(t, p, i)
                                                    \/ (dist(t, p, j) = dist(t, p, i) /\ j < i)}) < n}
neighbor_row_id(t, id, n) ==
    IF id \in ids(t) THEN neighbor_row(t, t[RowOf(t, id)].point, n) ELSE {}

\* column_table::add and delete_row: the last row moves into the gap.
WithRow(t, id, p) ==
    IF id \in ids(t) THEN [t EXCEPT ![RowOf(t, id)].point = p] ELSE Append(t, [id |-> id, point |-> p])
delete_row(t, id) ==
    IF id \notin ids(t) THEN t
    ELSE [i \in 1..Len(t) - 1 |-> IF i = RowOf(t, id) THEN t[Len(t)] ELSE t[i]]

collect_neighbors(t, id) == {t[i].id : i \in neighbor_row_id(t, id, conf.reverse)}

Near(m, id) == neighbor_row_id(m.nn, id, conf.k)
Gap(m, id, i) == dist(m.nn, m.nn[RowOf(m.nn, id)].point, i)

KDists(m, rows) ==
    [id \in DOMAIN m.scores |->
        IF id \in rows /\ Near(m, id) # {} THEN Max({Gap(m, id, i) : i \in Near(m, id)}) ELSE m.scores[id].kdist]

Density(m, id, kdist) ==
    LET known == {i \in Near(m, id) : m.nn[i].id \in DOMAIN m.scores}
        sum == MapThenSumSet(LAMBDA i : Max({Gap(m, id, i), kdist[m.nn[i].id]}), known)
    IN  CASE known = {} -> <<1, 1>>
          [] known # {} /\ sum = 0 -> Infinite
          [] OTHER -> <<Cardinality(known), sum>>

\* Mutant of update_entries: one loop sets both, from the old k-distances.
update_entriesOnePass(m, set) ==
    LET rows == set \cap DOMAIN m.scores
        old == [id \in DOMAIN m.scores |-> m.scores[id].kdist]
    IN  [m EXCEPT !.scores = [id \in DOMAIN m.scores |->
                                IF id \in rows THEN [kdist |-> KDists(m, rows)[id], lrd |-> Density(m, id, old)]
                                ELSE m.scores[id]],
                  !.bad = @ \/ \E id \in rows : Near(m, id) = {}]

\* k-distances first, for all rows of the set; then the densities from the new
\* distances.  A row that the engine does not have makes back() of an empty
\* vector: m.bad.
update_entries(m, set) ==
    LET rows == set \cap DOMAIN m.scores
        kdist == KDists(m, rows)
    IN  [m EXCEPT !.scores = [id \in DOMAIN m.scores |->
                                IF id \in rows THEN [kdist |-> kdist[id], lrd |-> Density(m, id, kdist)]
                                ELSE m.scores[id]],
                  !.bad = @ \/ \E id \in rows : Near(m, id) = {}]

\* The unlearner's callback.
unlearn(m, key) ==
    update_entries([m EXCEPT !.nn = delete_row(@, key),
                             !.scores = [id \in DOMAIN m.scores \ {key} |-> m.scores[id]]],
                   collect_neighbors(m.nn, key) \ {key})

Front(s) == SubSeq(s, 1, Len(s) - 1)
can_secure(m) == Len(m.lru) + Cardinality(m.sticky) < conf.max_size \/ m.lru # <<>>
secure(m) ==
    IF Len(m.lru) + Cardinality(m.sticky) < conf.max_size THEN m
    ELSE [unlearn(m, m.lru[Len(m.lru)]) EXCEPT !.lru = Front(m.lru)]

\* lru_unlearner::touch behind light_lof::touch, which throws when it refuses.
touch(m, id) ==
    CASE id \in Sticky /\ id \in m.sticky -> m
      [] id \notin Sticky /\ \E i \in DOMAIN m.lru : m.lru[i] = id ->
            [m EXCEPT !.lru = <<id>> \o SelectSeq(m.lru, LAMBDA x : x # id)]
      [] OTHER ->
            IF ~can_secure(m) THEN [m EXCEPT !.thrown = TRUE]
            ELSE IF id \in Sticky THEN [secure(m) EXCEPT !.sticky = @ \cup {id}]
            ELSE [secure(m) EXCEPT !.lru = <<id>> \o @]

\* The model already has k - 1 points at this place.
Ignored(t, p) ==
    LET near == neighbor_row(t, p, conf.k - 1)
    IN  conf.ignore /\ Cardinality(near) = conf.k - 1 /\ \A i \in near : dist(t, p, i) = 0

AddDummy(m, id) == [m EXCEPT !.scores = (id :> Dummy) @@ @]

\* set_row: touch, then the engine, then the scores of all rows around the
\* place the row had and the place it has.
set_row(m, id, p) ==
    LET before == IF id \in DOMAIN m.scores THEN collect_neighbors(m.nn, id) ELSE {}
        touched == touch(m, id)
        placed == [touched EXCEPT !.nn = WithRow(@, id, p)]
    IN  CASE Ignored(m.nn, p) -> m
          [] ~Ignored(m.nn, p) /\ touched.thrown -> touched
          [] OTHER -> update_entries(AddDummy(placed, id),
                                     before \cup collect_neighbors(placed.nn, id) \cup {id})

\* set_bulk: all rows go to the engine first; touching starts after that.
set_bulk(m, data) ==
    LET place[i \in 0..Len(data)] ==
            IF i = 0 THEN [nn |-> m.nn, set |-> {}, kept |-> <<>>]
            ELSE LET before == place[i - 1]
                     id == data[i].id
                 IN  IF Ignored(before.nn, data[i].point) THEN before
                     ELSE [nn |-> WithRow(before.nn, id, data[i].point),
                           set |-> before.set \cup
                                   (IF id \in DOMAIN m.scores THEN collect_neighbors(before.nn, id) ELSE {}),
                           kept |-> Append(before.kept, id)]
        placed == place[Len(data)]
        add[i \in 0..Len(placed.kept)] ==
            IF i = 0 THEN [m |-> [m EXCEPT !.nn = placed.nn], set |-> placed.set]
            ELSE LET before == add[i - 1]
                     id == placed.kept[i]
                     touched == touch(before.m, id)
                 IN  IF before.m.thrown THEN before
                     ELSE [m |-> IF touched.thrown THEN touched ELSE AddDummy(touched, id),
                           set |-> before.set \cup collect_neighbors(touched.nn, id) \cup {id}]
        added == add[Len(placed.kept)]
    IN  IF added.m.thrown THEN added.m ELSE update_entries(added.m, added.set)

Mem == [nn |-> nn, scores |-> scores, lru |-> lru, sticky |-> sticky, thrown |-> FALSE, bad |-> FALSE]

Store(m) ==
    /\ nn' = m.nn /\ scores' = m.scores /\ lru' = m.lru /\ sticky' = m.sticky
    /\ outcome' = CASE m.bad -> "undefined" [] m.thrown /\ m.nn # nn -> "half" [] OTHER -> "whole"
    /\ calls' = calls + 1 /\ UNCHANGED conf

SetRow ==
    /\ calls < MaxCalls /\ outcome = "whole"
    /\ \E id \in Id, p \in Point : Store(set_row(Mem, id, p))

SetBulk ==
    /\ calls < MaxCalls /\ outcome = "whole"
    /\ \E data \in Bulk : Store(set_bulk(Mem, data))

clear ==
    /\ calls < MaxCalls /\ outcome # "undefined" /\ nn # <<>>
    /\ nn' = <<>> /\ scores' = <<>> /\ lru' = <<>> /\ sticky' = {}
    /\ outcome' = "whole" /\ calls' = calls + 1 /\ UNCHANGED conf

Next == SetRow \/ SetBulk \/ clear

Spec == Init /\ [][Next]_vars

---------------------------------------------------------------------------
\* calc_anomaly_score finds the parameters of every neighbour: after every call
\* that did not stop half-way, both tables and the unlearner hold the same rows, and what the
\* scores table has of a row is what its neighbours of now give, as long as
\* the table is no larger than the neighbourhood that is searched for updates.
ScoresAreCurrent ==
    outcome = "whole" =>
        LET fresh == update_entries(Mem, ids(nn))
        IN  /\ DOMAIN scores = ids(nn)
            /\ ids(nn) = sticky \cup {lru[i] : i \in DOMAIN lru}
            /\ Len(nn) <= conf.max_size
            /\ Len(nn) <= conf.reverse => scores = fresh.scores

\* "update_entries() below overwrites this row": no dummy parameters stay.
DummiesAreOverwritten == \A id \in DOMAIN scores : scores[id].kdist >= 0
=============================================================================
