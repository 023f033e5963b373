------------------------------- MODULE LofMix -------------------------------
(***************************************************************************)
(* anomaly::lof on several servers: lof_storage keeps k-distances and local*)
(* reachability densities in a table and a difference, the rows themselves *)
(* are in a recommender (euclid_lsh) with a table and a difference of its  *)
(* own, and the unlearner removes rows from both.  A MIX carries the two   *)
(* differences, one after the other.  A negative k-distance marks a row as *)
(* removed; the recommender marks one by an entry without hashes, Gone.    *)
(* Points are integers, the search is exact, a density is the pair         *)
(* <<length, sum_reachability>>; equal distances are in a fixed order.     *)
(***************************************************************************)
EXTENDS Integers, FiniteSets, FiniteSetsExt, Functions, TLC

CONSTANTS Server, Id, Point, Gone,
          Sticky,    \* ids that the unlearner keeps for good
          Before(_, _), \* the order of rows at the same distance
          Config,    \* [k, reverse, max_size, ignore]: 2 <= k <= reverse
          MaxCalls, MaxRounds

LofConfig ==
    \A c \in Config : 2 <= c.k /\ c.k <= c.reverse /\ c.max_size \in Nat \ {0}

VARIABLES conf,
          model,     \* per server: see Empty
          round,     \* the MIX: its stage, whom it still asks, what it has
          calls, rounds,
          fresh,     \* the server whose last call updated and unlearned nothing
          hidden,    \* per server: rows it removed that nobody updated since
          spoiled    \* what parted the tables: "unmixed", "overtaken", "refused", "cleared"

lofVars == <<conf, model, round, calls, rounds, fresh, hidden, spoiled>>

Entry(kdist, lrd) == [kdist |-> kdist, lrd |-> lrd]
Mark == Entry(-1, <<0, 1>>)
NoRows == [r \in {} |-> Gone]
With(t, r, v) == (r :> v) @@ t
Without(t, r) == Restrict(t, DOMAIN t \ {r})
is_removed(e) == e.kdist < 0

\* nn, nn_diff, orig: the recommender; table, diff: lof_table_, lof_table_diff_
Empty == [nn |-> NoRows, nn_diff |-> NoRows, orig |-> {}, table |-> NoRows,
          diff |-> NoRows, memory |-> {}]
Idle == [stage |-> "idle", todo |-> {}, lof |-> NoRows, nn |-> NoRows]

Init ==
    /\ conf \in Config
    /\ model = [s \in Server |-> Empty]
    /\ round = Idle
    /\ calls = 0 /\ rounds = 0
    /\ fresh = {}
    /\ hidden = [s \in Server |-> {}]
    /\ spoiled = {}

---------------------------------------------------------------------------
(* The recommender.                                                        *)

\* get_lsh_entry of every row that is not removed
Rows(m) ==
    LET all == m.nn_diff @@ m.nn
    IN  Restrict(all, {r \in DOMAIN all : all[r] # Gone})

dist(p, q) == IF p >= q THEN p - q ELSE q - p

\* neighbor_row
neighbor_row(m, p, n) ==
    LET rows == Rows(m)
        Nearer(q, r) == \/ dist(rows[q], p) < dist(rows[r], p)
                        \/ dist(rows[q], p) = dist(rows[r], p) /\ Before(q, r)
    IN  {r \in DOMAIN rows : Cardinality({q \in DOMAIN rows : Nearer(q, r)}) < n}
neighbor_row_id(m, id, n) ==
    IF id \in DOMAIN Rows(m) THEN neighbor_row(m, Rows(m)[id], n) ELSE {}

\* update_row
nn_update_row(m, id, p) ==
    [m EXCEPT !.nn_diff = With(@, id, p), !.orig = @ \cup {id}]

\* clear_row: a row that was never mixed leaves no trace
nn_clear_row(m, id) ==
    [m EXCEPT !.orig = @ \ {id},
              !.nn_diff = IF id \in DOMAIN m.nn THEN With(@, id, Gone) ELSE Without(@, id)]

---------------------------------------------------------------------------
(* lof_storage.                                                            *)

remove_row(m, id) == nn_clear_row([m EXCEPT !.diff = With(@, id, Mark)], id)

\* Where get_kdist and get_lrd find an entry; without one they throw.
Found(m, id) ==
    IF id \in DOMAIN m.diff THEN ~is_removed(m.diff[id]) ELSE id \in DOMAIN m.table
EntryOf(m, id) == IF id \in DOMAIN m.diff THEN m.diff[id] ELSE m.table[id]

collect_neighbors(m, id) == neighbor_row_id(m, id, conf.reverse)

\* The entry that lof_table_diff_[id] gives: a zero one where there was none.
DiffEntry(m, id) == IF id \in DOMAIN m.diff THEN m.diff[id] ELSE Entry(0, <<0, 1>>)

\* update_kdist_with_neighbors, for every row of a set
update_kdists(m, near) ==
    LET rows == Rows(m)
        set == {id \in DOMAIN near : near[id] # {}}
        kdist(id) == Max({dist(rows[id], rows[q]) : q \in near[id]})
    IN  [m EXCEPT !.diff = [id \in set |-> Entry(kdist(id), DiffEntry(m, id).lrd)] @@ @]

\* update_lrd_with_neighbors, for every row of a set
update_lrds(m, near) ==
    LET rows == Rows(m)
        reach(id, q) == Max({dist(rows[id], rows[q]), EntryOf(m, q).kdist})
        lrd(id) == IF near[id] = {} THEN <<1, 1>>
                   ELSE <<Cardinality(near[id]), MapThenSumSet(LAMBDA q : reach(id, q), near[id])>>
    IN  [m EXCEPT !.diff = [id \in DOMAIN near |-> Entry(DiffEntry(m, id).kdist, lrd(id))] @@ @]

\* update_entries: the k-distances of all rows, then the densities from them.
\* A neighbour without an entry makes it throw before the densities are set.
update_entries(m, set) ==
    LET near == [id \in set |-> neighbor_row_id(m, id, conf.k)] @@ NoRows
        m1 == update_kdists(m, near)
    IN  IF \A id \in set : \A q \in near[id] : Found(m1, q) THEN update_lrds(m1, near) ELSE m1

\* The model already has k - 1 points at this place.
Ignored(m, p) ==
    LET near == neighbor_row(m, p, conf.k - 1)
    IN  /\ conf.ignore
        /\ Cardinality(near) = conf.k - 1
        /\ \A r \in near : dist(Rows(m)[r], p) = 0

\* update_row of one row: its neighbours before and after, and itself
PutRow(m, id, p) == nn_update_row(m, id, p)
Around(m, id, p) ==
    (IF id \in m.orig THEN collect_neighbors(m, id) ELSE {})
        \cup collect_neighbors(PutRow(m, id, p), id) \cup {id}
update_row(m, id, p) == update_entries(PutRow(m, id, p), Around(m, id, p))

---------------------------------------------------------------------------
(* The unlearner: it may remove any id that is not sticky.                 *)

can_touch(m, id) ==
    id \in m.memory \/ Cardinality(m.memory) < conf.max_size \/ ~(m.memory \subseteq Sticky)
Victims(m, id) ==
    IF id \in m.memory \/ Cardinality(m.memory) < conf.max_size THEN {{}}
    ELSE {{v} : v \in m.memory \ Sticky}
touch(m, id, old) ==
    [(IF old = {} THEN m ELSE remove_row(m, CHOOSE v \in old : TRUE))
        EXCEPT !.memory = (@ \ old) \cup {id}]

---------------------------------------------------------------------------
(* lof.                                                                    *)

\* Rows are removed from s before it has what a MIX is gathering: of those its
\* recommender has not mixed yet, that keeps no mark, and they may come back.
Unmixed(s, m, old) ==
    IF \/ round = Idle \/ (round.stage = "put" /\ s \notin round.todo)
       \/ old \subseteq DOMAIN m.nn
    THEN {} ELSE {"unmixed"}

Became(s, m, removed, updated) ==
    /\ model' = [model EXCEPT ![s] = m]
    /\ hidden' = [q \in Server |-> (IF q = s THEN hidden[q] \cup removed ELSE hidden[q]) \ updated]
    /\ spoiled' = spoiled \cup Unmixed(s, model[s], removed)
    /\ calls' = calls + 1
    /\ UNCHANGED <<conf, round, rounds>>

\* update_row, or set_row, which removes the row first and has done so when
\* the new one is ignored or refused: the unlearner may keep an id without a row.
Update(s, id, p, set) ==
    LET m == IF set THEN remove_row(model[s], id) ELSE model[s]
    IN  /\ calls < MaxCalls
        /\ IF ~can_touch(m, id) \/ Ignored(m, p)
           THEN Became(s, m, IF set THEN {id} ELSE {}, {}) /\ fresh' = {}
           ELSE \E old \in Victims(m, id) :
                    /\ Became(s, touch(update_row(m, id, p), id, old), old, {id})
                    /\ fresh' = IF old = {} THEN {s} ELSE {}

\* update_bulk of two rows: both are in the recommender, and the unlearner has
\* been told, before any entry is computed.
UpdateBulk(s, i, j, p) ==
    LET m == model[s]
        m1 == PutRow(m, i, p)
        set1 == Around(m, i, p)
    IN  /\ calls < MaxCalls
        /\ can_touch(m, i) /\ ~Ignored(m, p)
        /\ \E old \in Victims(m, i) :
             LET m2 == touch(m1, i, old)
             IN  IF can_touch(m2, j) /\ ~Ignored(m2, p)
                 THEN \E old2 \in Victims(m2, j) :
                        /\ Became(s, update_entries(touch(PutRow(m2, j, p), j, old2), set1 \cup Around(m2, j, p)),
                                  old \cup old2, {i, j} \ (old \cup old2))
                        /\ fresh' = IF old \cup old2 = {} THEN {s} ELSE {}
                 ELSE /\ Became(s, update_entries(m2, set1), old, {i})
                      /\ fresh' = IF old = {} THEN {s} ELSE {}

ClearRow(s, id) ==
    /\ calls < MaxCalls
    /\ Became(s, [remove_row(model[s], id) EXCEPT !.memory = @ \ {id}], {id}, {})
    /\ fresh' = {}

clear(s) ==
    /\ calls < MaxCalls
    /\ model' = [model EXCEPT ![s] = Empty]
    /\ calls' = calls + 1 /\ fresh' = {}
    /\ hidden' = [hidden EXCEPT ![s] = {}]
    /\ spoiled' = spoiled \cup {"cleared"}
    /\ UNCHANGED <<conf, round, rounds>>

---------------------------------------------------------------------------
(* MIX.                                                                    *)

\* mix: a removal wins, otherwise the entry gathered first
mix(lhs, rhs) == [id \in {x \in DOMAIN lhs : is_removed(lhs[x])} |-> Mark] @@ rhs @@ lhs

StartRound ==
    /\ round.stage = "idle" /\ rounds < MaxRounds
    /\ round' = [Idle EXCEPT !.stage = "gather", !.todo = Server]
    /\ rounds' = rounds + 1
    /\ UNCHANGED <<conf, model, calls, fresh, hidden, spoiled>>

\* A row that one server removed and another updated goes from one table and
\* comes into the other.
Overtaken(lof, rows) ==
    {"overtaken" : id \in {x \in DOMAIN lof \cap DOMAIN rows : is_removed(lof[x]) /\ rows[x] # Gone}}

\* get_diff of both storages, mixed with what there is
Gather(s) ==
    LET lof == mix(model[s].diff, round.lof)
        rows == model[s].nn_diff @@ round.nn
        last == round.todo = {s}
    IN  /\ round.stage = "gather" /\ s \in round.todo
        /\ round' = [stage |-> IF last THEN "put" ELSE "gather",
                      todo |-> IF last THEN Server ELSE round.todo \ {s},
                      lof |-> lof, nn |-> rows]
        /\ spoiled' = spoiled \cup (IF last THEN Overtaken(lof, rows) ELSE {})
        /\ UNCHANGED <<conf, model, calls, rounds, fresh, hidden>>

\* One row of put_diff: what the model may be afterwards, and what went wrong.
PutEntry(o, id) ==
    LET e == round.lof[id]
        m == o.m
    IN  IF is_removed(e)
        THEN {[o EXCEPT !.m.memory = @ \ {id}, !.m.table = Without(@, id)]}
        ELSE IF ~can_touch(m, id) THEN {[o EXCEPT !.bad = @ \cup {"refused"}]}
        ELSE {[m |-> [touch(m, id, old) EXCEPT !.table = With(@, id, e)],
               gone |-> o.gone \cup old,
               bad |-> o.bad] : old \in Victims(m, id)}

\* The rows in any order.
PutEntries(m) ==
    LET done[ids \in SUBSET DOMAIN round.lof] ==
            IF ids = {} THEN {[m |-> m, gone |-> {}, bad |-> {}]}
            ELSE UNION {UNION {PutEntry(o, id) : o \in done[ids \ {id}]} : id \in ids}
    IN  done[DOMAIN round.lof]

\* Mutant of Kept: the difference is just cleared.
KeptNothing(m) == NoRows

\* Rows removed since get_diff stay marked for the next MIX.
Kept(m) ==
    [id \in {x \in DOMAIN m.diff : /\ is_removed(m.diff[x])
                                   /\ x \in DOMAIN round.lof => ~is_removed(round.lof[x])} |-> Mark]

\* lsh_index_storage::put_diff, without an unlearner
nn_put_diff(m) ==
    LET removed == {r \in DOMAIN round.nn : round.nn[r] = Gone}
        kept == {r \in DOMAIN m.nn_diff : m.nn_diff[r] = Gone /\ r \notin removed}
    IN  [m EXCEPT !.nn = Restrict(round.nn @@ @, (DOMAIN round.nn \cup DOMAIN @) \ removed),
                  !.nn_diff = [r \in kept |-> Gone]]

\* put_diff of both storages, in the order of lof::get_mixables
Put(s) ==
    /\ round.stage = "put" /\ s \in round.todo
    /\ \E o \in PutEntries(model[s]) :
          /\ model' = [model EXCEPT ![s] = nn_put_diff([o.m EXCEPT !.diff = Kept(o.m)])]
          /\ hidden' = [hidden EXCEPT ![s] = @ \cup o.gone]
          /\ spoiled' = spoiled \cup o.bad \cup Unmixed(s, model[s], o.gone)
    /\ round' = IF round.todo = {s} THEN Idle ELSE [round EXCEPT !.todo = @ \ {s}]
    /\ fresh' = {}
    /\ UNCHANGED <<conf, calls, rounds>>

Next ==
    \/ \E s \in Server, id \in Id, p \in Point, set \in BOOLEAN : Update(s, id, p, set)
    \/ \E s \in Server, i, j \in Id, p \in Point : Before(i, j) /\ UpdateBulk(s, i, j, p)
    \/ \E s \in Server, id \in Id : ClearRow(s, id)
    \/ \E s \in Server : clear(s) \/ Gather(s) \/ Put(s)
    \/ StartRound

Spec == Init /\ [][Next]_lofVars

---------------------------------------------------------------------------
Parted == spoiled \ {"cleared"}

\* calc_anomaly_score of any row finds the entry of every neighbour, and no
\* entry is of a row that is gone: two tables that are changed, mixed and
\* unlearned from separately list the same rows, until a row is removed that
\* the recommender has not mixed yet, a removal meets an update of the same row,
\* or the unlearner has no room.
TablesListTheSame ==
    \A s \in Server, id \in Id :
        /\ Parted = {} /\ id \in DOMAIN Rows(model[s]) => Found(model[s], id)
        /\ spoiled = {} /\ Found(model[s], id) => id \in DOMAIN Rows(model[s])

\* After an update that unlearned nothing every entry is what the rows of now
\* give, as long as the rows are no more than are searched for.
ScoresFresh ==
    \A s \in fresh :
        LET m == model[s]
        IN  Parted = {} /\ Cardinality(DOMAIN Rows(m)) <= conf.reverse =>
                update_entries(m, DOMAIN Rows(m)) = [m EXCEPT !.diff = [id \in DOMAIN Rows(m) |-> EntryOf(m, id)] @@ @]

\* What a server removed, or unlearned to make room, does not come back to it
\* by MIX unless somebody updates it.
RemovedStaysHidden ==
    Parted = {} => \A s \in Server : DOMAIN Rows(model[s]) \cap hidden[s] = {}

\* Between rounds the tables of all servers are equal.
TablesAgree ==
    round = Idle /\ spoiled = {} =>
        \A s, t \in Server : model[s].table = model[t].table /\ model[s].nn = model[t].nn
=============================================================================
