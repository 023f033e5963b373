--------------------------- MODULE NeighborTables ---------------------------
(***************************************************************************)
(* What stands on a nearest neighbour engine and its column_table besides  *)
(* the classifier (NNClassifier): the driver nearest_neighbor, the         *)
(* recommender of that name with its original rows, and the regression with*)
(* its table of values.  Servers exchange the tables by linear MIX         *)
(* (TableMix; here a put applies all rows of one table at once).  Calls of *)
(* a server run one at a time, but for train of the regression, which MIX  *)
(* may interrupt where it holds no lock.                                   *)
(***************************************************************************)
EXTENDS ColumnTable, FiniteSets, Functions

CONSTANTS Server,
          Id,          \* ids of the driver's and the recommender's rows
          Sticky,      \* those that cannot be unlearned
          Column,      \* columns of the recommender's rows
          Users,       \* which of "driver", "recommender", "regression" run
          MaxSizes,    \* sizes of the unlearner, 0 for none
          MaxCalls, MaxRounds

\* Positive numbers are the ids the regression makes.
NeighborAssumption ==
    Sticky \subseteq Id /\ Id \subseteq Int \ Nat /\ MaxSizes \subseteq Nat

VARIABLES user, max_size,
          srv,       \* per server: [table, vc, values, vvc, orig, lru, sticky, train]
          calls,     \* calls made; the next one's number is what it stores
          rounds, phase,
          asked,     \* <<server, table>> the mixer still has to call
          mixed,     \* the rows gathered, per table
          disturbed  \* history, see each property

neighborVars == <<user, max_size, srv, calls, rounds, phase, asked, mixed, disturbed>>

NoId == 0
With(f, k, v) == [x \in DOMAIN f \cup {k} |-> IF x = k THEN v ELSE f[x]]
Idle == [step |-> "idle", id |-> NoId]
NoClock == [o \in {} |-> 0]
None == [i \in {} |-> 0]

Init ==
    /\ user \in Users /\ max_size \in MaxSizes
    /\ srv = [s \in Server |->
                [table |-> EmptyTable, vc |-> NoClock, values |-> EmptyTable, vvc |-> NoClock,
                 orig |-> None, lru |-> <<>>, sticky |-> {}, train |-> Idle]]
    /\ calls = 0
    /\ rounds = 0 /\ phase = "idle" /\ asked = {}
    /\ mixed = [table |-> <<>>, values |-> <<>>]
    /\ disturbed = {}

\* The factory gives the regression's engine no name, and values_ has none.
owner(s) == IF user = "regression" THEN "" ELSE s

---------------------------------------------------------------------------
(* The unlearner.                                                          *)

Known(m) == Range(m.lru) \cup m.sticky
Without(l, x) ==
    LET i == CHOOSE i \in DOMAIN l : l[i] = x
    IN  IF x \in Range(l) THEN SubSeq(l, 1, i - 1) \o SubSeq(l, i + 1, Len(l)) ELSE l
CountOf(m) == Len(m.lru) + Cardinality(m.sticky)
Full(m) == CountOf(m) >= max_size
can_touch(m, id) == max_size = 0 \/ id \in Known(m) \/ ~Full(m) \/ m.lru # <<>>

\* The callbacks: of the driver a row_deleter, of the others all they keep.
unlearn(m, id) ==
    [m EXCEPT !.table = DeleteRow(@, id),
              !.values = IF user = "regression" THEN DeleteRow(@, id) ELSE @,
              !.orig = IF user = "recommender" THEN Restrict(@, DOMAIN @ \ {id}) ELSE @]

\* Mutant of touch: the oldest is unlearned and stays in the list.
touchKeeps(m, id) ==
    IF max_size = 0 \/ ~can_touch(m, id) \/ id \in m.sticky THEN m
    ELSE LET oldest == m.lru[Len(m.lru)]
             room == IF id \in Known(m) \/ ~Full(m) THEN m ELSE unlearn(m, oldest)
         IN  IF id \in Sticky THEN [room EXCEPT !.sticky = @ \cup {id}]
             ELSE [room EXCEPT !.lru = <<id>> \o Without(@, id)]

touch(m, id) ==
    IF max_size = 0 \/ ~can_touch(m, id) \/ id \in m.sticky THEN m
    ELSE LET oldest == m.lru[Len(m.lru)]
             room == IF id \in Known(m) \/ ~Full(m) THEN m
                     ELSE [unlearn(m, oldest) EXCEPT !.lru = SubSeq(@, 1, Len(@) - 1)]
         IN  IF id \in Sticky THEN [room EXCEPT !.sticky = @ \cup {id}]
             ELSE [room EXCEPT !.lru = <<id>> \o Without(@, id)]

forget(m, id) ==
    [m EXCEPT !.lru = Without(@, id), !.sticky = @ \ {id}]

---------------------------------------------------------------------------
(* Calls.                                                                  *)

Call(s, m) ==
    /\ calls < MaxCalls /\ calls' = calls + 1
    /\ srv' = [srv EXCEPT ![s] = m]
    /\ UNCHANGED <<user, max_size, rounds, phase, asked, mixed>>

\* The driver sets the row whatever touch says.
driver_set_row(s, id) ==
    /\ user = "driver"
    /\ Call(s, [touch(srv[s], id) EXCEPT !.table = Add(@, id, owner(s), calls + 1)])
    /\ disturbed' = IF can_touch(srv[s], id) THEN disturbed ELSE disturbed \cup {<<"refused", s>>}

\* The columns given are set in the original row; the engine gets that row,
\* whatever MIX has brought under its id.
update_row(s, id, c) ==
    /\ user = "recommender" /\ can_touch(srv[s], id)
    /\ LET m == touch(srv[s], id)
           row == With(IF id \in DOMAIN m.orig THEN m.orig[id] ELSE None, c, calls + 1)
       IN  Call(s, [m EXCEPT !.orig = With(@, id, row), !.table = Add(@, id, owner(s), row)])
    /\ UNCHANGED disturbed

clear_row(s, id) ==
    /\ user = "recommender"
    /\ Call(s, forget(unlearn(srv[s], id), id))
    /\ UNCHANGED disturbed

\* train: a new id, random in the code, is touched with the unlearner's and
\* the table's lock, its row is set with the latter, its value with no lock but
\* that of values_
TrainTouch(s) ==
    /\ user = "regression" /\ srv[s].train = Idle
    /\ Call(s, [touch(srv[s], calls + 1) EXCEPT !.train = [step |-> "row", id |-> calls + 1]])
    /\ UNCHANGED disturbed

\* MIX is between the two tables of this server.
Between(s) == <<s, "values">> \in asked /\ <<s, "table">> \notin asked

Train(s, m) ==
    /\ srv' = [srv EXCEPT ![s] = m]
    /\ disturbed' = disturbed \cup IF Between(s) THEN {<<"split", s>>} ELSE {}
    /\ UNCHANGED <<user, max_size, calls, rounds, phase, asked, mixed>>
TrainRow(s) ==
    /\ srv[s].train.step = "row"
    /\ Train(s, [srv[s] EXCEPT !.table = Add(@, srv[s].train.id, owner(s), srv[s].train.id),
                               !.train.step = "value"])
TrainValue(s) ==
    /\ srv[s].train.step = "value"
    /\ Train(s, [srv[s] EXCEPT !.values = Add(@, srv[s].train.id, owner(s), srv[s].train.id),
                               !.train = Idle])

\* clear: tables, original rows, unlearner; version vectors stay.  Like unpack,
\* it runs alone.
Cleared(m) ==
    [m EXCEPT !.table = ClearTable(@), !.values = ClearTable(@), !.orig = None,
              !.lru = <<>>, !.sticky = {}]
clear(s) ==
    /\ srv[s].train = Idle /\ ~Between(s)
    /\ Call(s, Cleared(srv[s]))
    /\ disturbed' = disturbed \cup {<<"cleared", s>>}

\* unpack of what another server packed; version vectors stay here too.
unpack(s, r) ==
    /\ s # r /\ srv[s].train = Idle /\ srv[r].train = Idle /\ ~Between(s) /\ ~Between(r)
    /\ Call(s, [srv[r] EXCEPT !.vc = srv[s].vc, !.vvc = srv[s].vvc])
    /\ disturbed' = disturbed \cup {<<"cleared", s>>}

---------------------------------------------------------------------------
(* MIX.                                                                    *)

Tables == IF user = "regression" THEN {"table", "values"} ELSE {"table"}
Seen(v, o) == IF o \in DOMAIN v THEN v[o] ELSE -1
Gathered(w) == IF w = "table" THEN mixed.table ELSE mixed.values
PullRows(t, v) ==
    LET upto[i \in 0..Size(t)] ==
            IF i = 0 THEN <<>>
            ELSE IF Seen(v, t.rows[i].owner) < t.rows[i].clock THEN Append(upto[i - 1], t.rows[i])
            ELSE upto[i - 1]
    IN  upto[Size(t)]
Pulled(m, w) == IF w = "table" THEN PullRows(m.table, m.vc) ELSE PullRows(m.values, m.vvc)
Advance(v, r) == With(v, r.owner, IF Seen(v, r.owner) < r.clock THEN r.clock ELSE v[r.owner])

\* set_row and update_version; the engine's table has the unlearner of the
\* regression, values_ and the other users' tables have none.
PutRow(m, w, r) ==
    IF w = "values" THEN [m EXCEPT !.values = SetRow(@, r), !.vvc = Advance(@, r)]
    ELSE [(IF user = "regression" THEN touch(m, r.key) ELSE m)
             EXCEPT !.table = SetRow(@, r), !.vc = Advance(@, r)]
PutRows(m, w, rows) ==
    LET upto[i \in 0..Len(rows)] == IF i = 0 THEN m ELSE PutRow(upto[i - 1], w, rows[i])
    IN  upto[Len(rows)]

Mixer == UNCHANGED <<user, max_size, calls>>

StartRound ==
    /\ phase = "idle" /\ rounds < MaxRounds
    /\ rounds' = rounds + 1 /\ phase' = "get" /\ asked' = Server \X Tables
    /\ mixed' = [table |-> <<>>, values |-> <<>>]
    /\ Mixer /\ UNCHANGED <<srv, disturbed>>

\* A server is asked for all its tables in one call, one after the other.
InOrder(s, w) == w = "values" => <<s, "table">> \notin asked

get_diff(s, w) ==
    /\ phase = "get" /\ <<s, w>> \in asked /\ InOrder(s, w)
    /\ asked' = asked \ {<<s, w>>}
    /\ LET rows == Gathered(w) \o Pulled(srv[s], w)
       IN  mixed' = IF w = "table" THEN [mixed EXCEPT !.table = rows] ELSE [mixed EXCEPT !.values = rows]
    /\ disturbed' = disturbed \cup IF srv[s].train = Idle THEN {} ELSE {<<"split", s>>}
    /\ Mixer /\ UNCHANGED <<srv, rounds, phase>>

StartPut ==
    /\ phase = "get" /\ asked = {}
    /\ phase' = "put" /\ asked' = Server \X Tables
    /\ Mixer /\ UNCHANGED <<srv, rounds, mixed, disturbed>>

put_diff(s, w) ==
    /\ phase = "put" /\ <<s, w>> \in asked /\ InOrder(s, w)
    /\ asked' = asked \ {<<s, w>>}
    /\ srv' = [srv EXCEPT ![s] = PutRows(@, w, Gathered(w))]
    /\ disturbed' = disturbed \cup IF srv[s].train = Idle THEN {} ELSE {<<"split", s>>}
    /\ Mixer /\ UNCHANGED <<rounds, phase, mixed>>

EndRound ==
    /\ phase = "put" /\ asked = {}
    /\ phase' = "idle"
    /\ Mixer /\ UNCHANGED <<srv, rounds, asked, mixed, disturbed>>

Next ==
    \/ \E s \in Server, id \in Id :
          \/ driver_set_row(s, id) \/ clear_row(s, id)
          \/ \E c \in Column : update_row(s, id, c)
    \/ \E s, r \in Server : unpack(s, r)
    \/ \E s \in Server : TrainTouch(s) \/ TrainRow(s) \/ TrainValue(s) \/ clear(s)
    \/ \E s \in Server, w \in {"table", "values"} : get_diff(s, w) \/ put_diff(s, w)
    \/ StartRound \/ StartPut \/ EndRound

Spec == Init /\ [][Next]_neighborVars

---------------------------------------------------------------------------
Ids(t) == DOMAIN t.index
Happened(what) == \E s \in Server : <<what, s>> \in disturbed

\* Nothing is remembered that is not there: an id the unlearner counts has a
\* row, or will have one when the train under way is done.
MemoryHasRows ==
    \A s \in Server : Known(srv[s]) \ Ids(srv[s].table) \subseteq
        IF srv[s].train.step = "row" THEN {srv[s].train.id} ELSE {}

\* The recommender's original rows are rows of the engine, and a row whose
\* version is of this server is what was put together here.
OrigMatchesRows ==
    user = "recommender" =>
        \A s \in Server : \A id \in DOMAIN srv[s].orig :
            /\ id \in Ids(srv[s].table)
            /\ ~Happened("cleared") /\ RowOf(srv[s].table, id).owner = s =>
                   RowOf(srv[s].table, id).value = srv[s].orig[id]

\* estimate: a neighbour without a value has that of the first row.
Estimated(m, id) ==
    IF Has(m.values, id) THEN RowOf(m.values, id).value
    ELSE IF Size(m.values) = 0 THEN NoId ELSE m.values.rows[1].value

\* Without an unlearner, and if MIX comes to no server in the middle of train,
\* both tables of the regression have the same rows under the same versions
\* between puts, and an estimate uses the value a neighbour was trained with.
ValuesFollowRows ==
    user = "regression" /\ max_size = 0 /\ ~Happened("split") =>
        \A s \in Server : srv[s].train = Idle /\ ~(phase = "put" /\ <<s, "values">> \in asked) =>
            /\ Ids(srv[s].table) = Ids(srv[s].values)
            /\ \A id \in Ids(srv[s].table) :
                  /\ RowOf(srv[s].table, id).clock = RowOf(srv[s].values, id).clock
                  /\ Estimated(srv[s], id) = id

\* With one, the engine of the regression has no more rows than it allows,
\* MIX or not, unless MIX came in the middle of train.
RegressionIsBounded ==
    user = "regression" /\ max_size > 0 /\ ~Happened("split") =>
        \A s \in Server : Size(srv[s].table) <= max_size

\* Until it mixes, so has the driver's, if none was refused.
DriverIsBounded ==
    user # "regression" /\ max_size > 0 /\ rounds = 0 /\ ~Happened("refused") =>
        \A s \in Server : Size(srv[s].table) <= max_size

NeighborsAreServed ==
    /\ MemoryHasRows /\ OrigMatchesRows /\ ValuesFollowRows
    /\ RegressionIsBounded /\ DriverIsBounded
=============================================================================
