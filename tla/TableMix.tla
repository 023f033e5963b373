------------------------------ MODULE TableMix ------------------------------
(***************************************************************************)
(* Nodes that each own a column_table and exchange rows through            *)
(* framework::mixable_versioned_table, in both of its ways:                *)
(*                                                                         *)
(*  - linear MIX: a round gathers from every node the rows newer than its  *)
(*    own version vector, concatenates them and puts the list to all;      *)
(*  - push MIX (gossip): a node hands its version vector to a peer, which  *)
(*    pulls the rows newer than it, which are then pushed to the node.     *)
(*                                                                         *)
(* The rows of a put or a push are applied one set_row at a time, each     *)
(* under its own table lock and followed by update_version, so the learner *)
(* writes in between.  The rows of one pull have different keys, so their  *)
(* order does not matter and they are a set; the concatenation of several  *)
(* nodes' rows is a sequence of such sets.  Reading a table (pull_impl) is *)
(* one step here; TablePull takes it apart.                                *)
(***************************************************************************)
EXTENDS ColumnTable, FiniteSets

CONSTANTS Node,      \* nodes, which are also the owners of versions
          Key,       \* row ids
          Write,     \* identities of local writes; bounds their number
          MaxRounds, \* bound on the linear rounds
          MaxPulls,  \* bound on the gossip pulls
          MaxDeletes, \* bound on the deletions
          MaxRefreshes \* bound on the clock updates

ASSUME NodeAssumption == IsFiniteSet(Node)
ASSUME BoundAssumption == MaxRounds \in Nat /\ MaxPulls \in Nat
    /\ MaxDeletes \in Nat /\ MaxRefreshes \in Nat

VARIABLES table,   \* the column_table of each node
          vc,      \* the version vector of each node: owner -> newest clock
          used,    \* the writes made so far
          deletes, \* how many rows were deleted
          refreshes, \* how many clock updates were made
          rounds,  \* how many linear rounds began
          phase,   \* the linear mixer: "idle", "gather" or "put"
          todo,    \* the nodes it still has to call
          mixed,   \* the rows concatenated so far
          quiet,   \* history: no local operation since this round began
          lost,    \* history: some node missed a put
          pulls,   \* how many gossip pulls were made
          flight,  \* gossip answers on their way to the node that asked
          pending  \* what each node's put or push still has to apply

mixerVars == <<rounds, phase, todo, mixed>>
gossipVars == <<pulls, flight>>
vars == <<table, vc, used, deletes, refreshes, rounds, phase, todo, mixed, quiet, lost,
          pulls, flight, pending>>

\* A version vector is a partial function of owners; nothing seen is -1.
Seen(v, o) == IF o \in DOMAIN v THEN v[o] ELSE -1

\* Mutant of PullRows: off by one.
PullRowsOffByOne(t, v) ==
    {t.rows[i] : i \in {j \in 1..Size(t) :
        Seen(v, t.rows[j].owner) + 1 < t.rows[j].clock}}

\* pull_impl: the rows newer than the vector
PullRows(t, v) ==
    {t.rows[i] : i \in {j \in 1..Size(t) :
        Seen(v, t.rows[j].owner) < t.rows[j].clock}}

\* Mutant of Advance: the vector is kept by row, not by owner.
AdvanceByKey(v, r) ==
    [o \in DOMAIN v \cup {r.key} |-> IF o = r.key THEN r.clock ELSE v[o]]

\* update_version
Advance(v, r) ==
    [o \in DOMAIN v \cup {r.owner} |->
        IF o = r.owner /\ Seen(v, o) < r.clock THEN r.clock ELSE v[o]]

\* Concatenate another node's rows.
Concat(lists, rows) == IF rows = {} THEN lists ELSE Append(lists, rows)

Init ==
    /\ table = [n \in Node |-> EmptyTable]
    /\ vc = [n \in Node |-> [o \in {} |-> 0]]
    /\ used = {}
    /\ deletes = 0
    /\ refreshes = 0
    /\ rounds = 0
    /\ phase = "idle"
    /\ todo = {}
    /\ mixed = <<>>
    /\ quiet = FALSE
    /\ lost = FALSE
    /\ pulls = 0
    /\ flight = {}
    /\ pending = [n \in Node |-> <<>>]

---------------------------------------------------------------------------
\* set_row of the learner: column_table::add under this node's own name
Set(n, k, w) ==
    /\ w \notin used
    /\ used' = used \cup {w}
    /\ table' = [table EXCEPT ![n] = Add(@, k, n, w)]
    /\ quiet' = FALSE
    /\ UNCHANGED <<lost, vc, deletes, refreshes, mixerVars, gossipVars, pending>>

\* delete_row, by the learner or by its unlearner: nobody else is told
Delete(n, k) ==
    /\ deletes < MaxDeletes
    /\ Has(table[n], k)
    /\ deletes' = deletes + 1
    /\ table' = [table EXCEPT ![n] = DeleteRow(@, k)]
    /\ quiet' = FALSE
    /\ UNCHANGED <<lost, vc, used, refreshes, mixerVars, gossipVars, pending>>

\* update_clock: the learner offers a row again under a new version
Refresh(n, k) ==
    /\ refreshes < MaxRefreshes
    /\ Has(table[n], k)
    /\ refreshes' = refreshes + 1
    /\ table' = [table EXCEPT ![n] = UpdateClock(@, k, n)]
    /\ quiet' = FALSE
    /\ UNCHANGED <<lost, vc, used, deletes, mixerVars, gossipVars, pending>>

---------------------------------------------------------------------------
(* Linear MIX.                                                             *)

StartRound ==
    /\ phase = "idle"
    /\ rounds < MaxRounds
    /\ rounds' = rounds + 1
    /\ phase' = "gather"
    /\ todo' = Node
    /\ mixed' = <<>>
    /\ quiet' = TRUE
    /\ UNCHANGED <<lost, table, vc, used, deletes, refreshes, gossipVars, pending>>

\* get_diff of node n, concatenated by mix
Gather(n) ==
    /\ phase = "gather"
    /\ n \in todo
    /\ todo' = todo \ {n}
    /\ mixed' = Concat(mixed, PullRows(table[n], vc[n]))
    /\ UNCHANGED <<table, vc, used, deletes, refreshes, rounds, phase, quiet, lost, gossipVars, pending>>

StartPut ==
    /\ phase = "gather"
    /\ todo = {}
    /\ phase' = "put"
    /\ todo' = Node
    /\ UNCHANGED <<table, vc, used, deletes, refreshes, rounds, mixed, quiet, lost, gossipVars, pending>>

Put(n) ==
    /\ phase = "put"
    /\ n \in todo
    /\ todo' = todo \ {n}
    /\ pending[n] = <<>>
    /\ pending' = [pending EXCEPT ![n] = mixed]
    /\ UNCHANGED <<table, vc, used, deletes, refreshes, rounds, phase, mixed, quiet, lost, gossipVars>>

LosePut(n) ==
    /\ phase = "put"
    /\ n \in todo
    /\ todo' = todo \ {n}
    /\ lost' = TRUE
    /\ UNCHANGED <<table, vc, used, deletes, refreshes, rounds, phase, mixed, quiet, gossipVars, pending>>

EndRound ==
    /\ phase = "put"
    /\ todo = {}
    /\ \A n \in Node : pending[n] = <<>>
    /\ phase' = "idle"
    /\ mixed' = <<>>
    /\ UNCHANGED <<table, vc, used, deletes, refreshes, rounds, todo, quiet, lost, gossipVars, pending>>

---------------------------------------------------------------------------
(* Push MIX.                                                               *)

\* get_argument of node n, then pull of the peer m.  A peer in the middle of
\* its own push is not pulled from: the exchanges of one node are serialised
\* by its mixer, and NoHoles needs it, because the rows of a push are applied
\* in position order and not in clock order.
Pull(n, m) ==
    /\ n # m
    /\ pending[m] = <<>>
    /\ pulls < MaxPulls
    /\ pulls' = pulls + 1
    /\ flight' = flight \cup {[to |-> n, rows |-> PullRows(table[m], vc[n])]}
    /\ UNCHANGED <<table, vc, used, deletes, refreshes, mixerVars, quiet, lost, pending>>

\* push: the answer arrives, now or later, once or again or never
Push(msg) ==
    /\ pending[msg.to] = <<>>
    /\ pending' = [pending EXCEPT ![msg.to] = Concat(@, msg.rows)]
    /\ UNCHANGED <<table, vc, used, deletes, refreshes, mixerVars, quiet, lost, gossipVars>>

---------------------------------------------------------------------------
\* push_impl, one row: set_row, then update_version
ApplyRow(n, r) ==
    /\ pending[n] # <<>>
    /\ r \in Head(pending[n])
    /\ table' = [table EXCEPT ![n] = SetRow(@, r)]
    /\ vc' = [vc EXCEPT ![n] = Advance(@, r)]
    /\ pending' = [pending EXCEPT ![n] =
                      IF Head(@) = {r} THEN Tail(@)
                      ELSE <<Head(@) \ {r}>> \o Tail(@)]
    /\ UNCHANGED <<used, deletes, refreshes, mixerVars, quiet, lost, gossipVars>>

---------------------------------------------------------------------------
Local ==
    \/ \E n \in Node, k \in Key, w \in Write : Set(n, k, w)
    \/ \E n \in Node, k \in Key : Delete(n, k)
    \/ \E n \in Node, k \in Key : Refresh(n, k)

Linear ==
    \/ StartRound
    \/ \E n \in Node : Gather(n)
    \/ StartPut
    \/ \E n \in Node : Put(n)
    \/ EndRound

Gossip ==
    \/ \E n, m \in Node : Pull(n, m)
    \/ \E msg \in flight : Push(msg)

Apply == \E n \in Node : pending[n] # <<>> /\ \E r \in Head(pending[n]) : ApplyRow(n, r)

Loss == \E n \in Node : LosePut(n)

Next == Local \/ Linear \/ Gossip \/ Apply \/ Loss

Spec == Init /\ [][Next]_vars

---------------------------------------------------------------------------
RowType == [key : Key, owner : Node, clock : Nat, value : Write]

\* Type invariant.
TypeOK ==
    /\ \A n \in Node :
          /\ table[n].rows \in Seq(RowType)
          /\ table[n].clock \in Nat
          /\ DOMAIN table[n].index \subseteq Key
          /\ DOMAIN vc[n] \subseteq Node
          /\ \A o \in DOMAIN vc[n] : vc[n][o] \in Nat
    /\ used \subseteq Write
    /\ phase \in {"idle", "gather", "put"}
    /\ todo \subseteq Node
    /\ mixed \in Seq(SUBSET RowType)
    /\ \A msg \in flight : msg.to \in Node /\ msg.rows \in SUBSET RowType
    /\ pending \in [Node -> Seq(SUBSET RowType)]

\* In every table the index finds exactly the rows there are, through any
\* mix of appends, overwrites and swap-with-last deletions, and the clock is
\* past every version, so the next local write is newer than all of them.
TablesWellFormed == \A n \in Node : WellFormed(table[n])

Contents(t) == {t.rows[i] : i \in 1..Size(t)}
Listed(lists) == UNION {lists[i] : i \in 1..Len(lists)}

AllRows ==
    (UNION {Contents(table[n]) \cup Listed(pending[n]) : n \in Node})
      \cup Listed(mixed)
      \cup (UNION {msg.rows : msg \in flight})

\* A version names one write: rows that travelled any number of hops and
\* carry the same owner and clock are the same row.
VersionNamesRow ==
    \A r, s \in AllRows : r.owner = s.owner /\ r.clock = s.clock => r = s

\* A row a node has seen is never replaced by an older one.
NoRegress ==
    [][\A n \in Node, k \in Key :
          Has(table[n], k) /\ Has(table[n]', k) =>
              RowOf(table[n]', k).clock >= RowOf(table[n], k).clock]_vars

\* The version vector is honest: what a node would no longer be sent because
\* of its vector, it holds already, itself or in a version not older, or is
\* about to apply.  It is so as long as nothing is deleted, no put is lost and
\* the nodes use one of the two ways only.
NoHoles ==
    deletes = 0 /\ ~lost /\ (rounds = 0 \/ pulls = 0) =>
    \A n, m \in Node : \A r \in Contents(table[m]) :
        Seen(vc[n], r.owner) >= r.clock =>
            \/ Has(table[n], r.key) /\ RowOf(table[n], r.key).clock >= r.clock
            \/ \E p \in Listed(pending[n]) : p.key = r.key /\ p.clock >= r.clock

\* After a linear round during which nobody wrote, all tables are equal,
\* although equal clocks of different owners may compete for a row, if no row
\* was deleted, no put lost and no gossip mixed in.
QuietRoundConverges ==
    phase = "idle" /\ quiet /\ deletes = 0 /\ pulls = 0 /\ ~lost =>
        \A n, m \in Node : Contents(table[n]) = Contents(table[m])

\* An exchange leaves no hole: version vectors hide no row, and a linear round
\* that nobody disturbed makes all tables equal.
ExchangesComplete == NoHoles /\ QuietRoundConverges
=============================================================================
