---------------------------- MODULE BitIndexMix ----------------------------
(***************************************************************************)
(* Nodes running recommender::lsh (or minhash) over storage::bit_index_    *)
(* storage with an unlearner, merged by linear MIX.  A storage has a       *)
(* master and a difference table; a removed row that the master has stays  *)
(* in the difference as a 0-bit vector, Gone, until the next MIX.  The     *)
(* unlearner is the promise of Unlearner: any id that is not sticky may be *)
(* unlearned, and its callback removes the row.  The second part adds the  *)
(* buckets of storage::lsh_index_storage to the same tables of rows.       *)
(*                                                                         *)
(* put_diff walks the mixed table in the order of a hash map, so it is one *)
(* step per row here; a node does nothing else in between, as the server   *)
(* holds its model lock.                                                   *)
(***************************************************************************)
EXTENDS Integers, FiniteSets, Functions

CONSTANTS Node,
          RowId,
          Value,     \* bit vectors
          Gone,      \* the 0-bit vector
          Sticky,    \* row ids that are never unlearned
          MaxSize,   \* the unlearner's bound
          MaxRounds, \* bound on the rounds
          MaxEdits   \* bound on the rows updated and cleared

ASSUME GoneAssumption == Gone \notin Value
ASSUME StickyAssumption == Sticky \subseteq RowId
ASSUME BoundAssumption ==
    MaxSize \in Nat \ {0} /\ MaxRounds \in Nat /\ MaxEdits \in Nat

VARIABLES bitvals, \* the master table of each node: row -> value
          diff,    \* bitvals_diff_ of each node: row -> value or Gone
          orig,    \* the rows of each node's orig_
          memory,  \* the ids in memory of each node's unlearner
          edits,   \* how many rows were updated and cleared
          rounds,  \* how many rounds began
          phase,   \* "idle", "gather" or "put"
          todo,    \* nodes still to be asked or put to
          mixed,   \* the mixed difference
          rest,    \* rows each node's put has still to apply
          busy,    \* nodes in the middle of a put
          quiet,   \* history: how many rounds ran without an edit since (up to 2)
          cleared, \* history: rows a node cleared since it gave its difference
          full     \* history: what full unlearners did: "unlearned", "refused"

modelVars == <<bitvals, diff, orig, memory>>
mixerVars == <<rounds, phase, todo, mixed, rest, busy>>
vars == <<modelVars, mixerVars, edits, quiet, cleared, full>>

NoRows == [r \in {} |-> Gone]
With(t, r, v) == [i \in DOMAIN t \cup {r} |-> IF i = r THEN v ELSE t[i]]
Without(t, rs) == Restrict(t, DOMAIN t \ rs)
Over(t, u) == [i \in DOMAIN t \cup DOMAIN u |-> IF i \in DOMAIN t THEN t[i] ELSE u[i]]

Init ==
    /\ bitvals = [n \in Node |-> NoRows]
    /\ diff = [n \in Node |-> NoRows]
    /\ orig = [n \in Node |-> {}]
    /\ memory = [n \in Node |-> {}]
    /\ edits = 0
    /\ rounds = 0
    /\ phase = "idle"
    /\ todo = {}
    /\ mixed = NoRows
    /\ rest = [n \in Node |-> {}]
    /\ busy = {}
    /\ quiet = 0
    /\ cleared = [n \in Node |-> {}]
    /\ full = {}

---------------------------------------------------------------------------
(* The storage.                                                            *)

Removed(d) == {r \in DOMAIN d : d[r] = Gone}

\* get_all_row_ids
all_row_ids(n) == (DOMAIN diff[n] \ Removed(diff[n])) \cup (DOMAIN bitvals[n] \ DOMAIN diff[n])

\* remove_row: the difference table afterwards
WithoutRow(master, d, r) ==
    IF r \in DOMAIN master THEN With(d, r, Gone) ELSE Without(d, {r})

\* Mutant of Mix: removals are not carried along.
MixWithoutRemovals(lhs, rhs) == Over(Without(lhs, Removed(lhs)), rhs)

\* mix: the difference gathered last wins
Mix(lhs, rhs) == Over(lhs, rhs)

---------------------------------------------------------------------------
(* The unlearner.                                                          *)

Cannot(mem) == mem \subseteq Sticky /\ Cardinality(mem) >= MaxSize
can_touch(mem, r) == r \in mem \/ ~Cannot(mem)

\* Mutant of Victims: the bound is not kept.
VictimsNone(mem, r) == {{}}

\* The ids touch may unlearn to make room for r: a set of sets.
Victims(mem, r) ==
    IF r \in mem \/ Cardinality(mem) < MaxSize THEN {{}}
    ELSE {{o} : o \in mem \ Sticky}

\* Touch r, which has been written into the master, or into the difference d
\* and the rows own, of node n; what is unlearned for it leaves the model by
\* remove_row.
Touch(n, r, master, d, own) ==
    \E old \in Victims(memory[n], r) :
        /\ memory' = [memory EXCEPT ![n] = (@ \ old) \cup {r}]
        /\ orig' = [orig EXCEPT ![n] = own \ old]
        /\ diff' = [diff EXCEPT ![n] =
                       IF old = {} THEN d ELSE WithoutRow(bitvals[n], d, CHOOSE o \in old : TRUE)]
        /\ bitvals' = [bitvals EXCEPT ![n] = master]
        /\ full' = IF old = {} THEN full ELSE full \cup {"unlearned"}

---------------------------------------------------------------------------
(* The recommender.                                                        *)

\* update_row
Update(n, r, v) ==
    /\ n \notin busy
    /\ edits < MaxEdits
    /\ can_touch(memory[n], r)
    /\ Touch(n, r, bitvals[n], With(diff[n], r, v), orig[n] \cup {r})
    /\ edits' = edits + 1
    /\ quiet' = 0
    /\ cleared' = [cleared EXCEPT ![n] = @ \ {r}]
    /\ UNCHANGED mixerVars

\* clear_row
ClearRow(n, r) ==
    /\ n \notin busy
    /\ edits < MaxEdits
    /\ orig' = [orig EXCEPT ![n] = @ \ {r}]
    /\ diff' = [diff EXCEPT ![n] = WithoutRow(bitvals[n], @, r)]
    /\ memory' = [memory EXCEPT ![n] = @ \ {r}]
    /\ edits' = edits + 1
    /\ quiet' = 0
    /\ cleared' = [cleared EXCEPT ![n] = @ \cup {r}]
    /\ UNCHANGED <<bitvals, mixerVars, full>>

---------------------------------------------------------------------------
(* MIX.                                                                    *)

StartRound ==
    /\ phase = "idle"
    /\ rounds < MaxRounds
    /\ rounds' = rounds + 1
    /\ phase' = "gather"
    /\ todo' = Node
    /\ mixed' = NoRows
    /\ quiet' = IF quiet < 2 THEN quiet + 1 ELSE 2
    /\ UNCHANGED <<modelVars, edits, rest, busy, cleared, full>>

\* get_diff
Gather(n) ==
    /\ phase = "gather"
    /\ n \in todo
    /\ todo' = todo \ {n}
    /\ mixed' = Mix(diff[n], mixed)
    /\ cleared' = [cleared EXCEPT ![n] = {}]
    /\ UNCHANGED <<modelVars, edits, rounds, phase, rest, busy, quiet, full>>

StartPut ==
    /\ phase = "gather"
    /\ todo = {}
    /\ phase' = "put"
    /\ todo' = Node
    /\ UNCHANGED <<modelVars, edits, rounds, mixed, rest, busy, quiet, cleared, full>>

\* put_diff begins
Put(n) ==
    /\ phase = "put"
    /\ n \in todo
    /\ todo' = todo \ {n}
    /\ busy' = busy \cup {n}
    /\ rest' = [rest EXCEPT ![n] = DOMAIN mixed]
    /\ UNCHANGED <<modelVars, edits, rounds, phase, mixed, quiet, cleared, full>>

\* A removal leaves the unlearner and the master.
PutRemoval(n, r) ==
    /\ memory' = [memory EXCEPT ![n] = @ \ {r}]
    /\ bitvals' = [bitvals EXCEPT ![n] = Without(@, {r})]
    /\ UNCHANGED <<diff, orig, full>>

\* A row the unlearner has no room for is dropped.
PutUntouchable(n, r) ==
    /\ full' = full \cup {"refused"}
    /\ UNCHANGED modelVars

\* Mutant of PutTouched: a row removed here meanwhile is not stored.
PutTouchedUnlessRemoved(n, r) ==
    Touch(n, r, IF r \in Removed(diff[n]) THEN bitvals[n] ELSE With(bitvals[n], r, mixed[r]),
          diff[n], orig[n])

\* A row that can be touched is touched and stored.
PutTouched(n, r) == Touch(n, r, With(bitvals[n], r, mixed[r]), diff[n], orig[n])

\* put_diff, one row of the mixed table
PutRow(n, r) ==
    /\ r \in rest[n]
    /\ rest' = [rest EXCEPT ![n] = @ \ {r}]
    /\ \/ /\ mixed[r] = Gone
          /\ PutRemoval(n, r)
       \/ /\ mixed[r] # Gone
          /\ can_touch(memory[n], r)
          /\ PutTouched(n, r)
       \/ /\ mixed[r] # Gone
          /\ ~can_touch(memory[n], r)
          /\ PutUntouchable(n, r)
    /\ UNCHANGED <<edits, rounds, phase, todo, mixed, busy, quiet, cleared>>

\* The rows removed since get_diff, which the next MIX has to propagate.
Kept(d) == {r \in Removed(d) : r \notin DOMAIN mixed \/ mixed[r] # Gone}

\* put_diff ends: the difference is cleared but for those rows
EndPut(n) ==
    /\ n \in busy
    /\ rest[n] = {}
    /\ busy' = busy \ {n}
    /\ diff' = [diff EXCEPT ![n] = [r \in Kept(@) |-> Gone]]
    /\ UNCHANGED <<bitvals, orig, memory, edits, rounds, phase, todo, mixed, rest, quiet, cleared, full>>

EndRound ==
    /\ phase = "put"
    /\ todo = {}
    /\ busy = {}
    /\ phase' = "idle"
    /\ mixed' = NoRows
    /\ UNCHANGED <<modelVars, edits, rounds, todo, rest, busy, quiet, cleared, full>>

Next ==
    \/ \E n \in Node, r \in RowId, v \in Value : Update(n, r, v)
    \/ \E n \in Node, r \in RowId : ClearRow(n, r)
    \/ StartRound
    \/ \E n \in Node : Gather(n)
    \/ StartPut
    \/ \E n \in Node : Put(n)
    \/ \E n \in Node, r \in RowId : PutRow(n, r)
    \/ \E n \in Node : EndPut(n)
    \/ EndRound

Spec == Init /\ [][Next]_vars

---------------------------------------------------------------------------
\* Type invariant.
TypeOK ==
    /\ \A n \in Node :
          /\ DOMAIN bitvals[n] \subseteq RowId /\ \A r \in DOMAIN bitvals[n] : bitvals[n][r] \in Value
          /\ DOMAIN diff[n] \subseteq RowId /\ \A r \in DOMAIN diff[n] : diff[n][r] \in Value \cup {Gone}
    /\ orig \in [Node -> SUBSET RowId]
    /\ memory \in [Node -> SUBSET RowId]
    /\ todo \subseteq Node /\ busy \subseteq Node
    /\ phase \in {"idle", "gather", "put"}
    /\ DOMAIN mixed \subseteq RowId

\* The model is bounded: every row a node shows is known to its unlearner,
\* which knows at most MaxSize, whatever mixes in from other nodes.
RowsAreTracked ==
    \A n \in Node :
        /\ Cardinality(memory[n]) <= MaxSize
        /\ n \notin busy => all_row_ids(n) \subseteq memory[n]

RowsAreServed == TypeOK /\ RowsAreTracked

\* Between rounds all masters are equal: put_diff makes the same master of
\* the same master, however the unlearners of the nodes choose, unless one of
\* them had no room for a row at all.
MastersAgree ==
    phase = "idle" /\ "refused" \notin full => \A n, m \in Node : bitvals[n] = bitvals[m]

\* After two rounds during which nobody edits, all nodes show the same rows,
\* unless an unlearner was full: which row it unlearns is a node's own choice.
\* One round is not enough: a removal that lost against another node's update
\* in the first is kept and wins in the second.
QuietRoundsConverge ==
    phase = "idle" /\ quiet = 2 /\ full = {} =>
        \A n, m \in Node : all_row_ids(n) = all_row_ids(m)

\* A row cleared between a node's get_diff and put_diff stays cleared there.
ClearedStaysCleared ==
    [][\A n \in Node : EndPut(n) => all_row_ids(n)' \cap cleared[n] = {}]_vars

---------------------------------------------------------------------------
(***************************************************************************)
(* storage::lsh_index_storage under recommender::euclid_lsh.  Its tables   *)
(* of rows are those of bit_index_storage, above, a row's value            *)
(* being the set of its hash values and an empty entry marking a removal;  *)
(* beside them it keeps, for the master and for the difference, the buckets*)
(* that list the ids of the rows with a hash value.  Norms, bits and the   *)
(* key manager, whose ids are never taken back, are left out.              *)
(***************************************************************************)
VARIABLES lsh_table, \* per node and hash value: how often a row is in the bucket
          lsh_table_diff \* per node: pairs of a hash value and a row

bucketVars == <<lsh_table, lsh_table_diff>>
lshVars == <<vars, bucketVars>>

Hash == UNION Value
In(h, r) == {<<x, r>> : x \in h}

LshInit ==
    /\ Init
    /\ lsh_table = [n \in Node |-> [b \in Hash \X RowId |-> 0]]
    /\ lsh_table_diff = [n \in Node |-> {}]

\* get_lsh_entry: the difference before the master; no entry has no hashes
get_lsh_entry(n, r) ==
    IF r \in DOMAIN diff[n] THEN diff[n][r]
    ELSE IF r \in DOMAIN bitvals[n] THEN bitvals[n][r] ELSE {}

\* put_empty_entry
put_empty_entry(t, h, r) == t \ In(h, r)

\* The buckets of the difference after the rows the unlearner's callback
\* removed have left them: those of the master by the master's hashes.
Unlearned(n, t) ==
    LET old == {o \in memory[n] \ memory'[n] : o \in DOMAIN bitvals[n]}
    IN  t \ UNION {In(bitvals[n][o], o) : o \in old}

\* Mutant of set_row: a row that has hashes in the difference gets no others.
SetRowOnce(n, r, h) ==
    IF \E b \in lsh_table_diff[n] : b[2] = r THEN lsh_table_diff[n]
    ELSE lsh_table_diff[n] \cup In(h, r)

\* set_row: the row leaves the buckets of its old hashes and enters the new
set_row(n, r, h) == put_empty_entry(lsh_table_diff[n], get_lsh_entry(n, r), r) \cup In(h, r)

\* euclid_lsh::update_row
LshUpdate(n, r, h) ==
    /\ Update(n, r, h)
    /\ lsh_table_diff' = [lsh_table_diff EXCEPT ![n] = Unlearned(n, set_row(n, r, h))]
    /\ UNCHANGED lsh_table

\* euclid_lsh::clear_row, remove_row: a row not mixed yet stays in its buckets
LshClearRow(n, r) ==
    /\ ClearRow(n, r)
    /\ lsh_table_diff' =
           [lsh_table_diff EXCEPT ![n] =
               IF r \in DOMAIN bitvals[n] THEN put_empty_entry(@, bitvals[n][r], r) ELSE @]
    /\ UNCHANGED lsh_table

\* remove_model_row: one occurrence leaves each bucket of the entry
remove_model_row(n, r) ==
    [b \in Hash \X RowId |->
        IF b \in In(get_lsh_entry(n, r), r) /\ lsh_table[n][b] > 0
        THEN lsh_table[n][b] - 1 ELSE lsh_table[n][b]]

\* Mutant of Remixed: the row leaves its buckets after it entered the new.
RemixedLate(n, r) ==
    [b \in Hash \X RowId |-> IF b \in In(get_lsh_entry(n, r), r) THEN 0
                             ELSE lsh_table[n][b] + (IF b \in In(mixed[r], r) THEN 1 ELSE 0)]

\* remove_model_row, then set_mixed_row
Remixed(n, r) ==
    LET t == remove_model_row(n, r)
    IN  [b \in Hash \X RowId |-> IF b \in In(mixed[r], r) THEN t[b] + 1 ELSE t[b]]

\* put_diff, one row
LshPutRow(n, r) ==
    /\ PutRow(n, r)
    /\ lsh_table' = [lsh_table EXCEPT ![n] =
                        IF mixed[r] = Gone THEN remove_model_row(n, r)
                        ELSE IF can_touch(memory[n], r) THEN Remixed(n, r) ELSE @]
    /\ lsh_table_diff' = [lsh_table_diff EXCEPT ![n] =
                             IF mixed[r] = Gone THEN @ ELSE Unlearned(n, @)]

\* put_diff ends: the buckets of the difference are cleared
LshEndPut(n) ==
    /\ EndPut(n)
    /\ lsh_table_diff' = [lsh_table_diff EXCEPT ![n] = {}]
    /\ UNCHANGED lsh_table

LshMixer ==
    /\ StartRound \/ StartPut \/ EndRound \/ \E n \in Node : Gather(n) \/ Put(n)
    /\ UNCHANGED bucketVars

LshNext ==
    \/ \E n \in Node, r \in RowId, h \in Value : LshUpdate(n, r, h)
    \/ \E n \in Node, r \in RowId : LshClearRow(n, r) \/ LshPutRow(n, r)
    \/ \E n \in Node : LshEndPut(n)
    \/ LshMixer

LshSpec == LshInit /\ [][LshNext]_lshVars

---------------------------------------------------------------------------
\* The candidates of a query that hashes to h
retrieve_hit_rows(n, h) ==
    {r \in RowId : \E x \in h : <<x, r>> \in lsh_table_diff[n] \/ lsh_table[n][<<x, r>>] > 0}

\* Type invariant.
LshTypeOK ==
    /\ TypeOK
    /\ lsh_table \in [Node -> [Hash \X RowId -> Nat]]
    /\ \A n \in Node : lsh_table_diff[n] \subseteq Hash \X RowId

\* Every row that is listed is found in the bucket of each of its hashes,
\* through updates, removals, unlearning and puts that find the row changed
\* meanwhile: the buckets are never mixed but follow the tables that are.
RowsFindable ==
    \A n \in Node : \A r \in all_row_ids(n), x \in Hash :
        x \in get_lsh_entry(n, r) => r \in retrieve_hit_rows(n, {x})
=============================================================================
