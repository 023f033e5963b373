-------------------------- MODULE InvertedIndexMix --------------------------
(***************************************************************************)
(* Nodes running recommender::inverted_index over                          *)
(* storage::inverted_index_storage with an unlearner, merged by linear     *)
(* MIX.  A column of the storage is a row of the recommender.  Cells and   *)
(* squared norms of columns are kept twice, as masters and as differences, *)
(* and must tell the same story.                                           *)
(*                                                                         *)
(* Column ids of the key manager are the names they stand for; values are  *)
(* integers, so that squared norms are exact.  No id is sticky.            *)
(***************************************************************************)
EXTENDS Integers, FiniteSets, Functions

CONSTANTS Node,
          Feature,   \* rows of the storage
          Column,    \* columns of the storage, rows of the recommender
          Value,     \* values of a cell
          MaxSize,   \* the unlearner's bound
          MaxRounds, \* bound on the rounds
          MaxUpdates, MaxClears \* bounds on the calls of update_row and clear_row

InvertedBounds ==
    /\ Value \subseteq Int \ {0}
    /\ MaxSize \in Nat \ {0} /\ MaxRounds \in Nat /\ MaxUpdates \in Nat /\ MaxClears \in Nat

VARIABLES unlearner, \* whether there is one, fixed
          store,   \* per node: cells inv, diff and norms norm, ndiff
          orig,    \* the cells of each node's orig_
          memory,  \* the ids in memory of each node's unlearner
          edits,   \* how many rows were updated and how many cleared
          rounds,  \* how many rounds began
          todo,    \* nodes still to be asked or put to
          phase,   \* "idle", "gather" or "put"
          mixed,   \* the mixed difference: cells and norms
          astray,  \* history: columns that MIX may get wrong, see Strays
          behind   \* history: nodes whose put unlearned a row or was lost

roundVars == <<rounds, todo, phase, mixed>>
vars == <<unlearner, store, orig, memory, edits, roundVars, astray, behind>>

Empty == [x \in {} |-> 0]
At(f, x) == IF x \in DOMAIN f THEN f[x] ELSE 0
Assign(f, x, v) == [y \in DOMAIN f \cup {x} |-> IF y = x THEN v ELSE f[y]]
Minus(f, xs) == Restrict(f, DOMAIN f \ xs)
Upon(f, g) == [x \in DOMAIN f \cup DOMAIN g |-> IF x \in DOMAIN f THEN f[x] ELSE g[x]]
Plus(f, g) == [x \in DOMAIN f \cup DOMAIN g |-> At(f, x) + At(g, x)]

Init ==
    /\ unlearner \in BOOLEAN
    /\ store = [n \in Node |-> [inv |-> Empty, diff |-> Empty, norm |-> Empty, ndiff |-> Empty]]
    /\ orig = [n \in Node |-> Empty]
    /\ memory = [n \in Node |-> {}]
    /\ edits = [updates |-> 0, clears |-> 0]
    /\ rounds = 0
    /\ todo = {}
    /\ phase = "idle"
    /\ mixed = [inv |-> Empty, norm |-> Empty]
    /\ astray = {}
    /\ behind = {}

---------------------------------------------------------------------------
(* The storage: a cell is a pair of a feature and a column.                *)

get(s, cell) == IF cell \in DOMAIN s.diff THEN s.diff[cell] ELSE At(s.inv, cell)

\* calc_column_squared_l2norm
SquaredNorm(s, c) == At(s.ndiff, c) + At(s.norm, c)

\* set: an entry of the norms' difference that becomes zero is erased
set(s, cell, v) ==
    LET c == cell[2]
        nd == At(s.ndiff, c) - get(s, cell) * get(s, cell) + v * v
    IN  [s EXCEPT !.diff = Assign(@, cell, v),
                  !.ndiff = IF nd = 0 THEN Minus(@, {c}) ELSE Assign(@, c, nd)]

\* remove: the difference keeps a zero for a cell the master has
remove(s, cell) ==
    LET z == set(s, cell, 0)
    IN  IF cell \in DOMAIN s.inv THEN z ELSE [z EXCEPT !.diff = Minus(@, {cell})]

mark_column_removed(s, c) ==
    [s EXCEPT !.ndiff = IF c \in DOMAIN s.norm THEN Assign(@, c, -s.norm[c]) ELSE Minus(@, {c})]

get_all_column_ids(s) ==
    DOMAIN s.norm \cup {c \in DOMAIN s.ndiff \ DOMAIN s.norm : s.ndiff[c] > 0}

\* add_inp_scores: the master's cells count where the difference has none
InpScore(s, f, c) ==
    At(s.diff, <<f, c>>) + (IF <<f, c>> \in DOMAIN s.diff THEN 0 ELSE At(s.inv, <<f, c>>))

\* calc_scores of a query on one feature: the columns with a score and a norm
Hits(s, f) == {c \in Column : InpScore(s, f, c) # 0 /\ SquaredNorm(s, c) # 0}

---------------------------------------------------------------------------
(* The recommender.                                                        *)

ColumnsOf(cells) == {cell[2] : cell \in DOMAIN cells}
OrigCells(o, c) == {cell \in DOMAIN o : cell[2] = c}

\* remove_row: every cell that orig_ has, then the norm
remove_row(s, o, c) ==
    mark_column_removed(FoldFunction(LAMBDA cell, t : remove(t, cell), s,
                                     [x \in OrigCells(o, c) |-> x]), c)

\* The columns a difference says something of
Says(cells, norms) == ColumnsOf(cells) \cup DOMAIN norms

SquaresOf(s, c) ==
    FoldFunctionOnSet(LAMBDA f, t : t + get(s, <<f, c>>) * get(s, <<f, c>>), 0,
                      [f \in Feature |-> f], Feature)

\* Whether an update or a removal of column c at n, which makes s of n's storage,
\* leaves a norm or a removal that MIX may get wrong: another node has written the
\* column in the same round, so that the cells of one win and both norms are
\* added; n is behind; a row is removed between n's difference and the put that
\* clears the removal; or cells stay that the difference does not speak of as of
\* a row there is, which are those of a row removed where orig_ does not have it
\* and, with an unlearner, of a row with no positive new value.
Strays(n, c, s, removed) ==
    \/ \E m \in Node \ {n} : c \in Says(store[m].diff, store[m].ndiff)
    \/ n \in behind
    \/ removed /\ (n \in todo <=> phase = "put") /\ phase # "idle"
    \/ /\ SquaresOf(s, c) # 0
       /\ removed \/ (unlearner /\ \A f \in Feature : At(s.diff, <<f, c>>) <= 0)

\* update_row: the row d is set feature by feature, then touched; the row
\* unlearned for it leaves by remove_row.
UpdateRow(n, c, d) ==
    /\ edits.updates < MaxUpdates
    /\ LET cells == [cell \in (DOMAIN d) \X {c} |-> d[cell[1]]]
           o == Upon(cells, orig[n])
           s == FoldFunctionOnSet(LAMBDA cell, t : set(t, cell, cells[cell]), store[n],
                                  [x \in DOMAIN cells |-> x], DOMAIN cells)
           room == ~unlearner \/ c \in memory[n] \/ Cardinality(memory[n]) < MaxSize
       IN  \E old \in IF room THEN {{}} ELSE {{x} : x \in memory[n]} :
              LET left == IF room THEN s ELSE remove_row(s, o, CHOOSE x \in old : TRUE) IN
              /\ memory' = [memory EXCEPT ![n] = IF unlearner THEN (@ \ old) \cup {c} ELSE @]
              /\ orig' = [orig EXCEPT ![n] = Minus(o, UNION {OrigCells(o, x) : x \in old})]
              /\ store' = [store EXCEPT ![n] = left]
              /\ astray' = astray \cup {x \in {c} : Strays(n, x, left, FALSE)}
                                  \cup {x \in old : Strays(n, x, left, TRUE)}
    /\ edits' = [edits EXCEPT !.updates = @ + 1]
    /\ UNCHANGED <<unlearner, roundVars, behind>>

\* clear_row
ClearRow(n, c) ==
    /\ edits.clears < MaxClears
    /\ store' = [store EXCEPT ![n] = remove_row(@, orig[n], c)]
    /\ orig' = [orig EXCEPT ![n] = Minus(@, OrigCells(@, c))]
    /\ memory' = [memory EXCEPT ![n] = @ \ {c}]
    /\ edits' = [edits EXCEPT !.clears = @ + 1]
    /\ astray' = astray \cup {x \in {c} : Strays(n, x, store'[n], TRUE)}
    /\ UNCHANGED <<unlearner, roundVars, behind>>

---------------------------------------------------------------------------
(* MIX.                                                                    *)

\* get_diff and mix: cells of the node asked last win, norms are added up
Mix(s, m) == [inv |-> Upon(s.diff, m.inv), norm |-> Plus(s.ndiff, m.norm)]

StartRound ==
    /\ phase = "idle"
    /\ rounds < MaxRounds
    /\ rounds' = rounds + 1
    /\ phase' = "gather"
    /\ todo' = Node
    /\ mixed' = [inv |-> Empty, norm |-> Empty]
    /\ UNCHANGED <<unlearner, store, orig, memory, edits, astray, behind>>

Gather(n) ==
    /\ phase = "gather"
    /\ n \in todo
    /\ todo' = IF todo = {n} THEN Node ELSE todo \ {n}
    /\ phase' = IF todo = {n} THEN "put" ELSE phase
    /\ mixed' = Mix(store[n], mixed)
    /\ UNCHANGED <<unlearner, store, orig, memory, edits, rounds, astray, behind>>

\* The value update_list gives a column: whether any of its cells is positive
Updated(m, c) == \E cell \in DOMAIN m.inv : cell[2] = c /\ 0 < m.inv[cell]

\* What the unlearner may hold, and what it has unlearned, once it touched or
\* removed the columns cs of update_list in some order.  Without it nothing is.
Learned(mem, m, cs) ==
    LET Step(c, x) ==
            IF ~Updated(m, c) THEN {[x EXCEPT !.mem = @ \ {c}]}
            ELSE IF c \in x.mem \/ Cardinality(x.mem) < MaxSize
                 THEN {[x EXCEPT !.mem = @ \cup {c}]}
                 ELSE {[mem |-> (x.mem \ {o}) \cup {c}, gone |-> x.gone \cup {o}] : o \in x.mem}
        After[S \in SUBSET cs] ==
            IF S = {} THEN {[mem |-> mem, gone |-> {}]}
            ELSE UNION {UNION {Step(c, x) : x \in After[S \ {c}]} : c \in S}
    IN  IF unlearner THEN After[cs] ELSE {[mem |-> mem, gone |-> {}]}

\* Mutant of PutCells: zeros are stored.
PutCellsZeros(s, m, mem) == Upon([cell \in {x \in DOMAIN m.inv : x[2] \in mem} |-> m.inv[cell]], s.inv)

\* The cells of put_diff: zeros erase, columns outside the unlearner are dropped
PutCells(s, m, mem) ==
    LET erased == {cell \in DOMAIN m.inv : m.inv[cell] = 0}
        kept == {cell \in DOMAIN m.inv \ erased : unlearner => cell[2] \in mem}
    IN  Upon(Restrict(m.inv, kept), Minus(s.inv, erased))

\* The norms of put_diff: those of columns updated and still in memory are
\* added to and erased when not positive, the others are erased
PutNorms(s, m, mem) ==
    LET live == {c \in DOMAIN m.norm : unlearner => Updated(m, c) /\ c \in mem}
        sum == [c \in DOMAIN s.norm \cup live |->
                   At(s.norm, c) + (IF c \in live THEN m.norm[c] ELSE 0)]
    IN  Minus(sum, (DOMAIN m.norm \ live) \cup {c \in live : sum[c] <= 0})

\* put_diff; what the unlearner's callback writes into the differences is
\* cleared with them
Put(n) ==
    /\ phase = "put"
    /\ n \in todo
    /\ \E x \in Learned(memory[n], mixed, ColumnsOf(mixed.inv)) :
          /\ memory' = [memory EXCEPT ![n] = x.mem]
          /\ orig' = [orig EXCEPT ![n] = Minus(@, UNION {OrigCells(@, c) : c \in x.gone})]
          /\ store' = [store EXCEPT ![n] =
                          [inv |-> PutCells(@, mixed, x.mem), diff |-> Empty,
                           norm |-> PutNorms(@, mixed, x.mem), ndiff |-> Empty]]
          /\ behind' = IF x.gone = {} THEN behind ELSE behind \cup {n}
    /\ todo' = todo \ {n}
    /\ phase' = IF todo = {n} THEN "idle" ELSE phase
    /\ mixed' = IF todo = {n} THEN [inv |-> Empty, norm |-> Empty] ELSE mixed
    /\ UNCHANGED <<unlearner, edits, rounds, astray>>

\* The difference does not reach a node, which gives its own again in the next
\* round and lacks the others'.
LosePut(n) ==
    /\ phase = "put"
    /\ n \in todo
    /\ todo' = todo \ {n}
    /\ phase' = IF todo = {n} THEN "idle" ELSE phase
    /\ mixed' = IF todo = {n} THEN [inv |-> Empty, norm |-> Empty] ELSE mixed
    /\ behind' = behind \cup {n}
    /\ astray' = astray \cup Says(store[n].diff, store[n].ndiff)
    /\ UNCHANGED <<unlearner, store, orig, memory, edits, rounds>>

Next ==
    \/ \E n \in Node, c \in Column, d \in UNION {[F -> Value] : F \in SUBSET Feature \ {{}}} :
          UpdateRow(n, c, d)
    \/ \E n \in Node, c \in Column : ClearRow(n, c)
    \/ StartRound
    \/ \E n \in Node : Gather(n)
    \/ \E n \in Node : Put(n) \/ LosePut(n)

Spec == Init /\ [][Next]_vars

---------------------------------------------------------------------------
\* Type invariant.
TypeOK ==
    /\ \A n \in Node :
          /\ DOMAIN store[n].inv \subseteq Feature \X Column
          /\ DOMAIN store[n].diff \subseteq Feature \X Column
          /\ DOMAIN store[n].norm \subseteq Column /\ \A c \in DOMAIN store[n].norm : store[n].norm[c] > 0
          /\ DOMAIN store[n].ndiff \subseteq Column
          /\ DOMAIN orig[n] \subseteq Feature \X Column
          /\ memory[n] \subseteq Column /\ Cardinality(memory[n]) <= MaxSize
    /\ todo \subseteq Node
    /\ phase \in {"idle", "gather", "put"}

\* The columns of a node that no such case concerns
Kept(n) == IF n \in behind THEN {} ELSE Column \ astray

\* The norm a similarity is divided by is that of the row as get reads it, at
\* every node, through updates and removals of any node and MIX.
NormsMatchCells ==
    \A n \in Node : \A c \in Kept(n) : SquaredNorm(store[n], c) = SquaresOf(store[n], c)

\* A row that a query finds is listed by get_all_row_ids, and known to the
\* unlearner that bounds the model.
HitsAreKnown ==
    \A n \in Node, f \in Feature : \A c \in Hits(store[n], f) \cap Kept(n) :
        c \in get_all_column_ids(store[n]) /\ (unlearner => c \in memory[n])

\* Between rounds nodes agree on what was mixed, of rows that several nodes wrote
\* as well: on the cells that won, and on a norm that may be wrong.
StoragesAgree ==
    phase = "idle" =>
        \A n, m \in Node \ behind : store[n].inv = store[m].inv /\ store[n].norm = store[m].norm
=============================================================================
