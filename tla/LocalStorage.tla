---------------------------- MODULE LocalStorage ----------------------------
(***************************************************************************)
(* storage::local_storage: one table of weights and the ids of its classes.*)
(* It is what every storage of weights promises, as long as nothing is     *)
(* mixed; LocalStorageMixture is shown to implement it.                    *)
(*                                                                         *)
(* Every member function holds the lock for all it does and is one action. *)
(*                                                                         *)
(* What both storages are made of comes first: storage::id_features3_t, a  *)
(* table of rows by feature, each a function of class ids to a triple of   *)
(* numbers (val3_t), and common::key_manager, which gives ids to class     *)
(* names and never gives one again.                                        *)
(***************************************************************************)
EXTENDS Integers, Functions, SequencesExt, TLC

CONSTANTS Feature, Label,
          Weight,  \* the triples that are set
          Vector,  \* the feature vectors of bulk_update
          Step     \* its step widths, and the steps of update

VARIABLES tbl,   \* tbl_
          km,    \* class2id_
          saved  \* the model packed last

vars == <<tbl, km, saved>>

---------------------------------------------------------------------------
Zero == <<0, 0, 0>>
Plus(a, b) == [i \in 1..3 |-> a[i] + b[i]]
Minus(a, b) == [i \in 1..3 |-> a[i] - b[i]]

\* set, set2 and set3 write the first one, two or three of the numbers.
Overwritten(old, w, n) == [i \in 1..3 |-> IF i <= n THEN w[i] ELSE old[i]]

NoRows == <<>>
Row(t, f) == IF f \in DOMAIN t THEN t[f] ELSE <<>>
Cell(t, f, c) == IF c \in DOMAIN Row(t, f) THEN t[f][c] ELSE Zero
WithCell(t, f, c, w) == (f :> ((c :> w) @@ Row(t, f))) @@ t

\* What update adds to a row: v for one class, and -v for the other if any.
Added(t, f, c, v) == WithCell(t, f, c, Plus(Cell(t, f, c), <<v, 0, 0>>))
Updated(t, f, inc, dec, v) ==
    IF dec = {} THEN Added(t, f, inc, v)
    ELSE Added(Added(t, f, inc, v), f, CHOOSE c \in dec : TRUE, -v)

\* bulk_update: the features in some order; they share no row.
BulkUpdated(t, sfv, step, inc, dec) ==
    FoldLeft(LAMBDA u, f : Updated(u, f, inc, dec, sfv[f] * step), t, SetToSeq(DOMAIN sfv))

\* Erasing a class from every row, and the rows that are empty then.
WithoutClass(t, c) ==
    LET left(f) == Restrict(t[f], DOMAIN t[f] \ {c})
    IN  [f \in {g \in DOMAIN t : DOMAIN left(g) # {}} |-> left(f)]

---------------------------------------------------------------------------
NoKeys == [ids |-> <<>>, next |-> 0]

append_key(k, key) == [ids |-> (key :> k.next) @@ k.ids, next |-> k.next + 1]
get_id(k, key) == IF key \in DOMAIN k.ids THEN k ELSE append_key(k, key)
delete_key(k, key) == [k EXCEPT !.ids = Restrict(@, DOMAIN @ \ {key})]

\* get_id of the classes that update and bulk_update name, in their order.
Manager(k, inc, dec) == FoldLeft(get_id, get_id(k, inc), SetToSeq(dec))
IdOf(k, key) == k.ids[key]
IdsOf(k, keys) == {k.ids[l] : l \in keys}

\* get_key, which answers "" for an id without a name.
get_key(k, id) ==
    IF id \in Range(k.ids) THEN CHOOSE l \in DOMAIN k.ids : k.ids[l] = id ELSE ""

\* The row of a feature as get3 gives it, and the score inp gives each label.
get3(t, k, f) == {<<get_key(k, c), t[f][c]>> : c \in DOMAIN Row(t, f)}
inp(t, k, sfv) ==
    [l \in DOMAIN k.ids |->
        FoldFunctionOnSet(LAMBDA x, y : x + y, 0,
                          [f \in DOMAIN sfv |-> Cell(t, f, k.ids[l])[1] * sfv[f]], DOMAIN sfv)]

---------------------------------------------------------------------------

Init == tbl = NoRows /\ km = NoKeys /\ saved = <<tbl, km>>

Set(f, l, w, n) ==
    /\ km' = get_id(km, l)
    /\ LET c == IdOf(km', l)
       IN  tbl' = WithCell(tbl, f, c, Overwritten(Cell(tbl, f, c), w, n))
    /\ UNCHANGED saved

Update(f, inc, dec, v) ==
    /\ km' = Manager(km, inc, {dec})
    /\ tbl' = Updated(tbl, f, IdOf(km', inc), {IdOf(km', dec)}, v)
    /\ UNCHANGED saved

BulkUpdate(sfv, step, inc, dec) ==
    /\ km' = Manager(km, inc, dec)
    /\ tbl' = BulkUpdated(tbl, sfv, step, IdOf(km', inc), IdsOf(km', dec))
    /\ UNCHANGED saved

\* register_label and set_label; the latter says whether the label was new.
RegisterLabel(l) == km' = get_id(km, l) /\ UNCHANGED <<tbl, saved>>

DeleteLabel(l) ==
    /\ l \in DOMAIN km.ids
    /\ tbl' = WithoutClass(tbl, IdOf(km, l))
    /\ km' = delete_key(km, l)
    /\ UNCHANGED saved

Clear == tbl' = NoRows /\ km' = NoKeys /\ UNCHANGED saved

Pack == saved' = <<tbl, km>> /\ UNCHANGED <<tbl, km>>

Unpack == tbl' = saved[1] /\ km' = saved[2] /\ UNCHANGED saved

Next ==
    \/ \E f \in Feature, l \in Label, w \in Weight, n \in 1..3 : Set(f, l, w, n)
    \/ \E f \in Feature, inc, dec \in Label, v \in Step : Update(f, inc, dec, v)
    \/ \E sfv \in Vector, step \in Step, inc \in Label, dec \in SUBSET Label :
          Cardinality(dec) <= 1 /\ BulkUpdate(sfv, step, inc, dec)
    \/ \E l \in Label : RegisterLabel(l) \/ DeleteLabel(l)
    \/ Clear \/ Pack \/ Unpack

Spec == Init /\ [][Next]_vars
=============================================================================
