------------------------ MODULE LocalStorageMixture ------------------------
(***************************************************************************)
(* storage::local_storage_mixture behind a mixer that knows one node: the  *)
(* weights of the last MIX, the difference made since, and what each call  *)
(* does to both.  What it answers is the sum of the two, and by that it    *)
(* implements LocalStorage: a MIX of one node that nothing happens beside  *)
(* changes no answer.  What several nodes agree on is LinearMix's.         *)
(***************************************************************************)
EXTENDS Integers, Functions, SequencesExt, TLC

CONSTANTS Feature, Label, Weight, Vector, Step,
          MaxCalls, \* bound on the calls
          MaxVersion \* bound: no difference is gathered at this version

VARIABLES tbl,       \* tbl_
          tbl_diff,  \* tbl_diff_
          km,        \* class2id_
          version,   \* model_version_
          saved,     \* the model packed last
          diff,      \* the difference gathered by a mixer and not yet put, or <<>>
          since,     \* history: what was called since, "nothing", "training" or "more"
          given,     \* history: what was answered when it was gathered
          calls

T == INSTANCE LocalStorage  \* for what its tables and its ids are made of

model == <<tbl, tbl_diff, km, version>>
vars == <<tbl, tbl_diff, km, version, saved, diff, since, given, calls>>

Init ==
    /\ tbl = T!NoRows /\ tbl_diff = T!NoRows /\ km = T!NoKeys /\ version = 0
    /\ saved = model /\ diff = <<>> /\ since = "nothing" /\ given = <<>> /\ calls = 0

\* Mutant of get_internal: a row of the master hides the difference.
MasterFirst(t, d) == [f \in DOMAIN t \cup DOMAIN d |-> IF f \in DOMAIN t THEN t[f] ELSE d[f]]

\* get_internal: what is known of every feature.
get_internal(t, d) ==
    [f \in DOMAIN t \cup DOMAIN d |->
        [c \in DOMAIN T!Row(t, f) \cup DOMAIN T!Row(d, f) |-> T!Plus(T!Cell(t, f, c), T!Cell(d, f, c))]]

Served == get_internal(tbl, tbl_diff)

\* The rows that get3 answers, with get and get2 as their parts, and the scores.
Rows == [f \in Feature \cup UNION {DOMAIN sfv : sfv \in Vector} |-> T!get3(Served, km, f)]
Scores == [sfv \in Vector |-> T!inp(Served, km, sfv)]

---------------------------------------------------------------------------
Training == since' = IF since = "nothing" THEN "training" ELSE since
More == since' = "more"

\* set, set2 and set3 ask the master, which gets a row and a zero by that.
Set(f, l, w, n) ==
    /\ km' = T!get_id(km, l)
    /\ LET c == T!IdOf(km', l)
           old == T!Cell(tbl, f, c)
       IN  /\ tbl' = T!WithCell(tbl, f, c, old)
           /\ tbl_diff' = T!WithCell(tbl_diff, f, c,
                                    T!Overwritten(T!Cell(tbl_diff, f, c), T!Minus(w, old), n))
    /\ Training
    /\ UNCHANGED <<version, saved>>

Update(f, inc, dec, v) ==
    /\ km' = T!Manager(km, inc, {dec})
    /\ tbl_diff' = T!Updated(tbl_diff, f, T!IdOf(km', inc), {T!IdOf(km', dec)}, v)
    /\ Training
    /\ UNCHANGED <<tbl, version, saved>>

BulkUpdate(sfv, step, inc, dec) ==
    /\ km' = T!Manager(km, inc, dec)
    /\ tbl_diff' = T!BulkUpdated(tbl_diff, sfv, step, T!IdOf(km', inc), T!IdsOf(km', dec))
    /\ Training
    /\ UNCHANGED <<tbl, version, saved>>

RegisterLabel(l) ==
    /\ l \notin DOMAIN km.ids
    /\ km' = T!get_id(km, l)
    /\ Training
    /\ UNCHANGED <<tbl, tbl_diff, version, saved>>

DeleteLabel(l) ==
    /\ l \in DOMAIN km.ids
    /\ tbl' = T!WithoutClass(tbl, T!IdOf(km, l))
    /\ tbl_diff' = T!WithoutClass(tbl_diff, T!IdOf(km, l))
    /\ km' = T!delete_key(km, l)
    /\ More
    /\ UNCHANGED <<version, saved>>

\* The version stays.
Clear ==
    /\ tbl' = T!NoRows /\ tbl_diff' = T!NoRows /\ km' = T!NoKeys
    /\ More
    /\ UNCHANGED <<version, saved>>

Pack ==
    /\ saved' = model
    /\ UNCHANGED <<tbl, tbl_diff, km, version, since>>

Unpack ==
    /\ tbl' = saved[1] /\ tbl_diff' = saved[2] /\ km' = saved[3] /\ version' = saved[4]
    /\ More
    /\ UNCHANGED saved

Call ==
    /\ calls < MaxCalls
    /\ \/ \E f \in Feature, l \in Label, w \in Weight, n \in 1..3 : Set(f, l, w, n)
       \/ \E f \in Feature, inc, dec \in Label, v \in Step : Update(f, inc, dec, v)
       \/ \E sfv \in Vector, step \in Step, inc \in Label, dec \in SUBSET Label :
             Cardinality(dec) <= 1 /\ BulkUpdate(sfv, step, inc, dec)
       \/ \E l \in Label : RegisterLabel(l) \/ DeleteLabel(l)
       \/ Clear \/ Pack \/ Unpack
    /\ calls' = calls + 1
    /\ UNCHANGED <<diff, given>>

\* get_diff: names for ids, and the version.
GetDiff ==
    /\ diff = <<>> /\ version < MaxVersion
    /\ diff' = <<[f \in DOMAIN tbl_diff |-> T!get3(tbl_diff, km, f)], version>>
    /\ since' = "nothing"
    /\ given' = <<Rows, Scores>>
    /\ UNCHANGED <<tbl, tbl_diff, km, version, saved, calls>>

\* The rows of an average added to the master, ids for names.
Increased(t, manager, average) ==
    LET f(u, x) == LET c == manager.ids[x[2]] IN T!WithCell(u, x[1], c, T!Plus(T!Cell(u, x[1], c), x[3]))
        cells == UNION {{<<g, x[1], x[2]>> : x \in average[g]} : g \in DOMAIN average}
    IN  FoldLeft(f, t, SetToSeq(cells))

\* set_average_and_clear_diff; the average of one difference is that one.
PutDiff ==
    /\ diff # <<>>
    /\ diff' = <<>>
    /\ IF diff[2] = version
       THEN LET named == UNION {{x[1] : x \in diff[1][f]} : f \in DOMAIN diff[1]}
            IN  /\ km' = FoldLeft(T!get_id, km, SetToSeq(named))
                /\ tbl' = Increased(tbl, km', diff[1])
                /\ tbl_diff' = T!NoRows
                /\ version' = version + 1
       ELSE UNCHANGED <<tbl, tbl_diff, km, version>>
    /\ UNCHANGED <<saved, since, given, calls>>

Next == Call \/ GetDiff \/ PutDiff
Spec == Init /\ [][Next]_vars

---------------------------------------------------------------------------
SavedServed == <<get_internal(saved[1], saved[2]), saved[3]>>
Local == INSTANCE LocalStorage WITH tbl <- Served, saved <- SavedServed

\* A put beside which the node went on learning takes back what was learned
\* since the difference was gathered, and nothing else: every weight is what it
\* was then, the ones first heard of since are zero.
TakesBack ==
    /\ diff # <<>> /\ diff' = <<>> /\ since = "training"
    /\ \A f \in DOMAIN Rows :
          {x \in Rows'[f] : x[2] # T!Zero} = {x \in given[1][f] : x[2] # T!Zero}
    /\ \A sfv \in Vector : \A l \in DOMAIN km.ids :
          LET old == given[2][sfv] IN Scores'[sfv][l] = IF l \in DOMAIN old THEN old[l] ELSE 0

\* Whoever deletes labels, clears or loads a model between a get_diff and its
\* put_diff gets what was gathered added to whatever there is.
AddsToOther == diff # <<>> /\ diff' = <<>> /\ since = "more"

\* A storage with a difference answers like one without: whatever is set,
\* updated, deleted, cleared or loaded, and when its difference is mixed with
\* none.
Answers == Local!Next \/ TakesBack \/ AddsToOther \/ UNCHANGED Local!vars
Implements == Local!Init /\ [][Answers]_vars
=============================================================================
