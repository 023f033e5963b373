----------------------------- MODULE LinearMix -----------------------------
(***************************************************************************)
(* The linear MIX of a set of Jubatus nodes.                               *)
(*                                                                         *)
(* Every node keeps a storage::local_storage_mixture: the master weights   *)
(* tbl_ agreed on by the last MIX, the local difference tbl_diff_ trained  *)
(* since, the registered labels (class2id_) and the model version.  A      *)
(* mixer runs rounds: it gathers get_diff() of every node, folds them      *)
(* pairwise with linear_function_mixer::mix, and puts the result to every  *)
(* node.  A node takes a put only when the version it expects is its own.  *)
(*                                                                         *)
(* A label unlearner keeps at most max_size labels in memory.  Training    *)
(* touches the label trained and a put every label of the difference, of   *)
(* whatever version: a touch beyond max_size gives up another label, whose *)
(* weights and name go, and a put drops the labels not in memory after it. *)
(* Which label is given up is any that is not sticky (LruUnlearner and     *)
(* RandomUnlearner say which).                                             *)
(*                                                                         *)
(* A weight is a formal sum of training updates, scaled by Unit: the code  *)
(* only adds, subtracts and averages weights, so the coefficient of an     *)
(* update says how much of it a weight holds.  A table maps each           *)
(* <<feature, label>> key to a weight; an absent row of tbl_ is Zero.      *)
(***************************************************************************)
EXTENDS Integers, FiniteSets, Functions, TLC

CONSTANTS Node,        \* the storages the mixer knows
          Feature,     \* feature names
          Label,       \* class names
          Update,      \* identities of training updates; bounds their number
          Unit,        \* the weight of one update, divisible by 1..|Node|
          MaxVersion,  \* bound: no round starts once a node is at this version
          MaxRegistered, \* bound on the labels registered without training
          MaxDeleted,  \* bound on the labels deleted and models cleared
          Sizes,       \* the settings of max_size, 0 for no unlearner
          NoLabel      \* bulk_update with no class to decrease

ASSUME NodeAssumption == IsFiniteSet(Node) /\ Node # {}
ASSUME UnitAssumption ==
    /\ Unit \in Nat \ {0}
    /\ \A c \in 1..Cardinality(Node) : Unit % c = 0
ASSUME BoundAssumption == MaxVersion \in Nat /\ MaxRegistered \in Nat /\ MaxDeleted \in Nat
ASSUME LabelAssumption == IsFiniteSet(Feature) /\ IsFiniteSet(Label) /\ NoLabel \notin Label
ASSUME SizesAssumption == Sizes \subseteq Nat

VARIABLES tbl,       \* tbl_ of each node
          diff,      \* tbl_diff_ of each node, a partial function of keys
          labels,    \* class2id_ of each node, as the set of its labels
          version,   \* model_version_ of each node
          memory,    \* the labels the unlearner of each node has in memory
          max_size,  \* how many it may have, 0 without an unlearner, fixed
          sticky,    \* the labels of its sticky pattern, never given up, fixed
          lost,      \* history: labels each node may have forgotten weights of
          used,      \* the updates made so far
          registered, \* how many labels were registered without training
          deleted,   \* how many labels were deleted and models cleared
          phase,     \* what the mixer is doing: "idle", "gather" or "put"
          todo,      \* the nodes it still has to call in this phase
          mixed,     \* the folded difference, or NoDiff
          gathered   \* history: the difference each node gave in this round

modelVars == <<tbl, diff, labels, version, memory, lost>>
settings == <<max_size, sticky>>
mixerVars == <<phase, todo, mixed, gathered>>
vars == <<tbl, diff, labels, version, memory, lost, max_size, sticky,
          used, registered, deleted, phase, todo, mixed, gathered>>

Key == Feature \X Label
Weight == [Update -> Int]
Zero == [u \in Update |-> 0]
EmptyTable == [k \in Key |-> Zero]
NoWeights == [k \in {} |-> Zero]
IsPartialTable(w) == DOMAIN w \subseteq Key /\ w \in [DOMAIN w -> Weight]

Plus(a, b) == [u \in Update |-> a[u] + b[u]]
Once(u, s) == [v \in Update |-> IF v = u THEN s * Unit ELSE 0]
At(w, k) == IF k \in DOMAIN w THEN w[k] ELSE Zero

\* increase() over every entry of b: a total table plus a partial one
Increase(a, b) == [k \in Key |-> Plus(a[k], At(b, k))]

\* A diffv: the version it expects, how many nodes it averages, the weights.
Diffv(v, c, w) == [expect |-> v, count |-> c, weights |-> w]
NoDiff == Diffv(-1, 0, NoWeights)

\* linear_function_mixer::get_diff: one node's share of a round
GetDiff(n) == Diffv(version[n], 1, diff[n])

MixVal(c1, a, c2, b) ==
    [u \in Update |-> (c1 * a[u] + c2 * b[u]) \div (c1 + c2)]

\* Both differences as one, averaging every key either of them has.
Merge(lhs, rhs, count) ==
    Diffv(rhs.expect, count,
          [k \in DOMAIN lhs.weights \cup DOMAIN rhs.weights |->
              MixVal(lhs.count, At(lhs.weights, k), rhs.count, At(rhs.weights, k))])

\* Mutant of Mix: the counts are not added up.
MixForgetsCount(lhs, rhs) ==
    IF lhs.expect = rhs.expect THEN Merge(lhs, rhs, 1)
    ELSE IF lhs.expect > rhs.expect THEN lhs ELSE rhs

\* linear_function_mixer::mix: equal versions average, the newer one wins
Mix(lhs, rhs) ==
    IF lhs.expect = rhs.expect THEN Merge(lhs, rhs, lhs.count + rhs.count)
    ELSE IF lhs.expect > rhs.expect THEN lhs ELSE rhs

LabelsOf(w) == {k[2] : k \in DOMAIN w}

Init ==
    /\ tbl = [n \in Node |-> EmptyTable]
    /\ diff = [n \in Node |-> NoWeights]
    /\ labels = [n \in Node |-> {}]
    /\ version = [n \in Node |-> 0]
    /\ memory = [n \in Node |-> {}]
    /\ lost = [n \in Node |-> {}]
    /\ max_size \in Sizes
    /\ sticky \in SUBSET Label
    /\ used = {}
    /\ registered = 0
    /\ deleted = 0
    /\ phase = "idle"
    /\ todo = {}
    /\ mixed = NoDiff
    /\ gathered = [n \in Node |-> NoDiff]

---------------------------------------------------------------------------
(* The label unlearner.                                                    *)

\* What touching labels comes to: those in memory, and those given up.
Outcome(mem, gone) == [memory |-> mem, gone |-> gone]

HasUnlearner == max_size > 0

\* touch of l after r: nothing if it is in memory or nothing can be given up
Touch(r, l) ==
    IF ~HasUnlearner \/ l \in r.memory THEN {r}
    ELSE IF Cardinality(r.memory) < max_size
         THEN {Outcome(r.memory \cup {l}, r.gone)}
    ELSE IF r.memory \subseteq sticky THEN {r}
    ELSE {Outcome((r.memory \ {v}) \cup {l}, r.gone \cup {v}) : v \in r.memory \ sticky}

\* touch for every feature and class of keys, in whatever order
Touches(mem, keys) ==
    LET after[ks \in SUBSET keys] ==
            IF ks = {} THEN {Outcome(mem, {})}
            ELSE UNION {UNION {Touch(r, k[2]) : r \in after[ks \ {k}]} : k \in ks}
    IN after[keys]

\* check_touchable does not throw
can_touch(n, l) ==
    HasUnlearner => l \in memory[n] \/ Cardinality(memory[n] \cap sticky) < max_size

\* delete_label_nolock of the labels ls in the master and in the difference
Unlearned(t, ls) == [k \in Key |-> IF k[2] \in ls THEN Zero ELSE t[k]]
WithoutLabels(w, ls) == Restrict(w, {k \in DOMAIN w : k[2] \notin ls})

---------------------------------------------------------------------------
(* Operations of one node.                                                 *)

\* Mutant of Delta: the class to decrease is not tested for being absent.
DeltaAlwaysDecreases(u, f, inc, dec) ==
    [k \in {<<f, inc>>, <<f, dec>>} |-> Once(u, IF k[2] = inc THEN 1 ELSE -1)]

\* What one update adds: weight to inc, and takes it from dec when there is one
Delta(u, f, inc, dec) ==
    [k \in {<<f, inc>>} \cup (IF dec = NoLabel THEN {} ELSE {<<f, dec>>}) |->
        Once(u, IF k[2] = inc THEN 1 ELSE -1)]

Summed(d, e) == [k \in DOMAIN d \cup DOMAIN e |-> Plus(At(d, k), At(e, k))]

\* check_touchable, update or bulk_update (or set of a weight computed from
\* get), and the touch of the label trained, which may give up another
Train(n, u, f, inc, dec) ==
    /\ u \notin used
    /\ inc # dec
    /\ can_touch(n, inc)
    /\ used' = used \cup {u}
    /\ LET delta == Delta(u, f, inc, dec)
       IN \E r \in Touch(Outcome(memory[n], {}), inc) :
             /\ memory' = [memory EXCEPT ![n] = r.memory]
             /\ lost' = [lost EXCEPT ![n] = @ \cup r.gone]
             /\ tbl' = [tbl EXCEPT ![n] = Unlearned(@, r.gone)]
             /\ diff' = [diff EXCEPT ![n] = WithoutLabels(Summed(@, delta), r.gone)]
             /\ labels' = [labels EXCEPT ![n] = (@ \cup LabelsOf(delta)) \ r.gone]
    /\ UNCHANGED <<version, settings, registered, deleted, mixerVars>>

\* increase every averaged weight, registering its label, after those given
\* up went; what was trained locally becomes rest
TakeAverage(n, avg, gone, rest) ==
    /\ tbl' = [tbl EXCEPT ![n] = Increase(Unlearned(@, gone), avg.weights)]
    /\ diff' = [diff EXCEPT ![n] = rest]
    /\ labels' = [labels EXCEPT ![n] = (@ \ gone) \cup LabelsOf(avg.weights)]
    /\ version' = [version EXCEPT ![n] = @ + 1]

\* Only what the unlearner gives up goes.
TakeNothing(n, gone) ==
    /\ tbl' = [tbl EXCEPT ![n] = Unlearned(@, gone)]
    /\ diff' = [diff EXCEPT ![n] = WithoutLabels(@, gone)]
    /\ labels' = [labels EXCEPT ![n] = @ \ gone]
    /\ UNCHANGED version

\* Mutants of SetAverage: any older model takes the put; tbl_diff_ is not
\* cleared; weights of labels this node does not know are skipped.
SetAverageIfOlder(n, avg, gone) ==
    IF avg.expect >= version[n]
    THEN TakeAverage(n, avg, gone, NoWeights) ELSE TakeNothing(n, gone)
SetAverageKeepsDiff(n, avg, gone) ==
    IF avg.expect = version[n]
    THEN TakeAverage(n, avg, gone, diff[n]) ELSE TakeNothing(n, gone)
SetAverageKnownLabels(n, avg, gone) ==
    LET known == [k \in {j \in DOMAIN avg.weights : j[2] \in labels[n]} |->
                     avg.weights[k]]
    IN IF avg.expect = version[n]
       THEN TakeAverage(n, [avg EXCEPT !.weights = known], gone, NoWeights)
       ELSE TakeNothing(n, gone)

\* set_average_and_clear_diff, of a model whose unlearner gave up the labels gone
SetAverage(n, avg, gone) ==
    IF avg.expect = version[n]
    THEN TakeAverage(n, avg, gone, NoWeights)
    ELSE TakeNothing(n, gone)

\* The process restarts with a freshly constructed storage.
Restart(n) ==
    /\ tbl' = [tbl EXCEPT ![n] = EmptyTable]
    /\ diff' = [diff EXCEPT ![n] = NoWeights]
    /\ labels' = [labels EXCEPT ![n] = {}]
    /\ version' = [version EXCEPT ![n] = 0]
    /\ memory' = [memory EXCEPT ![n] = {}]
    /\ lost' = [lost EXCEPT ![n] = {}]
    /\ UNCHANGED <<settings, used, registered, deleted, mixerVars>>

\* pack() of node m is unpacked by node n: master, difference, labels, version
\* and the unlearner
Load(n, m) ==
    /\ n # m
    /\ phase = "idle"
    /\ tbl' = [tbl EXCEPT ![n] = tbl[m]]
    /\ diff' = [diff EXCEPT ![n] = diff[m]]
    /\ labels' = [labels EXCEPT ![n] = labels[m]]
    /\ version' = [version EXCEPT ![n] = version[m]]
    /\ memory' = [memory EXCEPT ![n] = memory[m]]
    /\ lost' = [lost EXCEPT ![n] = lost[m]]
    /\ UNCHANGED <<settings, used, registered, deleted, mixerVars>>

---------------------------------------------------------------------------
(* The mixer.                                                              *)

StartRound ==
    /\ phase = "idle"
    /\ \A n \in Node : version[n] < MaxVersion
    /\ phase' = "gather"
    /\ todo' = Node
    /\ mixed' = NoDiff
    /\ gathered' = [n \in Node |-> NoDiff]
    /\ UNCHANGED <<modelVars, settings, used, registered, deleted>>

\* One iteration of the gathering loop: get_diff, then mix into the fold.
Gather(n) ==
    /\ phase = "gather"
    /\ n \in todo
    /\ todo' = todo \ {n}
    /\ mixed' = IF mixed = NoDiff THEN GetDiff(n) ELSE Mix(GetDiff(n), mixed)
    /\ gathered' = [gathered EXCEPT ![n] = GetDiff(n)]
    /\ UNCHANGED <<modelVars, settings, used, registered, deleted, phase>>

StartPut ==
    /\ phase = "gather"
    /\ todo = {}
    /\ phase' = "put"
    /\ todo' = Node
    /\ UNCHANGED <<modelVars, settings, used, registered, deleted, mixed, gathered>>

\* Copy the weights of classes except unlearned classes.
KeepKnown(mem) ==
    IF HasUnlearner
    THEN [mixed EXCEPT !.weights = WithoutLabels(@, Label \ mem)]
    ELSE mixed

Dropped(mem) == LabelsOf(mixed.weights) \ LabelsOf(KeepKnown(mem).weights)

\* linear_function_mixer::put_diff: touch the labels, whatever the version,
\* then set_average_and_clear_diff with those still in memory
Put(n) ==
    /\ phase = "put"
    /\ n \in todo
    /\ todo' = todo \ {n}
    /\ \E r \in Touches(memory[n], DOMAIN mixed.weights) :
          /\ memory' = [memory EXCEPT ![n] = r.memory]
          /\ lost' = [lost EXCEPT ![n] = @ \cup r.gone \cup Dropped(r.memory)]
          /\ SetAverage(n, KeepKnown(r.memory), r.gone)
    /\ UNCHANGED <<settings, used, registered, deleted, phase, mixed, gathered>>

\* The put call to n is lost.
LosePut(n) ==
    /\ phase = "put"
    /\ n \in todo
    /\ todo' = todo \ {n}
    /\ UNCHANGED <<modelVars, settings, used, registered, deleted, phase, mixed, gathered>>

\* The round ends, or the mixer gives it up while gathering.
EndRound ==
    /\ phase = "gather" \/ (phase = "put" /\ todo = {})
    /\ phase' = "idle"
    /\ todo' = {}
    /\ mixed' = NoDiff
    /\ gathered' = [n \in Node |-> NoDiff]
    /\ UNCHANGED <<modelVars, settings, used, registered, deleted>>

---------------------------------------------------------------------------
(* The administrative operations of one node's storage, which the server   *)
(* may call at any time, also between a node's get_diff and its put_diff.  *)

\* register_label, or set_label, which touches a label new to the storage
RegisterLabel(n, l) ==
    /\ can_touch(n, l)
    /\ registered < MaxRegistered
    /\ registered' = registered + 1
    /\ LET before == Outcome(memory[n], {})
       IN \E r \in {before} \cup (IF l \in labels[n] THEN {} ELSE Touch(before, l)) :
             /\ memory' = [memory EXCEPT ![n] = r.memory]
             /\ lost' = [lost EXCEPT ![n] = @ \cup r.gone]
             /\ tbl' = [tbl EXCEPT ![n] = Unlearned(@, r.gone)]
             /\ diff' = [diff EXCEPT ![n] = WithoutLabels(@, r.gone)]
             /\ labels' = [labels EXCEPT ![n] = (@ \cup {l}) \ r.gone]
    /\ UNCHANGED <<version, settings, used, deleted, mixerVars>>

\* Forget label l; the local difference becomes rest.
Forget(n, l, rest) ==
    /\ l \in labels[n]
    /\ tbl' = [tbl EXCEPT ![n] = Unlearned(@, {l})]
    /\ diff' = [diff EXCEPT ![n] = rest]
    /\ labels' = [labels EXCEPT ![n] = @ \ {l}]
    /\ \E removed \in SUBSET {l} : memory' = [memory EXCEPT ![n] = @ \ removed]
    /\ lost' = [lost EXCEPT ![n] = @ \cup {l}]
    /\ deleted < MaxDeleted
    /\ deleted' = deleted + 1
    /\ UNCHANGED <<version, settings, used, registered, mixerVars>>

\* Mutant of DeleteLabel: the local difference keeps the label's weights.
DeleteLabelKeepsDiff(n, l) == Forget(n, l, diff[n])

\* delete_label: the label's weights leave the master, the diff and class2id_,
\* and the label the unlearner, if labels_ counted it too
DeleteLabel(n, l) == Forget(n, l, WithoutLabels(diff[n], {l}))

\* clear(): everything but the model version goes
Clear(n) ==
    /\ tbl' = [tbl EXCEPT ![n] = EmptyTable]
    /\ diff' = [diff EXCEPT ![n] = NoWeights]
    /\ labels' = [labels EXCEPT ![n] = {}]
    /\ memory' = [memory EXCEPT ![n] = {}]
    /\ lost' = [lost EXCEPT ![n] = Label]
    /\ deleted < MaxDeleted
    /\ deleted' = deleted + 1
    /\ UNCHANGED <<version, settings, used, registered, mixerVars>>

---------------------------------------------------------------------------
Next ==
    \/ \E n \in Node, u \in Update, f \in Feature,
          inc \in Label, dec \in Label \cup {NoLabel} : Train(n, u, f, inc, dec)
    \/ \E n \in Node : Restart(n)
    \/ \E n, m \in Node : Load(n, m)
    \/ StartRound
    \/ \E n \in Node : Gather(n)
    \/ StartPut
    \/ \E n \in Node : Put(n)
    \/ \E n \in Node : LosePut(n)
    \/ EndRound
    \/ \E n \in Node, l \in Label : RegisterLabel(n, l)
    \/ \E n \in Node, l \in Label : DeleteLabel(n, l)
    \/ \E n \in Node : Clear(n)

Spec == Init /\ [][Next]_vars

---------------------------------------------------------------------------
IsDiffv(d) ==
    /\ d = Diffv(d.expect, d.count, d.weights)
    /\ d.expect \in Int
    /\ d.count \in Nat
    /\ IsPartialTable(d.weights)

\* Type invariant of the nodes and of the mixer.
TypeOK ==
    /\ tbl \in [Node -> [Key -> Weight]]
    /\ DOMAIN diff = Node /\ \A n \in Node : IsPartialTable(diff[n])
    /\ labels \in [Node -> SUBSET Label]
    /\ version \in [Node -> Nat]
    /\ memory \in [Node -> SUBSET Label] /\ lost \in [Node -> SUBSET Label]
    /\ max_size \in Nat /\ sticky \subseteq Label
    /\ used \subseteq Update
    /\ registered \in Nat /\ deleted \in Nat
    /\ phase \in {"idle", "gather", "put"}
    /\ todo \subseteq Node
    /\ IsDiffv(mixed)
    /\ DOMAIN gathered = Node /\ \A n \in Node : IsDiffv(gathered[n])

\* Two nodes at the same model version hold the same master weights, whatever
\* puts were lost, whoever restarted, and however far behind others are, of
\* every label neither of them ever gave up: by delete_label or clear, by its
\* unlearner, or by a put that dropped the label, none of which a version tells.
Agreement ==
    \A n, m \in Node : version[n] = version[m] =>
        \A k \in Key : k[2] \notin lost[n] \cup lost[m] => tbl[n][k] = tbl[m][k]

\* The nodes gathered so far whose version is the newest gathered.
Newest ==
    LET asked == {n \in Node : gathered[n] # NoDiff}
    IN {n \in asked : \A m \in asked :
            gathered[m].expect <= gathered[n].expect}

\* The pairwise fold, in whatever order the mixer calls the nodes, is the
\* plain average over the nodes at the newest version: nodes that lag behind
\* count for nothing, and each of the others for exactly one share.
FoldIsAverage ==
    phase # "idle" /\ mixed # NoDiff =>
        /\ mixed.count = Cardinality(Newest)
        /\ \A n \in Newest : mixed.expect = gathered[n].expect
        /\ \A k \in Key, u \in Update :
              mixed.count * At(mixed.weights, k)[u] =
                  SumFunctionOnSet([n \in Newest |-> At(gathered[n].weights, k)[u]], Newest)

\* No update is in a node's master and in its local difference at once, and
\* none weighs more in a master than when it was trained: it is never mixed
\* in twice, although a put may be lost or the diff copied by Load.
CountedOnce ==
    \A n \in Node, k \in Key, u \in Update :
        /\ tbl[n][k][u] \in -Unit..Unit
        /\ tbl[n][k][u] = 0 \/ At(diff[n], k)[u] = 0

\* A put that a node accepts keeps a share of everything that node itself
\* gave in this round at that version, under the labels its unlearner has in
\* memory after it: only updates made after its get_diff may go missing.
GatheredSurvives ==
    [][\A n \in Node :
          Put(n) /\ mixed.expect = version[n] /\ gathered[n].expect = version[n] =>
              \A k \in DOMAIN gathered[n].weights, u \in Update :
                  /\ gathered[n].weights[k][u] # 0
                  /\ HasUnlearner => k[2] \in memory'[n]
                  => tbl'[n][k][u] # 0]_vars

\* Every label a weight is stored under is registered in class2id_, so that
\* get_diff never sends a weight under the empty name get_key falls back to.
\* Only labels in memory, of which there are never more than max_size, have
\* weights in the master, whoever trained them: the model stays in its bound.
WeightsAreLabelled ==
    \A n \in Node :
        /\ \A k \in DOMAIN diff[n] : k[2] \in labels[n]
        /\ \A k \in Key : tbl[n][k] # Zero =>
              k[2] \in labels[n] /\ (HasUnlearner => k[2] \in memory[n])
        /\ Cardinality(memory[n]) <= max_size

---------------------------------------------------------------------------
(***************************************************************************)
(* For model checking: nodes, labels and updates are interchangeable, and  *)
(* only safety is checked, so all three are symmetric.  Scope is the union *)
(* of three scenarios: labels that come with their weights only, and room  *)
(* for all of them; the same in one round with an unlearner that gives     *)
(* labels up; and labels registered and deleted and models cleared, in one *)
(* round of one update.                                                    *)
(***************************************************************************)
Symmetry == Permutations(Node) \cup Permutations(Label) \cup Permutations(Update)

OnlyTrained == registered = 0 /\ deleted = 0

OneRound ==
    /\ mixed.expect <= 0
    /\ phase # "put" => \A n \in Node : version[n] = 0

Administered == OneRound /\ Cardinality(used) <= 1

Scope ==
    IF HasUnlearner THEN OneRound /\ (OnlyTrained \/ (Administered /\ deleted = 0))
    ELSE sticky = {} /\ (OnlyTrained \/ Administered)
=============================================================================
