-------------------------- MODULE LinearClassifier --------------------------
(***************************************************************************)
(* classifier/linear_classifier and the algorithms derived from it, over   *)
(* storage::local_storage and its key_manager, with a label unlearner, used*)
(* by several threads.  Three locks guard one call, one after the other:   *)
(* the storage's, the one of labels and unlearner_mutex_.  arow, confidence*)
(* _weighted and normal_herd touch the label inside the storage's lock,    *)
(* perceptron and the passive_aggressive family after it.                  *)
(*                                                                         *)
(* A weight is there or not, and remembers here which label learned it;    *)
(* scores, and with them the label to be pushed down and whether there is  *)
(* anything to learn, are any.                                             *)
(***************************************************************************)
EXTENDS Integers, FiniteSets, Functions

CONSTANTS Thread,
          Label,
          Feature,
          NoLabel,  \* the empty class name
          Sticky,   \* labels that are never unlearned
          MaxSize,  \* the unlearner's bound
          MaxCalls  \* bound on the calls

LabelAssumption == NoLabel \notin Label \cup Thread /\ Sticky \subseteq Label
CallBounds == MaxSize \in Nat \ {0} /\ MaxCalls \in Nat

VARIABLES method,  \* the algorithm, fixed
          setters, \* whether set_label is used, fixed
          key2id,  \* class2id_: label -> id
          next_id, \* the id the next new label gets
          tbl,     \* the weights: a feature, a class id and who learned it
          counted, \* the labels labels_ has
          memory,  \* the labels in memory of the unlearner
          rw,      \* who holds the storage's lock for writing, or NoLabel
          um,      \* who holds unlearner_mutex_, or NoLabel
          pc,      \* where each thread is
          arg,     \* the label each thread was called with
          neg,     \* the incorrect label it found
          old,     \* the label it unlearns
          calls    \* how many calls began

modelVars == <<key2id, next_id, tbl, counted, memory>>
lockVars == <<rw, um>>
settings == <<method, setters>>
vars == <<settings, modelVars, lockVars, pc, arg, neg, old, calls>>

Holders == {"arow", "confidence_weighted", "normal_herd"}
Methods == Holders \cup {"perceptron", "passive_aggressive", "passive_aggressive_1"}

Init ==
    /\ method \in Methods
    /\ setters \in BOOLEAN
    /\ key2id = [l \in {} |-> 0]
    /\ next_id = 0
    /\ tbl = {}
    /\ counted = {}
    /\ memory = {}
    /\ rw = NoLabel /\ um = NoLabel
    /\ pc = [t \in Thread |-> "idle"]
    /\ arg = [t \in Thread |-> NoLabel]
    /\ neg = [t \in Thread |-> NoLabel]
    /\ old = [t \in Thread |-> NoLabel]
    /\ calls = 0

Goto(t, from, to) == pc[t] = from /\ pc' = [pc EXCEPT ![t] = to]

can_touch(l) ==
    l \in memory \/ Cardinality(memory) < MaxSize \/ ~(memory \subseteq Sticky)

\* key_manager::get_id of several keys in turn: known ones keep their ids
Known(ls) == DOMAIN key2id \cup ls
NewIds(ls) == {f \in [Known(ls) -> 0..(next_id + 1)] :
                  /\ \A l \in DOMAIN key2id : f[l] = key2id[l]
                  /\ {f[l] : l \in ls \ DOMAIN key2id} =
                         next_id..(next_id + Cardinality(ls \ DOMAIN key2id) - 1)}

\* get_id, set_key and append_key
GetIds(ls) ==
    /\ key2id' \in NewIds(ls)
    /\ next_id' = next_id + Cardinality(ls \ DOMAIN key2id)

\* Mutant of DeleteKey: the id is given again.
DeleteKeyReuses(l) ==
    /\ key2id' = Restrict(key2id, DOMAIN key2id \ {l})
    /\ next_id' = IF l \in DOMAIN key2id THEN next_id - 1 ELSE next_id

\* delete_key: the id is not given again
DeleteKey(l) == key2id' = Restrict(key2id, DOMAIN key2id \ {l}) /\ UNCHANGED next_id

\* The weights of a label, erased by delete_label_nolock.
WeightsOf(l) == {w \in tbl : l \in DOMAIN key2id /\ w.id = key2id[l]}

---------------------------------------------------------------------------
(* Calls and their end.                                                    *)

Call(t, to, l) ==
    /\ calls < MaxCalls
    /\ Goto(t, "idle", to)
    /\ arg' = [arg EXCEPT ![t] = l]
    /\ calls' = calls + 1
    /\ UNCHANGED <<modelVars, lockVars, neg, old, settings>>

Train(t, l) == Call(t, "check", l)
SetLabel(t, l) == Call(t, "check_set", l)
DeleteLabel(t, l) == Call(t, "delete", l)

\* check_touchable: a throw ends the call
CheckTouchable(t, from, to) ==
    /\ um = NoLabel
    /\ Goto(t, from, IF can_touch(arg[t]) THEN to ELSE "idle")
    /\ UNCHANGED <<modelVars, lockVars, arg, neg, old, calls, settings>>

\* labels::increment
Increment(t) ==
    /\ Goto(t, "increment", "margin")
    /\ counted' = counted \cup {arg[t]}
    /\ UNCHANGED <<key2id, next_id, tbl, memory, lockVars, arg, neg, old, calls, settings>>

\* classify or calc_margin, under the storage's lock for reading: some label
\* that scores, the first of all none; "learn" and "skip" as the scores say
CalcMargin(t, to) ==
    /\ rw = NoLabel
    /\ Goto(t, "margin", to)
    /\ \E l \in {NoLabel} \cup DOMAIN key2id :
          /\ (method = "perceptron") => (l = arg[t] <=> to = "idle")
          /\ (method # "perceptron") => l # arg[t]
          /\ neg' = [neg EXCEPT ![t] = l]
    /\ UNCHANGED <<modelVars, lockVars, arg, old, calls, settings>>

\* Each train: what follows when the scores leave nothing to learn
perceptron_train(t) ==
    method = "perceptron" /\ \E to \in {"idle", "update"} : CalcMargin(t, to)
passive_aggressive_train(t) ==
    /\ method = "passive_aggressive"
    /\ \E to \in {"idle", "register", "update"} : CalcMargin(t, to)
passive_aggressive_1_train(t) ==
    method = "passive_aggressive_1" /\ \E to \in {"register", "update"} : CalcMargin(t, to)
arow_train(t) ==
    method = "arow" /\ \E to \in {"register", "update"} : CalcMargin(t, to)
confidence_weighted_train(t) ==
    method = "confidence_weighted" /\ \E to \in {"register", "update"} : CalcMargin(t, to)
normal_herd_train(t) ==
    method = "normal_herd" /\ \E to \in {"register", "update"} : CalcMargin(t, to)

\* Nothing to learn: register_label
Register(t) ==
    /\ rw = NoLabel
    /\ Goto(t, "register", "idle")
    /\ GetIds({arg[t]})
    /\ UNCHANGED <<tbl, counted, memory, lockVars, arg, neg, old, calls, settings>>

\* Weights of both labels for the features fs, under the storage's lock, which
\* stays held if touch is called inside
SetWeights(t, fs, held) ==
    /\ rw = NoLabel
    /\ Goto(t, "update", "touch")
    /\ LET ls == {arg[t], neg[t]} \ {NoLabel}
       IN  /\ GetIds(ls)
           /\ tbl' = tbl \cup {[feature |-> f, id |-> key2id'[l], by |-> l] : f \in fs, l \in ls}
    /\ rw' = IF held THEN t ELSE NoLabel
    /\ UNCHANGED <<counted, memory, um, arg, neg, old, calls, settings>>

\* local_storage::bulk_update
bulk_update(t, fs) == method \notin Holders /\ SetWeights(t, fs, FALSE)
\* update of the three that keep variances
arow_update(t, fs) == method = "arow" /\ SetWeights(t, fs, TRUE)
confidence_weighted_update(t, fs) == method = "confidence_weighted" /\ SetWeights(t, fs, TRUE)
normal_herd_update(t, fs) == method = "normal_herd" /\ SetWeights(t, fs, TRUE)

\* touch: check_touchable and the unlearner's touch; leaving ends the call
Touch(t) ==
    /\ um = NoLabel
    /\ LET l == arg[t]
           room == l \in memory \/ Cardinality(memory) < MaxSize
       IN  \/ /\ room \/ ~can_touch(l)
              /\ Goto(t, "touch", "idle")
              /\ memory' = IF room THEN memory \cup {l} ELSE memory
              /\ rw' = IF rw = t THEN NoLabel ELSE rw
              /\ UNCHANGED <<um, old>>
           \/ /\ ~room
              /\ Goto(t, "touch", "unlearn")
              /\ \E o \in memory \ Sticky :
                    /\ memory' = (memory \ {o}) \cup {l}
                    /\ old' = [old EXCEPT ![t] = o]
              /\ um' = t
              /\ UNCHANGED rw
    /\ UNCHANGED <<key2id, next_id, tbl, counted, arg, neg, calls, settings>>

\* unlearn_label, called back by touch: delete_label_nolock takes no lock, so
\* that its two halves are two steps here
UnlearnWeights(t) ==
    /\ Goto(t, "unlearn", "unlearn_key")
    /\ tbl' = tbl \ WeightsOf(old[t])
    /\ UNCHANGED <<key2id, next_id, counted, memory, lockVars, arg, neg, old, calls, settings>>

UnlearnKey(t) ==
    /\ Goto(t, "unlearn_key", "idle")
    /\ DeleteKey(old[t])
    /\ counted' = counted \ {old[t]}
    /\ um' = NoLabel
    /\ rw' = IF rw = t THEN NoLabel ELSE rw
    /\ UNCHANGED <<tbl, memory, arg, neg, old, calls, settings>>

\* set_label: the storage, then labels::add, then touch if both were new
SetInStorage(t) ==
    /\ rw = NoLabel
    /\ Goto(t, "set", IF arg[t] \in DOMAIN key2id THEN "add_only" ELSE "add")
    /\ GetIds({arg[t]})
    /\ UNCHANGED <<tbl, counted, memory, lockVars, arg, neg, old, calls, settings>>

AddLabel(t) ==
    /\ \/ Goto(t, "add", IF arg[t] \in counted THEN "idle" ELSE "touch")
       \/ Goto(t, "add_only", "idle")
    /\ counted' = counted \cup {arg[t]}
    /\ UNCHANGED <<key2id, next_id, tbl, memory, lockVars, arg, neg, old, calls, settings>>

\* delete_label: the storage under its lock
DeleteInStorage(t) ==
    /\ rw = NoLabel
    /\ Goto(t, "delete", IF arg[t] \in DOMAIN key2id THEN "erase" ELSE "erase_only")
    /\ tbl' = tbl \ WeightsOf(arg[t])
    /\ DeleteKey(arg[t])
    /\ UNCHANGED <<counted, memory, lockVars, arg, neg, old, calls, settings>>

\* labels::erase
EraseLabel(t) ==
    /\ \/ Goto(t, "erase", IF arg[t] \in counted THEN "forget" ELSE "idle")
       \/ Goto(t, "erase_only", "idle")
    /\ counted' = counted \ {arg[t]}
    /\ UNCHANGED <<key2id, next_id, tbl, memory, lockVars, arg, neg, old, calls, settings>>

\* The unlearner's remove, if the label was in both.
Forget(t) ==
    /\ um = NoLabel
    /\ Goto(t, "forget", "idle")
    /\ memory' = memory \ {arg[t]}
    /\ UNCHANGED <<key2id, next_id, tbl, counted, lockVars, arg, neg, old, calls, settings>>

Next == \E t \in Thread :
    \/ \E l \in Label : Train(t, l) \/ (setters /\ SetLabel(t, l)) \/ DeleteLabel(t, l)
    \/ CheckTouchable(t, "check", "increment")
    \/ CheckTouchable(t, "check_set", "set")
    \/ Increment(t)
    \/ perceptron_train(t) \/ passive_aggressive_train(t) \/ passive_aggressive_1_train(t)
    \/ arow_train(t) \/ confidence_weighted_train(t) \/ normal_herd_train(t)
    \/ Register(t)
    \/ \E fs \in SUBSET Feature :
          \/ bulk_update(t, fs) \/ arow_update(t, fs)
          \/ confidence_weighted_update(t, fs) \/ normal_herd_update(t, fs)
    \/ Touch(t) \/ UnlearnWeights(t) \/ UnlearnKey(t)
    \/ SetInStorage(t) \/ AddLabel(t)
    \/ DeleteInStorage(t) \/ EraseLabel(t) \/ Forget(t)

Spec == Init /\ [][Next]_vars

---------------------------------------------------------------------------
\* Type invariant.
TypeOK ==
    /\ DOMAIN key2id \subseteq Label
    /\ \A l \in DOMAIN key2id : key2id[l] \in 0..(next_id - 1)
    /\ counted \subseteq Label
    /\ memory \subseteq Label /\ Cardinality(memory) <= MaxSize
    /\ rw \in Thread \cup {NoLabel} /\ um \in Thread \cup {NoLabel}

\* No label inherits what another learned, whatever is deleted or unlearned
\* while others train: ids are not given twice, so that weights left behind
\* by a label that went between two steps of a call stay out of every score.
NothingInherited ==
    /\ IsInjective(key2id)
    /\ \A w \in tbl, l \in DOMAIN key2id : key2id[l] = w.id => l = w.by

\* Every weight belongs to a label that still has its id: what a label learned
\* goes with it.
WeightsHaveLabels == \A w \in tbl : \E l \in DOMAIN key2id : key2id[l] = w.id

\* unlearn_label's comment asks for touch to be called with the lock held: the
\* algorithms that do leave no weight behind, however threads interleave.
HeldLockIsEnough == method \in Holders /\ ~setters => WeightsHaveLabels
=============================================================================
