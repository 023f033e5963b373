---------------------------- MODULE NNClassifier ----------------------------
(***************************************************************************)
(* One nearest_neighbor_classifier used by several threads.  Its driver    *)
(* takes no lock, so train, delete_label, clear and the push or put of MIX *)
(* interleave; what protects the state is unlearner_mutex_, the rw lock of *)
(* the column_table and the lock inside storage::labels.                   *)
(*                                                                         *)
(* A section that holds one lock and asks for no other is one step; one    *)
(* that asks for a second lock is taken apart, and so is every use of the  *)
(* unlearner, which has no lock of its own.  The unlearner is the contract *)
(* of module Unlearner, the rows of the table their ids.  master_ of       *)
(* labels stays empty here: the classifier mixes its table only.           *)
(***************************************************************************)
EXTENDS Integers, FiniteSets

CONSTANTS Thread,    \* threads that call the classifier or run its MIX
          Id,        \* ids of rows
          Label,     \* labels
          LabelOf,   \* get_label_from_id, a function from Id to Label
          Sticky,    \* ids that match the unlearner's sticky pattern
          MaxSize,   \* max_size of the unlearner
          CountSize, \* how many values a uint64_t count has
          Together   \* the calls that may overlap: of "train", "delete",
                     \* "push" and "clear"; the others run alone

ASSUME LabelAssumption == Id # {} /\ LabelOf \in [Id -> Label]
ASSUME StickyAssumption == Sticky \subseteq Id
ASSUME SizeAssumption == MaxSize \in Nat \ {0} /\ CountSize \in Nat \ {0}
ASSUME TogetherAssumption == Together \subseteq {"train", "delete", "push", "clear"}

VARIABLES rows,      \* the ids in the table
          memory,    \* the ids in memory of the unlearner
          counts,    \* diff_ of labels_: a partial function of labels
          mutex,     \* the threads holding unlearner_mutex_
          tableLock, \* the threads holding the write lock of the table
          pc,        \* where each thread is
          id,        \* the row it works on
          label,     \* the label it deletes
          todo,      \* the rows delete_label has still to delete
          copy,      \* new_labels of regenerate_label_counter
          alone,     \* history: no two calls have overlapped
          refused    \* history: MIX has stored a row the unlearner refused

data == <<rows, memory, counts>>
locks == <<mutex, tableLock>>
locals == <<id, label, todo, copy>>
history == <<alone, refused>>
vars == <<data, locks, pc, locals, history>>

PCs == {"idle", "touch", "touched", "refused", "set_row", "add", "add_new",
        "increment", "delete", "delete_row", "forget", "push", "pushed",
        "get_labels", "count", "swap", "clear_labels", "clear_unlearner",
        "cleared"}

TypeOK ==
    /\ rows \subseteq Id
    /\ memory \subseteq Id
    /\ DOMAIN counts \subseteq Label
    /\ \A l \in DOMAIN counts : counts[l] \in 0..CountSize - 1
    /\ mutex \subseteq Thread /\ Cardinality(mutex) <= 1
    /\ tableLock \subseteq Thread /\ Cardinality(tableLock) <= 1
    /\ pc \in [Thread -> PCs]
    /\ id \in [Thread -> Id]
    /\ label \in [Thread -> Label]
    /\ todo \in [Thread -> SUBSET Id]
    /\ \A t \in Thread : DOMAIN copy[t] \subseteq Label
    /\ alone \in BOOLEAN /\ refused \in BOOLEAN

NoCounts == [l \in {} |-> 0]

Init ==
    /\ rows = {} /\ memory = {} /\ counts = NoCounts
    /\ mutex = {} /\ tableLock = {}
    /\ pc = [t \in Thread |-> "idle"]
    /\ id = [t \in Thread |-> CHOOSE i \in Id : TRUE]
    /\ label = [t \in Thread |-> CHOOSE l \in Label : TRUE]
    /\ todo = [t \in Thread |-> {}]
    /\ copy = [t \in Thread |-> NoCounts]
    /\ alone = TRUE /\ refused = FALSE

At(t, place) == pc[t] = place
Goto(t, place) == pc' = [pc EXCEPT ![t] = place]

\* The call a place belongs to
CallAt(place) ==
    IF place \in {"delete", "delete_row", "forget"} THEN "delete"
    ELSE IF place \in {"push", "pushed", "get_labels", "count", "swap"} THEN "push"
    ELSE IF place \in {"clear_labels", "clear_unlearner", "cleared"} THEN "clear"
    ELSE "train"

Running == {CallAt(pc[t]) : t \in {u \in Thread : ~At(u, "idle")}}

\* Thread t begins a call.
Call(t, op) ==
    /\ At(t, "idle")
    /\ Running = {} \/ Running \cup {op} \subseteq Together
    /\ alone' = (alone /\ Running = {})
    /\ UNCHANGED refused

\* Mutant of With: the count is signed.
WithSigned(c, l, d) ==
    [k \in DOMAIN c \cup {l} |-> IF k # l THEN c[k]
        ELSE (IF l \in DOMAIN c THEN c[l] ELSE 0) + d]

\* diff_[l] += d, on unsigned counts
With(c, l, d) ==
    [k \in DOMAIN c \cup {l} |-> IF k # l THEN c[k]
        ELSE ((IF l \in DOMAIN c THEN c[l] ELSE 0) + d) % CountSize]

Without(c, l) == [k \in DOMAIN c \ {l} |-> c[k]]

\* labels::decrement
Decrement(c, l) ==
    LET less == With(c, l, -1)
    IN  IF less[l] = 0 THEN Without(c, l) ELSE less

\* Mutant of Unlearned: the callback deletes the row only.
UnlearnedRowOnly(c, out) == c

\* What touch(i) may unlearn: nothing, or one id; no way at all if it refuses.
Victims(i) ==
    IF i \in memory \/ Cardinality(memory) < MaxSize THEN {{}}
    ELSE {{v} : v \in memory \ Sticky}

\* The counts after unlearning_callback on each id of out
Unlearned(c, out) ==
    IF out = {} THEN c ELSE Decrement(c, LabelOf[CHOOSE v \in out : TRUE])

-----------------------------------------------------------------------------
(* train                                                                   *)

InUse == {id[t] : t \in {u \in Thread : ~At(u, "idle")}}

\* A random id, so a new one; then unlearner_mutex_.
TrainLock(t, i) ==
    /\ Call(t, "train")
    /\ i \notin rows \cup memory \cup InUse
    /\ mutex = {}
    /\ mutex' = {t}
    /\ id' = [id EXCEPT ![t] = i]
    /\ Goto(t, "touch")
    /\ UNCHANGED <<data, tableLock, label, todo, copy>>

\* Mutant of TrainLockTable: the table is locked inside set_row only.
TrainTouchUnlocked(t) ==
    /\ At(t, "touch")
    /\ \E out \in Victims(id[t]) :
        /\ memory' = (memory \ out) \cup {id[t]}
        /\ rows' = rows \ out
        /\ counts' = Unlearned(counts, out)
    /\ Goto(t, "touched")
    /\ UNCHANGED <<locks, locals, history>>

\* The write lock of the table, and touch under both.
TrainLockTable(t) ==
    /\ At(t, "touch")
    /\ tableLock = {}
    /\ tableLock' = {t}
    /\ \/ \E out \in Victims(id[t]) :
            /\ memory' = (memory \ out) \cup {id[t]}
            /\ rows' = rows \ out
            /\ counts' = Unlearned(counts, out)
            /\ Goto(t, "touched")
       \/ /\ Victims(id[t]) = {}
          /\ Goto(t, "refused")
          /\ UNCHANGED data
    /\ UNCHANGED <<mutex, locals, history>>

\* Mutant of TrainUnlock: the refusal is ignored.
TrainUnlockAnyway(t) ==
    /\ At(t, "touched") \/ At(t, "refused")
    /\ mutex' = mutex \ {t}
    /\ tableLock' = tableLock \ {t}
    /\ Goto(t, "set_row")
    /\ UNCHANGED <<data, locals, history>>

\* Both locks are released: the row is set, or the exception leaves train.
TrainUnlock(t) ==
    /\ At(t, "touched") \/ At(t, "refused")
    /\ mutex' = mutex \ {t}
    /\ tableLock' = tableLock \ {t}
    /\ Goto(t, IF At(t, "touched") THEN "set_row" ELSE "idle")
    /\ UNCHANGED <<data, locals, history>>

\* nearest_neighbor_engine_->set_row
TrainSetRow(t) ==
    /\ At(t, "set_row") /\ tableLock = {}
    /\ rows' = rows \cup {id[t]}
    /\ Goto(t, "add")
    /\ UNCHANGED <<memory, counts, locks, locals, history>>

\* labels::add, its first lock: nothing to do if the label is there.
AddLookup(t) ==
    /\ At(t, "add")
    /\ Goto(t, IF LabelOf[id[t]] \in DOMAIN counts THEN "increment" ELSE "add_new")
    /\ UNCHANGED <<data, locks, locals, history>>

\* labels::add, its second lock
AddNew(t) ==
    /\ At(t, "add_new")
    /\ counts' = [With(counts, LabelOf[id[t]], 0) EXCEPT ![LabelOf[id[t]]] = 0]
    /\ Goto(t, "increment")
    /\ UNCHANGED <<rows, memory, locks, locals, history>>

TrainIncrement(t) ==
    /\ At(t, "increment")
    /\ counts' = With(counts, LabelOf[id[t]], 1)
    /\ Goto(t, "idle")
    /\ UNCHANGED <<rows, memory, locks, locals, history>>

Train(t) ==
    \/ \E i \in Id : TrainLock(t, i)
    \/ TrainLockTable(t)
    \/ TrainUnlock(t)
    \/ TrainSetRow(t)
    \/ AddLookup(t)
    \/ AddNew(t)
    \/ TrainIncrement(t)

-----------------------------------------------------------------------------
(* delete_label                                                            *)

\* labels_.erase; a label that is not there ends the call.
DeleteErase(t, l) ==
    /\ Call(t, "delete")
    /\ l \in DOMAIN counts
    /\ counts' = Without(counts, l)
    /\ label' = [label EXCEPT ![t] = l]
    /\ Goto(t, "delete")
    /\ UNCHANGED <<rows, memory, locks, id, todo, copy>>

DeleteLock(t) ==
    /\ At(t, "delete") /\ tableLock = {}
    /\ tableLock' = {t}
    /\ todo' = [todo EXCEPT ![t] = {i \in rows : LabelOf[i] = label[t]}]
    /\ Goto(t, "delete_row")
    /\ UNCHANGED <<data, mutex, id, label, copy, history>>

DeleteRow(t, i) ==
    /\ At(t, "delete_row")
    /\ i \in todo[t]
    /\ rows' = rows \ {i}
    /\ todo' = [todo EXCEPT ![t] = @ \ {i}]
    /\ id' = [id EXCEPT ![t] = i]
    /\ Goto(t, "forget")
    /\ UNCHANGED <<memory, counts, locks, label, copy, history>>

\* Mutant of DeleteForget: the unlearner is not told.
DeleteForgetNot(t) ==
    /\ At(t, "forget")
    /\ Goto(t, "delete_row")
    /\ UNCHANGED <<data, locks, locals, history>>

\* unlearner_->remove under unlearner_mutex_, with the table still locked
DeleteForget(t) ==
    /\ At(t, "forget") /\ mutex = {}
    /\ memory' = memory \ {id[t]}
    /\ Goto(t, "delete_row")
    /\ UNCHANGED <<rows, counts, locks, locals, history>>

DeleteUnlock(t) ==
    /\ At(t, "delete_row") /\ todo[t] = {}
    /\ tableLock' = {}
    /\ Goto(t, "idle")
    /\ UNCHANGED <<data, mutex, locals, history>>

Delete(t) ==
    \/ \E l \in Label : DeleteErase(t, l)
    \/ DeleteLock(t)
    \/ \E i \in Id : DeleteRow(t, i)
    \/ DeleteForget(t)
    \/ DeleteUnlock(t)

-----------------------------------------------------------------------------
(* A push or put of MIX: rows of any ids, one set_row each, then updated() *)

PushBegin(t) ==
    /\ Call(t, "push")
    /\ Goto(t, "push")
    /\ UNCHANGED <<data, locks, locals>>

\* Mutant of PushRow: the unlearner's mutex is taken inside the table's lock.
PushRowMutex(t, i) ==
    \/ /\ At(t, "push") /\ tableLock = {}
       /\ tableLock' = {t}
       /\ id' = [id EXCEPT ![t] = i]
       /\ Goto(t, "forget")
       /\ UNCHANGED <<data, mutex, label, todo, copy, history>>
    \/ /\ At(t, "forget") /\ i = id[t] /\ mutex = {}
       /\ Goto(t, "pushed")
       /\ UNCHANGED <<data, locks, locals, history>>

\* column_table::set_row: the result of touch is not looked at.
PushRow(t, i) ==
    /\ At(t, "push") /\ tableLock = {}
    /\ tableLock' = {t}
    /\ \/ \E out \in Victims(i) :
            /\ memory' = (memory \ out) \cup {i}
            /\ rows' = (rows \ out) \cup {i}
            /\ counts' = Unlearned(counts, out)
       \/ /\ Victims(i) = {}
          /\ rows' = rows \cup {i}
          /\ UNCHANGED <<memory, counts>>
    /\ refused' = (refused \/ Victims(i) = {})
    /\ id' = [id EXCEPT ![t] = i]
    /\ Goto(t, "pushed")
    /\ UNCHANGED <<mutex, label, todo, copy, alone>>

PushUnlock(t) ==
    /\ At(t, "pushed")
    /\ tableLock' = {}
    /\ Goto(t, "push")
    /\ UNCHANGED <<data, mutex, locals, history>>

PushEnd(t) ==
    /\ At(t, "push")
    /\ Goto(t, "get_labels")
    /\ UNCHANGED <<data, locks, locals, history>>

\* regenerate_label_counter: the known labels, with no rows yet,
RegenLabels(t) ==
    /\ At(t, "get_labels")
    /\ copy' = [copy EXCEPT ![t] = [l \in DOMAIN counts |-> 0]]
    /\ Goto(t, "count")
    /\ UNCHANGED <<data, locks, id, label, todo, history>>

\* the rows counted under a read lock,
RegenCount(t) ==
    /\ At(t, "count") /\ tableLock = {}
    /\ copy' = [copy EXCEPT ![t] =
            [l \in DOMAIN copy[t] \cup {LabelOf[i] : i \in rows} |->
                Cardinality({i \in rows : LabelOf[i] = l}) % CountSize]]
    /\ Goto(t, "swap")
    /\ UNCHANGED <<data, locks, id, label, todo, history>>

\* and the counts replaced.
RegenSwap(t) ==
    /\ At(t, "swap")
    /\ counts' = copy[t]
    /\ copy' = [copy EXCEPT ![t] = NoCounts]
    /\ Goto(t, "idle")
    /\ UNCHANGED <<rows, memory, locks, id, label, todo, history>>

Push(t) ==
    \/ PushBegin(t)
    \/ \E i \in Id : PushRow(t, i)
    \/ PushUnlock(t)
    \/ PushEnd(t)
    \/ RegenLabels(t)
    \/ RegenCount(t)
    \/ RegenSwap(t)

-----------------------------------------------------------------------------
(* clear                                                                   *)

ClearTable(t) ==
    /\ Call(t, "clear")
    /\ tableLock = {}
    /\ rows' = {}
    /\ Goto(t, "clear_labels")
    /\ UNCHANGED <<memory, counts, locks, locals>>

ClearLabels(t) ==
    /\ At(t, "clear_labels")
    /\ counts' = NoCounts
    /\ Goto(t, "clear_unlearner")
    /\ UNCHANGED <<rows, memory, locks, locals, history>>

ClearUnlearner(t) ==
    /\ At(t, "clear_unlearner") /\ mutex = {}
    /\ mutex' = {t}
    /\ memory' = {}
    /\ Goto(t, "cleared")
    /\ UNCHANGED <<rows, counts, tableLock, locals, history>>

ClearUnlock(t) ==
    /\ At(t, "cleared")
    /\ mutex' = {}
    /\ Goto(t, "idle")
    /\ UNCHANGED <<data, tableLock, locals, history>>

Clear(t) == ClearTable(t) \/ ClearLabels(t) \/ ClearUnlearner(t) \/ ClearUnlock(t)

-----------------------------------------------------------------------------
Next == \E t \in Thread : Train(t) \/ Delete(t) \/ Push(t) \/ Clear(t)

Spec == Init /\ [][Next]_vars

AtRest == \A t \in Thread : At(t, "idle")

\* The locks a thread waits for: what its next step asks for and has not got.
WantsMutex(t) == At(t, "forget") \/ At(t, "clear_unlearner")
WantsTable(t) == \E p \in {"touch", "set_row", "delete", "push", "count"} : At(t, p)

(***************************************************************************)
(* No two threads wait for each other's lock (release 0.3.4, "fix deadlock *)
(* in nearest_neighbor-based classifier").                                 *)
(***************************************************************************)
NoWaitCycle ==
    \A t \in mutex, u \in tableLock : ~(WantsTable(t) /\ WantsMutex(u))

\* Inside a function of the unlearner, or about to leave it
InUnlearner(t) == \E p \in {"touched", "refused", "pushed", "cleared"} : At(t, p)

(***************************************************************************)
(* The unlearner, which has no lock, is used by one thread at a time:      *)
(* train relies on one lock to keep other trains out and on the other to   *)
(* keep MIX out.                                                           *)
(***************************************************************************)
UnlearnerAlone == \A t, u \in Thread : InUnlearner(t) /\ InUnlearner(u) => t = u

\* The locks suffice: no deadlock, and the unlearner is safe.
LocksSuffice == NoWaitCycle /\ UnlearnerAlone

(***************************************************************************)
(* An id in memory has its row, or the call that is to set the row, forget *)
(* the id or clear the unlearner is still running: no place of the         *)
(* unlearner is taken for good by a row that does not exist.               *)
(***************************************************************************)
MemoryHasRows ==
    \A i \in memory \ rows : \E t \in Thread :
        \/ id[t] = i /\ \E p \in {"touched", "set_row", "forget"} : At(t, p)
        \/ At(t, "clear_labels") \/ At(t, "clear_unlearner")

(***************************************************************************)
(* When nothing runs, the unlearner knows every row, or the row is never   *)
(* unlearned; and the table is no larger than it allows                    *)
(* (unlearner_base.hpp:31, "to keep the model size up to constant").  Two  *)
(* things break it: another train unlearns the id between touch and        *)
(* set_row of its train, and set_row ignores a refusal.                    *)
(***************************************************************************)
RowsKnown ==
    AtRest /\ alone /\ ~refused => rows = memory /\ Cardinality(rows) <= MaxSize

CountsAreRows ==
    \A l \in Label :
        Cardinality({i \in rows : LabelOf[i] = l}) =
            IF l \in DOMAIN counts THEN counts[l] ELSE 0

(***************************************************************************)
(* When nothing runs, the count of every label is the number of its rows,  *)
(* after any calls that did not overlap.                                   *)
(***************************************************************************)
CountsMatchRows == AtRest /\ alone => CountsAreRows

\* Rows, counts of labels and the unlearner fit each other.
RowsAreCounted == TypeOK /\ RowsKnown /\ CountsMatchRows /\ MemoryHasRows

(***************************************************************************)
(* The same when calls overlap (release 0.2.7, "NN-based classifier does   *)
(* not take lock on label manipulation").                                  *)
(***************************************************************************)
CountsSurviveThreads == AtRest => CountsAreRows
=============================================================================
