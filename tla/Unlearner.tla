----------------------------- MODULE Unlearner -----------------------------
(***************************************************************************)
(* What unlearner_base promises to a learner: it remembers at most MaxSize *)
(* ids, and makes room for a new one by unlearning exactly one id that is  *)
(* not sticky, or refuses.  lru_unlearner and random_unlearner implement   *)
(* this; which id is unlearned is their choice.                            *)
(***************************************************************************)
EXTENDS Naturals, FiniteSets

CONSTANTS Id,     \* ids of rows or labels
          Sticky, \* ids that match the sticky pattern
          MaxSize \* the configured max_size

VARIABLES memory, \* the ids in memory
          last    \* the last call: its id, its result and what it unlearned

vars == <<memory, last>>

Call(id, ok, gone) == [id |-> id, ok |-> ok, gone |-> gone]
NoCall == Call({}, TRUE, {})

Init == memory = {} /\ last = NoCall

Known(id) ==
    /\ id \in memory
    /\ memory' = memory
    /\ last' = Call(id, TRUE, {})

Room(id) ==
    /\ id \notin memory
    /\ Cardinality(memory) < MaxSize
    /\ memory' = memory \cup {id}
    /\ last' = Call(id, TRUE, {})

Replace(id, old) ==
    /\ id \notin memory
    /\ Cardinality(memory) >= MaxSize
    /\ memory' = (memory \ {old}) \cup {id}
    /\ last' = Call(id, TRUE, {old})

Refuse(id) ==
    /\ id \notin memory
    /\ Cardinality(memory) >= MaxSize
    /\ memory \subseteq Sticky
    /\ memory' = memory
    /\ last' = Call(id, FALSE, {})

\* touch
Touch(id) ==
    \/ Known(id)
    \/ Room(id)
    \/ \E old \in memory \ Sticky : Replace(id, old)
    \/ Refuse(id)

\* remove: TRUE exactly if the id was in memory
Remove(id) ==
    /\ memory' = memory \ {id}
    /\ last' = Call(id, id \in memory, {})

Clear ==
    /\ memory' = {}
    /\ last' = NoCall

\* unpack: the memory of an unlearner of the same configuration
Load ==
    /\ memory' \in SUBSET Id
    /\ Cardinality(memory') <= MaxSize
    /\ last' = NoCall

Next ==
    \/ \E id \in Id : Touch(id) \/ Remove(id)
    \/ Clear
    \/ Load

Spec == Init /\ [][Next]_vars
=============================================================================
