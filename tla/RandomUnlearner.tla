-------------------------- MODULE RandomUnlearner ---------------------------
(***************************************************************************)
(* unlearner::random_unlearner: ids_ is a vector of the ids in memory,     *)
(* id_map_ their positions in it; the id to unlearn is drawn at random,    *)
(* which is any choice here.  Positions count from 1.                      *)
(***************************************************************************)
EXTENDS Naturals, FiniteSets, Sequences

CONSTANTS Id,     \* ids of rows or labels
          MaxSize \* the configured max_size, at least 1

VARIABLES ids,    \* ids_
          id_map, \* id_map_
          saved,  \* what pack wrote last
          last    \* the last call: id, result, unlearned ids

vars == <<ids, id_map, saved, last>>

Empty == [ids |-> <<>>, id_map |-> [id \in {} |-> 0]]
Call(id, ok, gone) == [id |-> id, ok |-> ok, gone |-> gone]
NoCall == Call({}, TRUE, {})

Init ==
    /\ ids = <<>>
    /\ id_map = Empty.id_map
    /\ saved = Empty
    /\ last = NoCall

exists_in_memory(id) == id \in DOMAIN id_map

\* Mutant of Full: one id too many.
FullTooLate == Cardinality(DOMAIN id_map) > MaxSize

Full == Cardinality(DOMAIN id_map) >= MaxSize

\* id_map_ with id at pos, and without id.
Placed(map, id, pos) ==
    [i \in DOMAIN map \cup {id} |-> IF i = id THEN pos ELSE map[i]]
Without(map, id) == [i \in DOMAIN map \ {id} |-> map[i]]

---------------------------------------------------------------------------
TouchKnown(id) ==
    /\ exists_in_memory(id)
    /\ last' = Call(id, TRUE, {})
    /\ UNCHANGED <<ids, id_map>>

TouchRoom(id) ==
    /\ ~exists_in_memory(id)
    /\ ~Full
    /\ ids' = Append(ids, id)
    /\ id_map' = Placed(id_map, id, Len(ids) + 1)
    /\ last' = Call(id, TRUE, {})

TouchReplace(id, pos) ==
    /\ ~exists_in_memory(id)
    /\ Full
    /\ ids' = [ids EXCEPT ![pos] = id]
    /\ id_map' = Placed(Without(id_map, ids[pos]), id, pos)
    /\ last' = Call(id, TRUE, {ids[pos]})

\* touch
touch(id) ==
    /\ TouchKnown(id) \/ TouchRoom(id) \/ \E pos \in DOMAIN ids : TouchReplace(id, pos)
    /\ UNCHANGED saved

Back == ids[Len(ids)]
Shortened == SubSeq(ids, 1, Len(ids) - 1)

\* Mutant of Taken: the last id is moved and keeps its old position.
TakenKeepsBack(id) ==
    IF id = Back
    THEN [ids |-> Shortened, id_map |-> Without(id_map, id)]
    ELSE [ids |-> [Shortened EXCEPT ![id_map[id]] = Back], id_map |-> Without(id_map, id)]

\* The vector and the map without id, the last id taking its place.
Taken(id) ==
    IF id = Back
    THEN [ids |-> Shortened, id_map |-> Without(id_map, id)]
    ELSE [ids |-> [Shortened EXCEPT ![id_map[id]] = Back],
          id_map |-> Placed(Without(id_map, id), Back, id_map[id])]

\* remove
remove(id) ==
    /\ IF exists_in_memory(id)
       THEN ids' = Taken(id).ids /\ id_map' = Taken(id).id_map
       ELSE UNCHANGED <<ids, id_map>>
    /\ last' = Call(id, exists_in_memory(id), {})
    /\ UNCHANGED saved

clear ==
    /\ ids' = <<>>
    /\ id_map' = Empty.id_map
    /\ last' = NoCall
    /\ UNCHANGED saved

pack ==
    /\ saved' = [ids |-> ids, id_map |-> id_map]
    /\ UNCHANGED <<ids, id_map, last>>

unpack ==
    /\ ids' = saved.ids
    /\ id_map' = saved.id_map
    /\ last' = NoCall
    /\ UNCHANGED saved

Next ==
    \/ \E id \in Id : touch(id) \/ remove(id)
    \/ clear
    \/ pack
    \/ unpack

Spec == Init /\ [][Next]_vars

---------------------------------------------------------------------------
\* Type invariant.
TypeOK ==
    /\ ids \in Seq(Id)
    /\ DOMAIN id_map \subseteq Id /\ \A id \in DOMAIN id_map : id_map[id] \in Nat \ {0}
    /\ saved.ids \in Seq(Id) /\ DOMAIN saved.id_map \subseteq Id

\* The map finds exactly the ids of the vector, each at its place.
MapMatchesIds ==
    /\ \A id \in DOMAIN id_map : id_map[id] \in DOMAIN ids /\ ids[id_map[id]] = id
    /\ \A pos \in DOMAIN ids : ids[pos] \in DOMAIN id_map /\ id_map[ids[pos]] = pos

U == INSTANCE Unlearner WITH Sticky <- {}, memory <- DOMAIN id_map

\* random_unlearner keeps the promise of unlearner_base, with no sticky ids.
ImplementsUnlearner == U!Spec
=============================================================================
