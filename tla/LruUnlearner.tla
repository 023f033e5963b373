---------------------------- MODULE LruUnlearner ----------------------------
(***************************************************************************)
(* unlearner::lru_unlearner.  lru_ is a list with the most recently used   *)
(* id first; entry_map_ indexes it, here by the set of its keys, and       *)
(* erasing through an iterator is removing the id's old place in the list. *)
(* Sticky ids are kept apart and are in no order.                          *)
(***************************************************************************)
EXTENDS Naturals, FiniteSets, SequencesExt

CONSTANTS Id, Sticky, MaxSize

ASSUME SizeAssumption == MaxSize \in Nat \ {0}
ASSUME IdAssumption == IsFiniteSet(Id) /\ Sticky \subseteq Id

VARIABLES lru,        \* lru_
          entry_map,  \* the keys of entry_map_
          sticky_ids, \* sticky_ids_
          saved,      \* what pack wrote last
          last,       \* the last call: id, result, unlearned ids
          before      \* history: pairs of ids, the first touched before the second

vars == <<lru, entry_map, sticky_ids, saved, last, before>>

Empty == [lru |-> <<>>, sticky |-> {}]
Call(id, ok, gone) == [id |-> id, ok |-> ok, gone |-> gone]
NoCall == Call({}, TRUE, {})

Init ==
    /\ lru = <<>>
    /\ entry_map = {}
    /\ sticky_ids = {}
    /\ saved = Empty
    /\ last = NoCall
    /\ before = {}

exists_in_memory(id) == id \in entry_map \/ id \in sticky_ids

\* Mutant of can_touch: sticky ids do not know that they are in memory.
CanTouchForgets(id) == id \in entry_map \/ Cardinality(sticky_ids) < MaxSize

can_touch(id) == exists_in_memory(id) \/ Cardinality(sticky_ids) < MaxSize

\* id is now the one touched last; sticky ids are in no order.
Used(id) ==
    before' = IF id \in Sticky THEN before
              ELSE {p \in before : p[1] # id}
                     \cup {<<o, id>> : o \in Id \ (Sticky \cup {id})}

\* The order of use that a list stands for, its front being the latest.
OrderOf(list) ==
    UNION {{<<list[j], list[i]>> : j \in i + 1..Len(list)} : i \in DOMAIN list}

Oldest == lru[Len(lru)]

\* Where the iterator of an indexed id points to.
Place(id) == CHOOSE i \in DOMAIN lru : lru[i] = id

\* Mutant of Full: sticky ids are not counted.
FullOfEntries == Cardinality(entry_map) >= MaxSize

Full == Cardinality(entry_map) + Cardinality(sticky_ids) >= MaxSize

---------------------------------------------------------------------------
TouchSticky(id) ==
    /\ id \in Sticky
    /\ id \in sticky_ids
    /\ last' = Call(id, TRUE, {})
    /\ UNCHANGED <<lru, entry_map, sticky_ids>>

\* Mutant of TouchEntry: the order is not updated.
TouchEntryNoMove(id) ==
    /\ id \notin Sticky
    /\ id \in entry_map
    /\ last' = Call(id, TRUE, {})
    /\ UNCHANGED <<lru, entry_map, sticky_ids>>

TouchEntry(id) ==
    /\ id \notin Sticky
    /\ id \in entry_map
    /\ lru' = <<id>> \o RemoveAt(lru, Place(id))
    /\ last' = Call(id, TRUE, {})
    /\ UNCHANGED <<entry_map, sticky_ids>>

\* Whether the touched id is new to its table.
New(id) == IF id \in Sticky THEN id \notin sticky_ids ELSE id \notin entry_map

\* Mutant of Register: sticky ids are registered like the others.
RegisterEntry(id, list, entries) ==
    /\ lru' = <<id>> \o list
    /\ entry_map' = entries \cup {id}
    /\ UNCHANGED sticky_ids

\* Register the id, the list and its index being as given.
Register(id, list, entries) ==
    IF id \in Sticky
    THEN /\ sticky_ids' = sticky_ids \cup {id}
         /\ lru' = list
         /\ entry_map' = entries
    ELSE /\ lru' = <<id>> \o list
         /\ entry_map' = entries \cup {id}
         /\ UNCHANGED sticky_ids

TouchRoom(id) ==
    /\ New(id)
    /\ ~Full
    /\ Register(id, lru, entry_map)
    /\ last' = Call(id, TRUE, {})

TouchEvict(id) ==
    /\ New(id)
    /\ Full
    /\ entry_map # {}
    /\ Register(id, SubSeq(lru, 1, Len(lru) - 1), entry_map \ {Oldest})
    /\ last' = Call(id, TRUE, {Oldest})

TouchRefused(id) ==
    /\ New(id)
    /\ Full
    /\ entry_map = {}
    /\ last' = Call(id, FALSE, {})
    /\ UNCHANGED <<lru, entry_map, sticky_ids>>

\* touch
touch(id) ==
    /\ TouchSticky(id) \/ TouchEntry(id) \/ TouchRoom(id)
         \/ TouchEvict(id) \/ TouchRefused(id)
    /\ Used(id)
    /\ UNCHANGED saved

\* remove
remove(id) ==
    /\ lru' = IF id \in entry_map THEN RemoveAt(lru, Place(id)) ELSE lru
    /\ entry_map' = entry_map \ {id}
    /\ sticky_ids' = IF id \in entry_map THEN sticky_ids ELSE sticky_ids \ {id}
    /\ last' = Call(id, exists_in_memory(id), {})
    /\ UNCHANGED <<saved, before>>

\* clear
clear ==
    /\ lru' = <<>>
    /\ entry_map' = {}
    /\ sticky_ids' = {}
    /\ last' = NoCall
    /\ UNCHANGED <<saved, before>>

pack ==
    /\ saved' = [lru |-> lru, sticky |-> sticky_ids]
    /\ UNCHANGED <<lru, entry_map, sticky_ids, last, before>>

\* Mutant of unpack: the index is not rebuilt.
UnpackNoRebuild ==
    /\ lru' = saved.lru
    /\ sticky_ids' = saved.sticky
    /\ last' = NoCall
    /\ before' = OrderOf(saved.lru)
    /\ UNCHANGED <<entry_map, saved>>

\* unpack, then rebuild_entry_map; the order of use is the list's again
unpack ==
    /\ lru' = saved.lru
    /\ sticky_ids' = saved.sticky
    /\ entry_map' = ToSet(saved.lru)
    /\ last' = NoCall
    /\ before' = OrderOf(saved.lru)
    /\ UNCHANGED saved

Next ==
    \/ \E id \in Id : touch(id) \/ remove(id)
    \/ clear
    \/ pack
    \/ unpack

Spec == Init /\ [][Next]_vars

---------------------------------------------------------------------------
\* Type invariant.
TypeOK ==
    /\ lru \in Seq(Id \ Sticky)
    /\ entry_map \subseteq Id \ Sticky
    /\ sticky_ids \subseteq Sticky
    /\ saved.lru \in Seq(Id \ Sticky) /\ saved.sticky \subseteq Sticky
    /\ before \subseteq Id \X Id

\* The list has every indexed id exactly once.
ListMatchesMap == IsInjective(lru) /\ ToSet(lru) = entry_map

\* The list is in order of use: what is nearer to the front was touched later,
\* so the id at the back is the one to unlearn.
ListInOrder ==
    \A i, j \in DOMAIN lru : i < j => <<lru[j], lru[i]>> \in before

\* can_touch tells beforehand whether touch will succeed (unlearner_base.hpp:
\* the limit is not reached or some id is available for unlearning).
CanTouchIsRight ==
    [][\A id \in Id : touch(id) => last'.ok = can_touch(id)]_vars

U == INSTANCE Unlearner WITH memory <- entry_map \cup sticky_ids

\* lru_unlearner keeps the promise of unlearner_base.
ImplementsUnlearner == U!Spec
=============================================================================
