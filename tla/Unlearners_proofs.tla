-------------------------- MODULE Unlearners_proofs --------------------------
(***************************************************************************)
(* Proofs that lru_unlearner and random_unlearner keep the promise that    *)
(* unlearner_base makes (Unlearner): every call of theirs is a call of the *)
(* promise on the set of ids in memory.                                    *)
(***************************************************************************)
EXTENDS LruUnlearner, TLAPS, FiniteSetTheorems, SequenceTheorems

---------------------------------------------------------------------------
(* Lists without repetition, one element taken out or put in front.        *)

InOrder(list, order) ==
    \A i, j \in DOMAIN list : i < j => <<list[j], list[i]>> \in order

\* t is s without the place i.
IsShort(t, s, i) ==
    /\ Len(t) = Len(s) - 1
    /\ \A j \in 1..Len(t) : t[j] = IF j < i THEN s[j] ELSE s[j + 1]

LEMMA ShortList ==
    ASSUME NEW S, NEW s \in Seq(S), NEW t \in Seq(S), IsInjective(s),
           NEW i \in DOMAIN s, IsShort(t, s, i)
    PROVE  /\ IsInjective(t)
           /\ ToSet(t) = ToSet(s) \ {s[i]}
           /\ \A order : InOrder(s, order) => InOrder(t, order)
<1>1. /\ DOMAIN s = 1..Len(s) /\ DOMAIN t = 1..Len(t) /\ Len(s) \in Nat /\ Len(t) \in Nat
      /\ Len(t) = Len(s) - 1 /\ i \in 1..Len(s)
  BY LenProperties DEF IsShort
<1> DEFINE old(j) == IF j < i THEN j ELSE j + 1
<1>2. \A j \in 1..Len(t) : old(j) \in 1..Len(s) /\ old(j) # i /\ t[j] = s[old(j)]
  BY <1>1 DEF IsShort
<1>3. \A j, k \in 1..Len(t) : j < k => old(j) < old(k)
  BY <1>1
<1>4. \A j \in 1..Len(s) : j # i => \E k \in 1..Len(t) : old(k) = j
  <2> SUFFICES ASSUME NEW j \in 1..Len(s), j # i PROVE \E k \in 1..Len(t) : old(k) = j
    OBVIOUS
  <2>1. CASE j < i
    BY <1>1, <2>1
  <2>2. CASE j > i
    <3>1. j - 1 \in 1..Len(t) /\ old(j - 1) = j
      BY <1>1, <2>2
    <3>2. QED
      BY <3>1
  <2>3. QED
    BY <1>1, <2>1, <2>2
<1>5. \A j, k \in 1..Len(s) : s[j] = s[k] => j = k
  BY <1>1 DEF IsInjective
<1> HIDE DEF old
<1>6. ASSUME NEW j \in 1..Len(t), NEW k \in 1..Len(t), t[j] = t[k] PROVE j = k
  <2>1. old(j) = old(k) /\ old(j) \in Int /\ old(k) \in Int
    BY <1>1, <1>2, <1>5, <1>6
  <2>2. ~ (j < k) /\ ~ (k < j)
    BY <1>3, <2>1
  <2>3. QED
    BY <1>1, <2>2
<1>7. IsInjective(t)
  BY <1>1, <1>6 DEF IsInjective
<1>8. ToSet(t) = ToSet(s) \ {s[i]}
  <2>1. \A j \in 1..Len(t) : t[j] \in ToSet(s) \ {s[i]}
    BY <1>1, <1>2, <1>5 DEF ToSet
  <2>2. \A j \in 1..Len(s) : j # i => s[j] \in ToSet(t)
    BY <1>1, <1>2, <1>4 DEF ToSet
  <2>3. QED
    BY <1>1, <2>1, <2>2 DEF ToSet
<1>9. ASSUME NEW order, InOrder(s, order) PROVE InOrder(t, order)
  <2> SUFFICES ASSUME NEW j \in 1..Len(t), NEW k \in 1..Len(t), j < k
               PROVE  <<t[k], t[j]>> \in order
    BY <1>1 DEF InOrder
  <2>1. old(j) < old(k) /\ old(j) \in 1..Len(s) /\ old(k) \in 1..Len(s)
    BY <1>2, <1>3
  <2>2. <<s[old(k)], s[old(j)]>> \in order
    BY <1>1, <1>9, <2>1 DEF InOrder
  <2>3. QED
    BY <1>2, <2>2
<1>10. QED
  BY <1>7, <1>8, <1>9

LEMMA RemoveAtIsShort ==
    ASSUME NEW S, NEW s \in Seq(S), NEW i \in DOMAIN s
    PROVE  RemoveAt(s, i) \in Seq(S) /\ IsShort(RemoveAt(s, i), s, i)
<1>1. Len(s) \in Nat /\ DOMAIN s = 1..Len(s) /\ i \in 1..Len(s) /\ \A j \in 1..Len(s) : s[j] \in S
  BY LenProperties, ElementOfSeq
<1> DEFINE a == SubSeq(s, 1, i - 1)
           b == SubSeq(s, i + 1, Len(s))
<1>2. a \in Seq(S) /\ Len(a) = i - 1 /\ \A j \in 1..(i - 1) : a[j] = s[j]
  <2>1. 1 \in Int /\ i - 1 \in Int /\ \A j \in 1..(i - 1) : s[j] \in S
    BY <1>1
  <2>2. /\ a \in Seq(S) /\ Len(a) = IF 1 <= i - 1 THEN (i - 1) - 1 + 1 ELSE 0
        /\ \A j \in 1..((i - 1) - 1 + 1) : a[j] = s[1 + j - 1]
    <3>1. PICK x, y : x = 1 /\ y = i - 1
      OBVIOUS
    <3>2. /\ SubSeq(s, x, y) \in Seq(S) /\ Len(SubSeq(s, x, y)) = IF x <= y THEN y - x + 1 ELSE 0
          /\ \A j \in 1..(y - x + 1) : SubSeq(s, x, y)[j] = s[x + j - 1]
      <4>1. x \in Int /\ y \in Int /\ \A j \in x..y : s[j] \in S
        BY <2>1, <3>1
      <4>2. QED
        BY <4>1, SubSeqProperties
    <3>3. QED
      BY <3>1, <3>2
  <2>3. QED
    BY <1>1, <2>2
<1>3. /\ b \in Seq(S) /\ Len(b) = Len(s) - i
      /\ \A j \in 1..(Len(s) - i) : b[j] = s[i + j]
  <2>1. PICK x, y : x = i + 1 /\ y = Len(s)
    OBVIOUS
  <2>2. /\ SubSeq(s, x, y) \in Seq(S) /\ Len(SubSeq(s, x, y)) = IF x <= y THEN y - x + 1 ELSE 0
        /\ \A j \in 1..(y - x + 1) : SubSeq(s, x, y)[j] = s[x + j - 1]
    <3>1. x \in Int /\ y \in Int /\ \A j \in x..y : s[j] \in S
      BY <1>1, <2>1
    <3>2. QED
      BY <3>1, SubSeqProperties
  <2>3. \A j \in 1..(Len(s) - i) : b[j] = s[(i + 1) + j - 1] /\ (i + 1) + j - 1 = i + j
    BY <1>1, <2>1, <2>2
  <2>4. QED
    BY <1>1, <2>1, <2>2, <2>3
<1>4. RemoveAt(s, i) = a \o b
  BY DEF RemoveAt
<1> HIDE DEF a, b
<1>5. /\ a \o b \in Seq(S) /\ Len(a \o b) = Len(a) + Len(b)
      /\ \A j \in 1..(Len(a) + Len(b)) : (a \o b)[j] = IF j <= Len(a) THEN a[j] ELSE b[j - Len(a)]
  BY <1>2, <1>3, ConcatProperties
<1>6. Len(a \o b) = Len(s) - 1
  BY <1>1, <1>2, <1>3, <1>5
<1>7. ASSUME NEW j \in 1..(Len(s) - 1) PROVE (a \o b)[j] = IF j < i THEN s[j] ELSE s[j + 1]
  <2>1. j \in 1..(Len(a) + Len(b)) /\ j \in Int
    BY <1>1, <1>2, <1>3
  <2>2. CASE j < i
    BY <1>1, <1>2, <1>5, <2>1, <2>2
  <2>3. CASE j >= i
    <3>1. j - (i - 1) \in 1..(Len(s) - i) /\ i + (j - (i - 1)) = j + 1
      BY <1>1, <2>3
    <3>2. b[j - (i - 1)] = s[j + 1]
      BY <1>3, <3>1
    <3>3. QED
      BY <1>1, <1>2, <1>5, <2>1, <2>3, <3>2
  <2>4. QED
    BY <1>1, <2>1, <2>2, <2>3
<1>8. QED
  BY <1>4, <1>5, <1>6, <1>7 DEF IsShort

\* x in front of a list that has it not.
LEMMA PushedFront ==
    ASSUME NEW S, NEW t \in Seq(S), IsInjective(t), NEW x \in S, x \notin ToSet(t)
    PROVE  /\ <<x>> \o t \in Seq(S) /\ IsInjective(<<x>> \o t)
           /\ ToSet(<<x>> \o t) = ToSet(t) \cup {x}
           /\ \A order : InOrder(t, order) /\ (\A o \in ToSet(t) : <<o, x>> \in order)
                  => InOrder(<<x>> \o t, order)
<1>1. Len(t) \in Nat /\ DOMAIN t = 1..Len(t) /\ \A j \in 1..Len(t) : t[j] \in ToSet(t)
  BY LenProperties DEF ToSet
<1> DEFINE u == <<x>> \o t
<1>2. <<x>> \in Seq(S) /\ Len(<<x>>) = 1 /\ <<x>>[1] = x
  OBVIOUS
<1>3. /\ u \in Seq(S) /\ Len(u) = 1 + Len(t)
      /\ \A j \in 1..(1 + Len(t)) : u[j] = IF j <= 1 THEN <<x>>[j] ELSE t[j - 1]
  <2>1. PICK f \in Seq(S) : f = <<x>>
    BY <1>2
  <2>2. /\ f \o t \in Seq(S) /\ Len(f \o t) = Len(f) + Len(t)
        /\ \A j \in 1..(Len(f) + Len(t)) : (f \o t)[j] = IF j <= Len(f) THEN f[j] ELSE t[j - Len(f)]
    BY ConcatProperties
  <2>3. QED
    BY <1>2, <2>1, <2>2
<1> HIDE DEF u
<1>4. DOMAIN u = 1..(1 + Len(t))
  BY <1>3, LenProperties
<1>5. u[1] = x /\ \A j \in 2..(1 + Len(t)) : j - 1 \in 1..Len(t) /\ u[j] = t[j - 1]
  BY <1>1, <1>2, <1>3
<1>6. \A j \in 1..Len(t) : j + 1 \in 2..(1 + Len(t)) /\ u[j + 1] = t[j]
  BY <1>1, <1>5
<1>7. \A j \in 1..(1 + Len(t)) : j = 1 \/ j \in 2..(1 + Len(t))
  BY <1>1
<1>8. ToSet(u) = ToSet(t) \cup {x}
  <2>1. \A j \in 1..(1 + Len(t)) : u[j] \in ToSet(t) \cup {x}
    BY <1>1, <1>5, <1>7
  <2>2. x \in ToSet(u)
    BY <1>1, <1>4, <1>5 DEF ToSet
  <2>3. \A j \in 1..Len(t) : t[j] \in ToSet(u)
    <3>1. \A j \in 1..Len(t) : j + 1 \in DOMAIN u
      BY <1>1, <1>4
    <3>2. QED
      BY <1>6, <3>1 DEF ToSet
  <2>4. QED
    BY <1>1, <1>4, <2>1, <2>2, <2>3 DEF ToSet
<1>9. IsInjective(u)
  <2> SUFFICES ASSUME NEW j \in 1..(1 + Len(t)), NEW k \in 1..(1 + Len(t)), u[j] = u[k]
               PROVE  j = k
    BY <1>4 DEF IsInjective
  <2>1. CASE j = 1
    BY <1>1, <1>5, <1>7, <2>1
  <2>2. CASE k = 1
    BY <1>1, <1>5, <1>7, <2>2
  <2>3. CASE j \in 2..(1 + Len(t)) /\ k \in 2..(1 + Len(t))
    <3>1. j - 1 = k - 1
      BY <1>1, <1>5, <2>3 DEF IsInjective
    <3>2. QED
      BY <3>1
  <2>4. QED
    BY <1>7, <2>1, <2>2, <2>3
<1>10. ASSUME NEW order, InOrder(t, order), \A o \in ToSet(t) : <<o, x>> \in order
       PROVE  InOrder(u, order)
  <2> SUFFICES ASSUME NEW j \in 1..(1 + Len(t)), NEW k \in 1..(1 + Len(t)), j < k
               PROVE  <<u[k], u[j]>> \in order
    BY <1>4 DEF InOrder
  <2>1. k \in 2..(1 + Len(t))
    BY <1>1
  <2>2. CASE j = 1
    BY <1>1, <1>5, <1>10, <2>1, <2>2
  <2>3. CASE j \in 2..(1 + Len(t))
    <3>1. j - 1 \in 1..Len(t) /\ k - 1 \in 1..Len(t) /\ j - 1 < k - 1
      BY <1>5, <2>1, <2>3
    <3>2. <<t[k - 1], t[j - 1]>> \in order
      BY <1>1, <1>10, <3>1 DEF InOrder
    <3>3. QED
      BY <1>5, <2>1, <2>3, <3>2
  <2>4. QED
    BY <1>7, <2>2, <2>3
<1>11. QED
  BY <1>3, <1>8, <1>9, <1>10 DEF u

---------------------------------------------------------------------------
(* lru_unlearner: the list has every indexed id once, and the ids in memory*)
(* are never more than max_size, also in what was saved.                   *)

Listed(list, entries) ==
    list \in Seq(Id \ Sticky) /\ IsInjective(list) /\ ToSet(list) = entries

Fits(entries, sticky) ==
    /\ sticky \subseteq Sticky
    /\ Cardinality(entries) + Cardinality(sticky) <= MaxSize

IInv ==
    /\ Listed(lru, entry_map) /\ Fits(entry_map, sticky_ids)
    /\ Listed(saved.lru, ToSet(saved.lru)) /\ Fits(ToSet(saved.lru), saved.sticky)

\* Ids in memory that are sticky and that are not do not overlap.
LEMMA MemorySize ==
    ASSUME NEW E \in SUBSET (Id \ Sticky), NEW T \in SUBSET Sticky
    PROVE  /\ IsFiniteSet(E) /\ IsFiniteSet(T) /\ Cardinality(E) \in Nat /\ Cardinality(T) \in Nat
           /\ Cardinality(E \cup T) = Cardinality(E) + Cardinality(T)
<1>1. IsFiniteSet(E) /\ IsFiniteSet(T)
  <2>1. E \in SUBSET Id /\ T \in SUBSET Id /\ IsFiniteSet(Id)
    BY IdAssumption
  <2>2. QED
    BY <2>1, FS_Subset
<1>2. E \cap T = {} /\ Cardinality({}) = 0
  BY FS_EmptySet
<1>3. Cardinality(E) \in Nat /\ Cardinality(T) \in Nat
  BY <1>1, FS_CardinalityType
<1>4. Cardinality(E \cup T) = Cardinality(E) + Cardinality(T) - Cardinality(E \cap T)
  BY <1>1, FS_Union
<1>5. Cardinality(E \cup T) = Cardinality(E) + Cardinality(T) - 0
  BY <1>2, <1>4
<1>6. PICK p \in Nat, q \in Nat : p = Cardinality(E) /\ q = Cardinality(T)
  BY <1>3
<1>7. p + q - 0 = p + q
  OBVIOUS
<1>8. QED
  BY <1>1, <1>3, <1>5, <1>6, <1>7

LEMMA ListedSet ==
    ASSUME NEW list, NEW entries, Listed(list, entries)
    PROVE  /\ entries \in SUBSET (Id \ Sticky) /\ list \in Seq(Id \ Sticky)
           /\ DOMAIN list = 1..Len(list) /\ Len(list) \in Nat
           /\ \A i \in DOMAIN list : list[i] \in entries
           /\ entries # {} => Len(list) \in DOMAIN list
           /\ \A id \in entries : \E i \in DOMAIN list : list[i] = id
<1>1. list \in Seq(Id \ Sticky) /\ entries = {list[i] : i \in DOMAIN list}
  BY DEF Listed, ToSet
<1>2. DOMAIN list = 1..Len(list) /\ Len(list) \in Nat /\ \A i \in 1..Len(list) : list[i] \in Id \ Sticky
  BY <1>1, LenProperties, ElementOfSeq
<1>3. entries # {} => Len(list) \in DOMAIN list
  BY <1>1, <1>2
<1>4. entries \in SUBSET (Id \ Sticky)
  BY <1>1, <1>2
<1>5. \A i \in DOMAIN list : list[i] \in entries
  BY <1>1
<1>6. \A id \in entries : \E i \in DOMAIN list : list[i] = id
  BY <1>1
<1>7. QED
  BY <1>1, <1>2, <1>3, <1>4, <1>5, <1>6

\* Erasing an indexed id from the list and from the index.
LEMMA ErasedIsListed ==
    ASSUME Listed(lru, entry_map), NEW id \in entry_map
    PROVE  /\ Listed(RemoveAt(lru, Place(id)), entry_map \ {id})
           /\ \A order : InOrder(lru, order) => InOrder(RemoveAt(lru, Place(id)), order)
<1>1. Place(id) \in DOMAIN lru /\ lru[Place(id)] = id
  BY ListedSet DEF Place
<1>2. lru \in Seq(Id \ Sticky) /\ IsInjective(lru) /\ ToSet(lru) = entry_map
  BY DEF Listed
<1>3. PICK i \in DOMAIN lru : i = Place(id)
  BY <1>1
<1>4. RemoveAt(lru, i) \in Seq(Id \ Sticky) /\ IsShort(RemoveAt(lru, i), lru, i)
  BY <1>2, RemoveAtIsShort
<1>5. /\ IsInjective(RemoveAt(lru, i)) /\ ToSet(RemoveAt(lru, i)) = ToSet(lru) \ {lru[i]}
      /\ \A order : InOrder(lru, order) => InOrder(RemoveAt(lru, i), order)
  BY <1>2, <1>4, ShortList
<1>6. QED
  BY <1>1, <1>2, <1>3, <1>4, <1>5 DEF Listed

\* Erasing the id at the back.
LEMMA PoppedIsListed ==
    ASSUME Listed(lru, entry_map), entry_map # {}
    PROVE  /\ Oldest \in entry_map
           /\ Listed(SubSeq(lru, 1, Len(lru) - 1), entry_map \ {Oldest})
           /\ \A order : InOrder(lru, order) => InOrder(SubSeq(lru, 1, Len(lru) - 1), order)
<1>1. /\ lru \in Seq(Id \ Sticky) /\ Len(lru) \in DOMAIN lru /\ Oldest \in entry_map
      /\ DOMAIN lru = 1..Len(lru) /\ Len(lru) \in Nat /\ \A i \in DOMAIN lru : lru[i] \in Id \ Sticky
  BY ListedSet DEF Oldest
<1>2. PICK x, y : x = 1 /\ y = Len(lru) - 1
  OBVIOUS
<1>3. PICK t : t = SubSeq(lru, x, y)
  OBVIOUS
<1>4. /\ t \in Seq(Id \ Sticky) /\ Len(t) = IF x <= y THEN y - x + 1 ELSE 0
      /\ \A j \in 1..(y - x + 1) : t[j] = lru[x + j - 1]
  <2>1. x \in Int /\ y \in Int /\ \A j \in x..y : lru[j] \in Id \ Sticky
    BY <1>1, <1>2
  <2>2. QED
    BY <1>3, <2>1, SubSeqProperties
<1>5. IsShort(t, lru, Len(lru))
  <2>1. Len(t) = Len(lru) - 1
    <3>1. PICK n \in Nat : n = Len(lru) /\ n >= 1
      <4>1. PICK n \in Nat : n = Len(lru)
        BY <1>1
      <4>2. n \in 1..n
        BY <1>1, <4>1
      <4>3. QED
        BY <4>1, <4>2
    <3>2. IF x <= y THEN y - x + 1 = n - 1 ELSE n - 1 = 0
      BY <1>2, <3>1
    <3>3. QED
      BY <1>4, <3>1, <3>2
  <2>2. ASSUME NEW j \in 1..Len(t) PROVE j \in 1..(y - x + 1) /\ x + j - 1 = j /\ j < Len(lru)
    <3>1. PICK n \in Nat : n = Len(lru)
      BY <1>1
    <3>2. j \in 1..(n - 1) /\ y - x + 1 = n - 1
      BY <1>2, <2>1, <3>1
    <3>3. QED
      BY <1>2, <3>1, <3>2
  <2>3. \A j \in 1..Len(t) : t[j] = lru[j] /\ j < Len(lru)
    BY <1>4, <2>2
  <2>4. QED
    BY <2>1, <2>3 DEF IsShort
<1>6. /\ IsInjective(t) /\ ToSet(t) = ToSet(lru) \ {lru[Len(lru)]}
      /\ \A order : InOrder(lru, order) => InOrder(t, order)
  <2>1. IsInjective(lru)
    BY DEF Listed
  <2>2. PICK n \in DOMAIN lru : n = Len(lru)
    BY <1>1
  <2>3. IsShort(t, lru, n)
    BY <1>5, <2>2
  <2>4. /\ IsInjective(t) /\ ToSet(t) = ToSet(lru) \ {lru[n]}
        /\ \A order : InOrder(lru, order) => InOrder(t, order)
    BY <1>1, <1>4, <2>1, <2>3, ShortList
  <2>5. QED
    BY <2>2, <2>4
<1>7. QED
  BY <1>1, <1>2, <1>3, <1>4, <1>6 DEF Listed, Oldest

\* A new id in front of the list.
LEMMA PushedIsListed ==
    ASSUME NEW list, NEW entries, Listed(list, entries), NEW id \in Id \ Sticky, id \notin entries
    PROVE  /\ Listed(<<id>> \o list, entries \cup {id})
           /\ \A order : InOrder(list, order) /\ (\A o \in entries : <<o, id>> \in order)
                  => InOrder(<<id>> \o list, order)
  BY PushedFront DEF Listed

---------------------------------------------------------------------------
(* One lemma per call: the invariant holds after it, and it is a call of   *)
(* the promise.                                                            *)

Promised == [U!Next]_(U!vars)

\* The promise counts as its implementation does.
LEMMA SameCount == \A S : U!Cardinality(S) = Cardinality(S)
  BY DEF U!Cardinality, Cardinality

LEMMA TouchStickyPromised ==
    ASSUME IInv, NEW id \in Id, TouchSticky(id), touch(id)
    PROVE  IInv' /\ U!Known(id)
<1>1. /\ UNCHANGED <<lru, entry_map, sticky_ids, saved>> /\ id \in sticky_ids
      /\ last' = Call(id, TRUE, {})
  BY DEF TouchSticky, touch
<1>2. IInv'
  BY <1>1 DEF IInv, Listed, Fits
<1>3. U!Known(id)
  BY <1>1 DEF U!Known, U!Call, Call
<1>4. QED
  BY <1>2, <1>3

LEMMA TouchEntryPromised ==
    ASSUME IInv, NEW id \in Id, TouchEntry(id), touch(id)
    PROVE  IInv' /\ U!Known(id)
<1>1. /\ id \notin Sticky /\ id \in entry_map /\ lru' = <<id>> \o RemoveAt(lru, Place(id))
      /\ last' = Call(id, TRUE, {}) /\ UNCHANGED <<entry_map, sticky_ids, saved>>
  BY DEF TouchEntry, touch
<1>2. Listed(RemoveAt(lru, Place(id)), entry_map \ {id})
  BY <1>1, ErasedIsListed DEF IInv
<1>3. Listed(lru', (entry_map \ {id}) \cup {id})
  <2>1. PICK l, e : l = RemoveAt(lru, Place(id)) /\ e = entry_map \ {id}
    OBVIOUS
  <2>2. Listed(<<id>> \o l, e \cup {id})
    BY <1>1, <1>2, <2>1, PushedIsListed
  <2>3. QED
    BY <1>1, <2>1, <2>2
<1>4. (entry_map \ {id}) \cup {id} = entry_map'
  BY <1>1
<1>5. IInv'
  BY <1>1, <1>3, <1>4 DEF IInv, Listed, Fits
<1>6. U!Known(id)
  BY <1>1 DEF U!Known, U!Call, Call
<1>7. QED
  BY <1>5, <1>6

\* What registering an id makes of a list that has it not.
LEMMA RegisterIsListed ==
    ASSUME NEW list, NEW entries, Listed(list, entries), NEW id \in Id, id \notin entries,
           sticky_ids \subseteq Sticky, id \notin sticky_ids,
           Cardinality(entries) + Cardinality(sticky_ids) < MaxSize,
           Register(id, list, entries)
    PROVE  /\ Listed(lru', entry_map') /\ Fits(entry_map', sticky_ids')
           /\ entry_map' \cup sticky_ids' = (entries \cup sticky_ids) \cup {id}
<1>1. /\ entries \in SUBSET (Id \ Sticky) /\ IsFiniteSet(entries) /\ IsFiniteSet(sticky_ids)
      /\ Cardinality(entries) \in Nat /\ Cardinality(sticky_ids) \in Nat
  BY ListedSet, MemorySize
<1>2. CASE id \in Sticky
  <2>1. sticky_ids' = sticky_ids \cup {id} /\ lru' = list /\ entry_map' = entries
    BY <1>2 DEF Register
  <2>2. Cardinality(sticky_ids \cup {id}) = Cardinality(sticky_ids) + 1
    BY <1>1, FS_AddElement
  <2>3. Cardinality(entries) + (Cardinality(sticky_ids) + 1) <= MaxSize
    BY <1>1, SizeAssumption
  <2>4. QED
    BY <1>2, <2>1, <2>2, <2>3 DEF Fits
<1>3. CASE id \notin Sticky
  <2>1. sticky_ids' = sticky_ids /\ lru' = <<id>> \o list /\ entry_map' = entries \cup {id}
    BY <1>3 DEF Register
  <2>2. Cardinality(entries \cup {id}) = Cardinality(entries) + 1
    BY <1>1, FS_AddElement
  <2>3. (Cardinality(entries) + 1) + Cardinality(sticky_ids) <= MaxSize
    BY <1>1, SizeAssumption
  <2>4. Listed(<<id>> \o list, entries \cup {id})
    BY <1>3, PushedIsListed
  <2>5. QED
    BY <2>1, <2>2, <2>3, <2>4 DEF Fits
<1>4. QED
  BY <1>2, <1>3

\* A new id is in no table, and Full tells whether the promised size is reached.
LEMMA NewIsUnknown ==
    ASSUME IInv, NEW id \in Id, New(id)
    PROVE  /\ id \notin entry_map /\ id \notin sticky_ids
           /\ entry_map \in SUBSET (Id \ Sticky) /\ sticky_ids \in SUBSET Sticky
           /\ Cardinality(entry_map) \in Nat /\ Cardinality(sticky_ids) \in Nat
           /\ Cardinality(entry_map \cup sticky_ids) = Cardinality(entry_map) + Cardinality(sticky_ids)
<1>1. Listed(lru, entry_map) /\ sticky_ids \in SUBSET Sticky
  BY DEF IInv, Fits
<1>2. entry_map \in SUBSET (Id \ Sticky)
  BY <1>1, ListedSet
<1>3. /\ Cardinality(entry_map) \in Nat /\ Cardinality(sticky_ids) \in Nat
      /\ Cardinality(entry_map \cup sticky_ids) = Cardinality(entry_map) + Cardinality(sticky_ids)
  BY <1>1, <1>2, MemorySize
<1>4. QED
  BY <1>1, <1>2, <1>3 DEF New

LEMMA TouchRoomPromised ==
    ASSUME IInv, NEW id \in Id, TouchRoom(id), touch(id)
    PROVE  IInv' /\ U!Room(id)
<1>1. /\ New(id) /\ ~Full /\ Register(id, lru, entry_map) /\ last' = Call(id, TRUE, {})
      /\ UNCHANGED saved
  BY DEF TouchRoom, touch
<1>2. /\ id \notin entry_map /\ id \notin sticky_ids
      /\ Cardinality(entry_map) \in Nat /\ Cardinality(sticky_ids) \in Nat
      /\ Cardinality(entry_map \cup sticky_ids) = Cardinality(entry_map) + Cardinality(sticky_ids)
  BY <1>1, NewIsUnknown
<1>3. Cardinality(entry_map) + Cardinality(sticky_ids) < MaxSize
  BY <1>1, <1>2, SizeAssumption DEF Full
<1>4. Listed(lru, entry_map) /\ sticky_ids \subseteq Sticky
  BY DEF IInv, Fits
<1>5. /\ Listed(lru', entry_map') /\ Fits(entry_map', sticky_ids')
      /\ entry_map' \cup sticky_ids' = (entry_map \cup sticky_ids) \cup {id}
  BY <1>1, <1>2, <1>3, <1>4, RegisterIsListed
<1>6. IInv'
  BY <1>1, <1>5 DEF IInv, Listed, Fits
<1>7. U!Room(id)
  <2>1. id \notin entry_map \cup sticky_ids /\ Cardinality(entry_map \cup sticky_ids) < MaxSize
    BY <1>2, <1>3
  <2>2. last' = U!Call(id, TRUE, {})
    BY <1>1 DEF U!Call, Call
  <2>3. QED
    BY <1>5, <2>1, <2>2, SameCount DEF U!Room
<1>8. QED
  BY <1>6, <1>7

LEMMA TouchEvictPromised ==
    ASSUME IInv, NEW id \in Id, TouchEvict(id), touch(id)
    PROVE  IInv' /\ \E old \in (entry_map \cup sticky_ids) \ Sticky : U!Replace(id, old)
<1> DEFINE list == SubSeq(lru, 1, Len(lru) - 1)
           entries == entry_map \ {Oldest}
<1>1. /\ New(id) /\ Full /\ entry_map # {} /\ Register(id, list, entries)
      /\ last' = Call(id, TRUE, {Oldest}) /\ UNCHANGED saved
  BY DEF TouchEvict, touch
<1>2. /\ id \notin entry_map /\ id \notin sticky_ids
      /\ entry_map \in SUBSET (Id \ Sticky) /\ sticky_ids \in SUBSET Sticky
      /\ Cardinality(entry_map) \in Nat /\ Cardinality(sticky_ids) \in Nat
      /\ Cardinality(entry_map \cup sticky_ids) = Cardinality(entry_map) + Cardinality(sticky_ids)
  BY <1>1, NewIsUnknown
<1>3. Oldest \in entry_map /\ Listed(list, entries)
  BY <1>1, PoppedIsListed DEF IInv
<1>4. Cardinality(entries) = Cardinality(entry_map) - 1
  <2>1. IsFiniteSet(entry_map)
    BY <1>2, MemorySize
  <2>2. QED
    BY <1>3, <2>1, FS_RemoveElement
<1>5. Cardinality(entries) + Cardinality(sticky_ids) < MaxSize
  BY <1>2, <1>4, SizeAssumption DEF IInv, Fits
<1> HIDE DEF list, entries
<1>6. /\ Listed(lru', entry_map') /\ Fits(entry_map', sticky_ids')
      /\ entry_map' \cup sticky_ids' = (entries \cup sticky_ids) \cup {id}
  <2>1. id \notin entries /\ sticky_ids \subseteq Sticky
    BY <1>2 DEF entries
  <2>2. QED
    BY <1>1, <1>2, <1>3, <1>5, <2>1, RegisterIsListed
<1>7. IInv'
  BY <1>1, <1>6 DEF IInv, Listed, Fits
<1>8. entries \cup sticky_ids = (entry_map \cup sticky_ids) \ {Oldest} /\ Oldest \notin Sticky
  BY <1>2, <1>3 DEF entries
<1>9. Cardinality(entry_map \cup sticky_ids) >= MaxSize
  BY <1>1, <1>2 DEF Full
<1>10. U!Replace(id, Oldest)
  <2>1. id \notin entry_map \cup sticky_ids
    BY <1>2
  <2>2. last' = U!Call(id, TRUE, {Oldest})
    BY <1>1 DEF U!Call, Call
  <2>3. QED
    BY <1>6, <1>8, <1>9, <2>1, <2>2, SameCount DEF U!Replace
<1>11. QED
  BY <1>3, <1>7, <1>8, <1>10

LEMMA TouchRefusedPromised ==
    ASSUME IInv, NEW id \in Id, TouchRefused(id), touch(id)
    PROVE  IInv' /\ U!Refuse(id)
<1>1. /\ New(id) /\ Full /\ entry_map = {} /\ last' = Call(id, FALSE, {})
      /\ UNCHANGED <<lru, entry_map, sticky_ids, saved>>
  BY DEF TouchRefused, touch
<1>2. /\ id \notin entry_map /\ id \notin sticky_ids /\ sticky_ids \in SUBSET Sticky
      /\ Cardinality(entry_map \cup sticky_ids) = Cardinality(entry_map) + Cardinality(sticky_ids)
  BY <1>1, NewIsUnknown
<1>3. IInv'
  BY <1>1 DEF IInv, Listed, Fits
<1>4. U!Refuse(id)
  <2>1. id \notin entry_map \cup sticky_ids /\ entry_map \cup sticky_ids \subseteq Sticky
    BY <1>1, <1>2
  <2>2. Cardinality(entry_map \cup sticky_ids) >= MaxSize
    BY <1>1, <1>2 DEF Full
  <2>3. last' = U!Call(id, FALSE, {})
    BY <1>1 DEF U!Call, Call
  <2>4. QED
    BY <1>1, <2>1, <2>2, <2>3, SameCount DEF U!Refuse
<1>5. QED
  BY <1>3, <1>4

LEMMA RemovePromised ==
    ASSUME IInv, NEW id \in Id, remove(id)
    PROVE  IInv' /\ U!Remove(id)
<1>1. /\ last' = Call(id, exists_in_memory(id), {}) /\ UNCHANGED saved
      /\ entry_map' = entry_map \ {id}
  BY DEF remove
<1>2. exists_in_memory(id) <=> id \in entry_map \cup sticky_ids
  BY DEF exists_in_memory
<1>3. /\ Listed(lru, entry_map) /\ entry_map \in SUBSET (Id \ Sticky) /\ sticky_ids \in SUBSET Sticky
      /\ Cardinality(entry_map) + Cardinality(sticky_ids) <= MaxSize
      /\ IsFiniteSet(entry_map) /\ IsFiniteSet(sticky_ids)
      /\ Cardinality(entry_map) \in Nat /\ Cardinality(sticky_ids) \in Nat
  <2>1. Listed(lru, entry_map) /\ Fits(entry_map, sticky_ids)
    BY DEF IInv
  <2>2. QED
    BY <2>1, ListedSet, MemorySize DEF Fits
<1>4. /\ Listed(lru', entry_map') /\ Fits(entry_map', sticky_ids')
      /\ entry_map' \cup sticky_ids' = (entry_map \cup sticky_ids) \ {id}
  <2>1. CASE id \in entry_map
    <3>1. lru' = RemoveAt(lru, Place(id)) /\ sticky_ids' = sticky_ids
      BY <2>1 DEF remove
    <3>2. Listed(RemoveAt(lru, Place(id)), entry_map \ {id})
      BY <1>3, <2>1, ErasedIsListed
    <3>3. Cardinality(entry_map \ {id}) = Cardinality(entry_map) - 1
      BY <1>3, <2>1, FS_RemoveElement
    <3>4. Cardinality(entry_map \ {id}) + Cardinality(sticky_ids) <= MaxSize
      BY <1>3, <3>3, SizeAssumption
    <3>5. QED
      BY <1>1, <1>3, <2>1, <3>1, <3>2, <3>4 DEF Fits
  <2>2. CASE id \notin entry_map
    <3>1. lru' = lru /\ sticky_ids' = sticky_ids \ {id} /\ entry_map' = entry_map
      BY <1>1, <2>2 DEF remove
    <3>2. Cardinality(sticky_ids \ {id}) <= Cardinality(sticky_ids) /\ Cardinality(sticky_ids \ {id}) \in Nat
      <4>1. sticky_ids \ {id} \in SUBSET sticky_ids
        OBVIOUS
      <4>2. QED
        BY <1>3, <4>1, FS_Subset, FS_CardinalityType
    <3>3. Cardinality(entry_map) + Cardinality(sticky_ids \ {id}) <= MaxSize
      BY <1>3, <3>2, SizeAssumption
    <3>4. QED
      BY <1>3, <2>2, <3>1, <3>3 DEF Fits
  <2>3. QED
    BY <2>1, <2>2
<1>5. IInv'
  BY <1>1, <1>4 DEF IInv, Listed, Fits
<1>6. U!Remove(id)
  <2>1. (id \in entry_map \/ id \in sticky_ids) = (id \in entry_map \cup sticky_ids)
    OBVIOUS
  <2>2. last' = U!Call(id, id \in entry_map \cup sticky_ids, {})
    BY <1>1, <2>1 DEF exists_in_memory, Call, U!Call
  <2>3. QED
    BY <1>4, <2>2 DEF U!Remove
<1>7. QED
  BY <1>5, <1>6

LEMMA ClearPromised ==
    ASSUME IInv, clear PROVE IInv' /\ U!Clear
<1>1. /\ lru' = <<>> /\ entry_map' = {} /\ sticky_ids' = {} /\ last' = NoCall /\ UNCHANGED saved
  BY DEF clear
<1>2. Listed(<<>>, {}) /\ Fits({}, {})
  <2>1. <<>> \in Seq(Id \ Sticky) /\ DOMAIN <<>> = {}
    BY EmptySeq
  <2>2. IsInjective(<<>>) /\ ToSet(<<>>) = {}
    BY <2>1 DEF IsInjective, ToSet
  <2>3. Cardinality({}) = 0
    BY FS_EmptySet
  <2>4. Cardinality({}) + Cardinality({}) <= MaxSize
    BY <2>3, SizeAssumption
  <2>5. QED
    BY <2>1, <2>2, <2>4 DEF Listed, Fits
<1>3. IInv'
  BY <1>1, <1>2 DEF IInv, Listed, Fits
<1>4. U!Clear
  BY <1>1 DEF U!Clear, U!NoCall, NoCall, U!Call, Call
<1>5. QED
  BY <1>3, <1>4

LEMMA PackKeeps ==
    ASSUME IInv, pack PROVE IInv' /\ UNCHANGED U!vars
<1>1. /\ UNCHANGED <<lru, entry_map, sticky_ids, last>>
      /\ saved'.lru = lru /\ saved'.sticky = sticky_ids
  BY DEF pack
<1>2. Listed(lru, entry_map) /\ ToSet(lru) = entry_map /\ Fits(entry_map, sticky_ids)
  BY DEF IInv, Listed
<1>3. IInv'
  BY <1>1, <1>2 DEF IInv, Listed, Fits
<1>4. QED
  BY <1>1, <1>3 DEF U!vars

LEMMA UnpackPromised ==
    ASSUME IInv, unpack PROVE IInv' /\ U!Load
<1>1. /\ lru' = saved.lru /\ sticky_ids' = saved.sticky /\ entry_map' = ToSet(saved.lru)
      /\ last' = NoCall /\ UNCHANGED saved
  BY DEF unpack
<1>2. Listed(saved.lru, ToSet(saved.lru)) /\ Fits(ToSet(saved.lru), saved.sticky)
  BY DEF IInv
<1>3. IInv'
  BY <1>1, <1>2 DEF IInv, Listed, Fits
<1>4. /\ ToSet(saved.lru) \cup saved.sticky \in SUBSET Id
      /\ Cardinality(ToSet(saved.lru) \cup saved.sticky) <= MaxSize
  <2>1. ToSet(saved.lru) \in SUBSET (Id \ Sticky) /\ saved.sticky \in SUBSET Sticky
    BY <1>2, ListedSet DEF Fits
  <2>2. Cardinality(ToSet(saved.lru) \cup saved.sticky) =
            Cardinality(ToSet(saved.lru)) + Cardinality(saved.sticky)
    BY <2>1, MemorySize
  <2>3. QED
    BY <1>2, <2>1, <2>2, IdAssumption DEF Fits
<1>5. entry_map' \cup sticky_ids' = ToSet(saved.lru) \cup saved.sticky
  BY <1>1
<1>6. last' = U!NoCall
  BY <1>1 DEF U!NoCall, NoCall, U!Call, Call
<1>7. U!Load
  BY <1>4, <1>5, <1>6, SameCount DEF U!Load
<1>8. QED
  BY <1>3, <1>7

LEMMA InitPromised == Init => IInv /\ U!Init
<1> SUFFICES ASSUME Init PROVE IInv /\ U!Init
  OBVIOUS
<1>1. /\ lru = <<>> /\ entry_map = {} /\ sticky_ids = {} /\ last = NoCall
      /\ saved.lru = <<>> /\ saved.sticky = {}
  BY DEF Init, Empty
<1>2. Listed(<<>>, {}) /\ Fits({}, {}) /\ ToSet(<<>>) = {}
  <2>1. <<>> \in Seq(Id \ Sticky) /\ DOMAIN <<>> = {}
    BY EmptySeq
  <2>2. IsInjective(<<>>) /\ ToSet(<<>>) = {}
    BY <2>1 DEF IsInjective, ToSet
  <2>3. Cardinality({}) = 0
    BY FS_EmptySet
  <2>4. Cardinality({}) + Cardinality({}) <= MaxSize
    BY <2>3, SizeAssumption
  <2>5. QED
    BY <2>1, <2>2, <2>4 DEF Listed, Fits
<1>3. U!Init
  BY <1>1 DEF U!Init, U!NoCall, NoCall, U!Call, Call
<1>4. QED
  BY <1>1, <1>2, <1>3 DEF IInv

LEMMA NextPromised == IInv /\ [Next]_vars => IInv' /\ Promised
<1> SUFFICES ASSUME IInv, [Next]_vars PROVE IInv' /\ Promised
  OBVIOUS
<1>1. CASE \E id \in Id : touch(id)
  <2> PICK id \in Id : touch(id)
    BY <1>1
  <2>1. CASE TouchSticky(id)
    BY <2>1, TouchStickyPromised DEF Promised, U!Next, U!Touch
  <2>2. CASE TouchEntry(id)
    BY <2>2, TouchEntryPromised DEF Promised, U!Next, U!Touch
  <2>3. CASE TouchRoom(id)
    BY <2>3, TouchRoomPromised DEF Promised, U!Next, U!Touch
  <2>4. CASE TouchEvict(id)
    BY <2>4, TouchEvictPromised DEF Promised, U!Next, U!Touch
  <2>5. CASE TouchRefused(id)
    BY <2>5, TouchRefusedPromised DEF Promised, U!Next, U!Touch
  <2>6. QED
    BY <2>1, <2>2, <2>3, <2>4, <2>5 DEF touch
<1>2. CASE \E id \in Id : remove(id)
  BY <1>2, RemovePromised DEF Promised, U!Next
<1>3. CASE clear
  BY <1>3, ClearPromised DEF Promised, U!Next
<1>4. CASE pack
  BY <1>4, PackKeeps DEF Promised
<1>5. CASE unpack
  BY <1>5, UnpackPromised DEF Promised, U!Next
<1>6. CASE UNCHANGED vars
  BY <1>6 DEF vars, IInv, Listed, Fits, Promised, U!vars
<1>7. QED
  BY <1>1, <1>2, <1>3, <1>4, <1>5, <1>6 DEF Next

\* lru_unlearner implements the promise of unlearner_base: whatever is touched,
\* removed, cleared, saved and loaded, at most max_size ids are in memory, one
\* that is not sticky makes room for a new one, and only a memory full of
\* sticky ids refuses.
THEOREM LruKeepsPromise == Spec => ImplementsUnlearner
<1>1. Init => IInv /\ U!Init
  BY InitPromised
<1>2. IInv /\ [Next]_vars => IInv' /\ [U!Next]_(U!vars)
  BY NextPromised DEF Promised
<1>3. QED
  BY <1>1, <1>2, PTL DEF Spec, ImplementsUnlearner, U!Spec

---------------------------------------------------------------------------
(* The list is in the order of use.                                        *)

\* Being touched puts an id after all others and changes no other order.
LEMMA UsedLast ==
    ASSUME Listed(lru, entry_map), NEW id \in Id, Used(id),
           NEW list, NEW entries, Listed(list, entries), InOrder(list, before), id \notin entries
    PROVE  /\ InOrder(list, before')
           /\ id \notin Sticky => \A o \in entries : <<o, id>> \in before'
<1>1. /\ entries \in SUBSET (Id \ Sticky) /\ DOMAIN list = 1..Len(list)
      /\ \A i \in DOMAIN list : list[i] \in entries
  BY ListedSet
<1>2. CASE id \in Sticky
  BY <1>2 DEF Used, InOrder
<1>3. CASE id \notin Sticky
  <2>1. before' = {p \in before : p[1] # id} \cup {<<o, id>> : o \in Id \ (Sticky \cup {id})}
    BY <1>3 DEF Used
  <2>2. \A i, j \in DOMAIN list : i < j => <<list[j], list[i]>> \in before'
    BY <1>1, <2>1 DEF InOrder
  <2>3. \A o \in entries : <<o, id>> \in before'
    BY <1>1, <2>1
  <2>4. QED
    BY <2>2, <2>3 DEF InOrder
<1>4. QED
  BY <1>2, <1>3

LEMMA RegisterOrders ==
    ASSUME Listed(lru, entry_map), NEW id \in Id, Used(id), NEW list, NEW entries,
           Listed(list, entries), InOrder(list, before), id \notin entries, Register(id, list, entries)
    PROVE  InOrder(lru', before')
<1>1. /\ InOrder(list, before')
      /\ id \notin Sticky => \A o \in entries : <<o, id>> \in before'
  BY UsedLast
<1>2. CASE id \in Sticky
  BY <1>1, <1>2 DEF Register
<1>3. CASE id \notin Sticky
  <2>1. PICK order : order = before'
    OBVIOUS
  <2>2. InOrder(list, order) /\ \A o \in entries : <<o, id>> \in order
    BY <1>1, <1>3, <2>1
  <2>3. InOrder(<<id>> \o list, order)
    BY <1>3, <2>2, PushedIsListed
  <2>4. QED
    BY <1>3, <2>1, <2>3 DEF Register
<1>4. QED
  BY <1>2, <1>3

LEMMA TouchOrders ==
    ASSUME IInv, InOrder(lru, before), NEW id \in Id, touch(id)
    PROVE  InOrder(lru', before')
<1>1. Listed(lru, entry_map) /\ Used(id)
  BY DEF IInv, touch
<1>2. CASE TouchSticky(id)
  BY <1>1, <1>2 DEF TouchSticky, Used
<1>3. CASE TouchEntry(id)
  <2>1. /\ id \notin Sticky /\ id \in entry_map /\ lru' = <<id>> \o RemoveAt(lru, Place(id))
    BY <1>3 DEF TouchEntry
  <2>2. PICK l, e : l = RemoveAt(lru, Place(id)) /\ e = entry_map \ {id}
    OBVIOUS
  <2>3. Listed(l, e) /\ InOrder(l, before) /\ id \notin e
    BY <1>1, <2>1, <2>2, ErasedIsListed
  <2>4. PICK order : order = before'
    OBVIOUS
  <2>5. InOrder(l, order) /\ \A o \in e : <<o, id>> \in order
    BY <1>1, <2>1, <2>3, <2>4, UsedLast
  <2>6. InOrder(<<id>> \o l, order)
    BY <2>1, <2>3, <2>5, PushedIsListed
  <2>7. QED
    BY <2>1, <2>2, <2>4, <2>6
<1>4. CASE TouchRoom(id)
  <2>1. New(id) /\ Register(id, lru, entry_map)
    BY <1>4 DEF TouchRoom
  <2>2. id \notin entry_map
    BY <2>1, NewIsUnknown
  <2>3. QED
    BY <1>1, <2>1, <2>2, RegisterOrders
<1>5. CASE TouchEvict(id)
  <2>1. /\ New(id) /\ entry_map # {}
        /\ Register(id, SubSeq(lru, 1, Len(lru) - 1), entry_map \ {Oldest})
    BY <1>5 DEF TouchEvict
  <2>2. PICK l, e : l = SubSeq(lru, 1, Len(lru) - 1) /\ e = entry_map \ {Oldest}
    OBVIOUS
  <2>3. Listed(l, e) /\ InOrder(l, before)
    BY <1>1, <2>1, <2>2, PoppedIsListed
  <2>4. id \notin e
    BY <2>1, <2>2, NewIsUnknown
  <2>5. Register(id, l, e)
    BY <2>1, <2>2
  <2>6. QED
    BY <1>1, <2>3, <2>4, <2>5, RegisterOrders
<1>6. CASE TouchRefused(id)
  <2>1. entry_map = {} /\ lru' = lru
    BY <1>6 DEF TouchRefused
  <2>2. DOMAIN lru = {}
    BY <1>1, <2>1, ListedSet
  <2>3. QED
    BY <2>1, <2>2 DEF InOrder
<1>7. QED
  BY <1>2, <1>3, <1>4, <1>5, <1>6 DEF touch

LEMMA NextOrders == IInv /\ InOrder(lru, before) /\ [Next]_vars => InOrder(lru', before')
<1> SUFFICES ASSUME IInv, InOrder(lru, before), [Next]_vars PROVE InOrder(lru', before')
  OBVIOUS
<1>1. CASE \E id \in Id : touch(id)
  BY <1>1, TouchOrders
<1>2. ASSUME NEW id \in Id, remove(id) PROVE InOrder(lru', before')
  <2>1. before' = before /\ lru' = IF id \in entry_map THEN RemoveAt(lru, Place(id)) ELSE lru
    BY <1>2 DEF remove
  <2>2. id \in entry_map => InOrder(RemoveAt(lru, Place(id)), before)
    BY ErasedIsListed DEF IInv
  <2>3. QED
    BY <2>1, <2>2
<1>3. CASE clear
  <2>1. lru' = <<>> /\ DOMAIN <<>> = {}
    BY <1>3 DEF clear
  <2>2. QED
    BY <2>1 DEF InOrder
<1>4. CASE unpack
  <2>1. lru' = saved.lru /\ before' = OrderOf(saved.lru)
    BY <1>4 DEF unpack
  <2>2. DOMAIN saved.lru = 1..Len(saved.lru) /\ Len(saved.lru) \in Nat
    BY ListedSet DEF IInv
  <2>3. ASSUME NEW i \in DOMAIN saved.lru, NEW j \in DOMAIN saved.lru, i < j
        PROVE  <<saved.lru[j], saved.lru[i]>> \in OrderOf(saved.lru)
    <3>1. j \in (i + 1)..Len(saved.lru)
      BY <2>2, <2>3
    <3>2. QED
      BY <3>1 DEF OrderOf
  <2>4. QED
    BY <2>1, <2>3 DEF InOrder
<1>5. CASE pack \/ UNCHANGED vars
  BY <1>5 DEF pack, vars
<1>6. QED
  BY <1>1, <1>2, <1>3, <1>4, <1>5 DEF Next

\* The list and its index agree, and the list is in the order of use: what
\* touch unlearns is the id used longest ago.
THEOREM LruIsInOrder == Spec => [](ListMatchesMap /\ ListInOrder)
<1>1. Init => IInv /\ InOrder(lru, before)
  BY InitPromised DEF Init, InOrder
<1>2. IInv /\ InOrder(lru, before) /\ [Next]_vars => IInv' /\ InOrder(lru', before')
  BY NextPromised, NextOrders
<1>3. IInv /\ InOrder(lru, before) => ListMatchesMap /\ ListInOrder
  BY DEF IInv, Listed, InOrder, ListMatchesMap, ListInOrder
<1>4. InOrder(lru, before)' <=> InOrder(lru', before')
  BY DEF InOrder
<1>5. QED
  BY <1>1, <1>2, <1>3, <1>4, PTL DEF Spec

\* can_touch foretells what touch does.
THEOREM LruForetells == Spec => CanTouchIsRight
<1>1. ASSUME IInv, NEW id \in Id, touch(id) PROVE last'.ok = can_touch(id)
  <2>1. CASE TouchSticky(id)
    BY <2>1 DEF TouchSticky, Call, can_touch, exists_in_memory
  <2>2. CASE TouchEntry(id)
    BY <2>2 DEF TouchEntry, Call, can_touch, exists_in_memory
  <2>3. CASE New(id)
    <3>1. /\ Cardinality(entry_map) \in Nat /\ Cardinality(sticky_ids) \in Nat
          /\ id \notin entry_map /\ id \notin sticky_ids /\ IsFiniteSet(entry_map)
      <4>1. /\ Cardinality(entry_map) \in Nat /\ Cardinality(sticky_ids) \in Nat
            /\ id \notin entry_map /\ id \notin sticky_ids /\ entry_map \in SUBSET (Id \ Sticky)
        BY <1>1, <2>3, NewIsUnknown
      <4>2. entry_map \in SUBSET Id
        BY <4>1
      <4>3. QED
        BY <4>1, <4>2, IdAssumption, FS_Subset
    <3>2. CASE TouchRoom(id)
      <4>1. Cardinality(sticky_ids) < MaxSize
        BY <3>1, <3>2, SizeAssumption DEF TouchRoom, Full
      <4>2. QED
        BY <3>2, <4>1 DEF TouchRoom, Call, can_touch
    <3>3. CASE TouchEvict(id)
      <4>1. Cardinality(entry_map) # 0
        BY <3>1, <3>3, FS_EmptySet DEF TouchEvict
      <4>2. Cardinality(entry_map) + Cardinality(sticky_ids) <= MaxSize
        BY <1>1 DEF IInv, Fits
      <4>3. PICK p \in Nat, q \in Nat : p = Cardinality(entry_map) /\ q = Cardinality(sticky_ids)
        BY <3>1
      <4>4. Cardinality(sticky_ids) < MaxSize
        BY <4>1, <4>2, <4>3, SizeAssumption
      <4>5. QED
        BY <3>3, <4>4 DEF TouchEvict, Call, can_touch
    <3>4. CASE TouchRefused(id)
      <4>1. Cardinality(entry_map) = 0
        BY <3>4, FS_EmptySet DEF TouchRefused
      <4>2. ~ (Cardinality(sticky_ids) < MaxSize)
        BY <3>1, <3>4, <4>1, SizeAssumption DEF TouchRefused, Full
      <4>3. can_touch(id) = FALSE
        BY <3>1, <4>2 DEF can_touch, exists_in_memory
      <4>4. QED
        BY <3>4, <4>3 DEF TouchRefused, Call
    <3>5. ~TouchSticky(id) /\ ~TouchEntry(id)
      BY <3>1 DEF TouchSticky, TouchEntry
    <3>6. TouchRoom(id) \/ TouchEvict(id) \/ TouchRefused(id)
      BY <1>1, <3>5 DEF touch
    <3>7. QED
      BY <3>2, <3>3, <3>4, <3>6
  <2>4. TouchSticky(id) \/ TouchEntry(id) \/ New(id)
    BY <1>1 DEF touch, TouchRoom, TouchEvict, TouchRefused
  <2>5. QED
    BY <2>1, <2>2, <2>3, <2>4
<1>2. IInv /\ [Next]_vars => [\A id \in Id : touch(id) => last'.ok = can_touch(id)]_vars
  BY <1>1
<1>3. Init => IInv
  BY InitPromised
<1>4. IInv /\ [Next]_vars => IInv'
  BY NextPromised
<1>5. QED
  BY <1>2, <1>3, <1>4, PTL DEF Spec, CanTouchIsRight

---------------------------------------------------------------------------
(* random_unlearner: the map and the vector find each other, also in what  *)
(* was saved.  Its ids are any finite set and none of them is sticky.      *)

VARIABLES ids, id_map, r_saved, r_last

R == INSTANCE RandomUnlearner WITH saved <- r_saved, last <- r_last

Match(i, m) ==
    /\ i \in Seq(Id) /\ m = [id \in DOMAIN m |-> m[id]]
    /\ \A id \in DOMAIN m : m[id] \in DOMAIN i /\ i[m[id]] = id
    /\ \A pos \in DOMAIN i : i[pos] \in DOMAIN m /\ m[i[pos]] = pos

Small(m) == Cardinality(DOMAIN m) <= MaxSize

RInv ==
    /\ Match(ids, id_map) /\ Small(id_map)
    /\ Match(r_saved.ids, r_saved.id_map) /\ Small(r_saved.id_map)

LEMMA MatchFacts ==
    ASSUME NEW i, NEW m, Match(i, m)
    PROVE  /\ DOMAIN i = 1..Len(i) /\ Len(i) \in Nat
           /\ DOMAIN m \in SUBSET Id /\ IsFiniteSet(DOMAIN m) /\ Cardinality(DOMAIN m) \in Nat
           /\ \A id \in DOMAIN m : m[id] \in 1..Len(i) /\ i[m[id]] = id
           /\ \A pos \in 1..Len(i) : i[pos] \in DOMAIN m /\ m[i[pos]] = pos
<1>1. /\ DOMAIN i = 1..Len(i) /\ Len(i) \in Nat
      /\ \A pos \in 1..Len(i) : i[pos] \in Id
  BY LenProperties, ElementOfSeq DEF Match
<1>2. DOMAIN m \in SUBSET Id
  BY <1>1 DEF Match
<1>3. IsFiniteSet(DOMAIN m) /\ Cardinality(DOMAIN m) \in Nat
  BY <1>2, IdAssumption, FS_Subset, FS_CardinalityType
<1>4. QED
  BY <1>1, <1>2, <1>3 DEF Match

LEMMA RFacts ==
    ASSUME RInv
    PROVE  /\ ids \in Seq(Id) /\ DOMAIN ids = 1..Len(ids) /\ Len(ids) \in Nat
           /\ DOMAIN id_map \in SUBSET Id
           /\ IsFiniteSet(DOMAIN id_map) /\ Cardinality(DOMAIN id_map) \in Nat
           /\ Cardinality(DOMAIN id_map) <= MaxSize
           /\ \A i \in DOMAIN id_map : id_map[i] \in 1..Len(ids) /\ ids[id_map[i]] = i
           /\ \A pos \in 1..Len(ids) : ids[pos] \in DOMAIN id_map /\ id_map[ids[pos]] = pos
<1>1. Match(ids, id_map) /\ Cardinality(DOMAIN id_map) <= MaxSize
  BY DEF RInv, Small
<1>2. ids \in Seq(Id)
  BY <1>1 DEF Match
<1>3. QED
  BY <1>1, <1>2, MatchFacts

LEMMA RKnownPromised ==
    ASSUME RInv, NEW id \in Id, R!TouchKnown(id), UNCHANGED r_saved
    PROVE  RInv' /\ R!U!Known(id)
<1>1. id \in DOMAIN id_map /\ UNCHANGED <<ids, id_map>> /\ r_last' = R!Call(id, TRUE, {})
  BY DEF R!TouchKnown, R!exists_in_memory
<1>2. RInv'
  BY <1>1 DEF RInv, Match, Small
<1>3. R!U!Known(id)
  BY <1>1 DEF R!U!Known, R!U!Call, R!Call
<1>4. QED
  BY <1>2, <1>3

\* The same counting as everywhere.
LEMMA RSameCount == \A S : R!Cardinality(S) = Cardinality(S) /\ R!U!Cardinality(S) = Cardinality(S)
  BY DEF R!U!Cardinality, R!Cardinality, Cardinality

LEMMA RRoomPromised ==
    ASSUME RInv, NEW id \in Id, R!TouchRoom(id), UNCHANGED r_saved
    PROVE  RInv' /\ R!U!Room(id)
<1>1. /\ id \notin DOMAIN id_map /\ ~ (Cardinality(DOMAIN id_map) >= MaxSize)
      /\ ids' = Append(ids, id)
      /\ id_map' = [i \in DOMAIN id_map \cup {id} |-> IF i = id THEN Len(ids) + 1 ELSE id_map[i]]
      /\ r_last' = R!Call(id, TRUE, {})
  BY RSameCount DEF R!TouchRoom, R!exists_in_memory, R!Full, R!Placed
<1>2. /\ ids \in Seq(Id) /\ DOMAIN ids = 1..Len(ids) /\ Len(ids) \in Nat
      /\ IsFiniteSet(DOMAIN id_map) /\ Cardinality(DOMAIN id_map) \in Nat
      /\ \A i \in DOMAIN id_map : id_map[i] \in 1..Len(ids) /\ ids[id_map[i]] = i
      /\ \A pos \in 1..Len(ids) : ids[pos] \in DOMAIN id_map /\ id_map[ids[pos]] = pos
  BY RFacts
<1>3. /\ ids' \in Seq(Id) /\ DOMAIN ids' = 1..(Len(ids) + 1)
      /\ \A pos \in 1..Len(ids) : ids'[pos] = ids[pos]
      /\ ids'[Len(ids) + 1] = id
  <2>1. /\ Append(ids, id) \in Seq(Id) /\ Len(Append(ids, id)) = Len(ids) + 1
        /\ \A pos \in 1..Len(ids) : Append(ids, id)[pos] = ids[pos]
        /\ Append(ids, id)[Len(ids) + 1] = id
    BY <1>2, AppendProperties
  <2>2. QED
    BY <1>1, <2>1, LenProperties
<1>4. DOMAIN id_map' = DOMAIN id_map \cup {id} /\ id_map'[id] = Len(ids) + 1
  BY <1>1
<1>5. \A i \in DOMAIN id_map : id_map'[i] = id_map[i]
  BY <1>1
<1>6. \A i \in DOMAIN id_map' : id_map'[i] \in DOMAIN ids' /\ ids'[id_map'[i]] = i
  <2>1. ASSUME NEW i \in DOMAIN id_map PROVE id_map'[i] \in DOMAIN ids' /\ ids'[id_map'[i]] = i
    BY <1>2, <1>3, <1>5
  <2>2. id_map'[id] \in DOMAIN ids' /\ ids'[id_map'[id]] = id
    BY <1>2, <1>3, <1>4
  <2>3. QED
    BY <1>4, <2>1, <2>2
<1>7. \A pos \in DOMAIN ids' : ids'[pos] \in DOMAIN id_map' /\ id_map'[ids'[pos]] = pos
  <2>1. ASSUME NEW pos \in 1..Len(ids) PROVE ids'[pos] \in DOMAIN id_map' /\ id_map'[ids'[pos]] = pos
    BY <1>2, <1>3, <1>4, <1>5
  <2>2. ids'[Len(ids) + 1] \in DOMAIN id_map' /\ id_map'[ids'[Len(ids) + 1]] = Len(ids) + 1
    BY <1>3, <1>4
  <2>3. \A pos \in DOMAIN ids' : pos \in 1..Len(ids) \/ pos = Len(ids) + 1
    BY <1>2, <1>3
  <2>4. QED
    BY <2>1, <2>2, <2>3
<1>8. Match(ids, id_map)'
  BY <1>1, <1>3, <1>4, <1>6, <1>7 DEF Match
<1>9. Small(id_map)'
  <2>1. Cardinality(DOMAIN id_map \cup {id}) = Cardinality(DOMAIN id_map) + 1
    BY <1>1, <1>2, FS_AddElement
  <2>2. Cardinality(DOMAIN id_map) + 1 <= MaxSize
    BY <1>1, <1>2, SizeAssumption
  <2>3. QED
    BY <1>4, <2>1, <2>2 DEF Small
<1>10. R!U!Room(id)
  <2>1. Cardinality(DOMAIN id_map) < MaxSize
    BY <1>1, <1>2, SizeAssumption
  <2>2. r_last' = R!U!Call(id, TRUE, {})
    BY <1>1 DEF R!U!Call, R!Call
  <2>3. QED
    BY <1>1, <1>4, <2>1, <2>2, RSameCount DEF R!U!Room
<1>11. RInv'
  BY <1>8, <1>9 DEF RInv, Match, Small
<1>12. QED
  BY <1>10, <1>11

LEMMA RReplacePromised ==
    ASSUME RInv, NEW id \in Id, NEW pos \in DOMAIN ids, R!TouchReplace(id, pos), UNCHANGED r_saved
    PROVE  RInv' /\ \E old \in DOMAIN id_map : R!U!Replace(id, old)
<1>1. PICK old : old = ids[pos]
  OBVIOUS
<1>2. /\ id \notin DOMAIN id_map /\ Cardinality(DOMAIN id_map) >= MaxSize
      /\ ids' = [ids EXCEPT ![pos] = id]
      /\ id_map' = R!Placed(R!Without(id_map, old), id, pos)
      /\ r_last' = R!Call(id, TRUE, {old})
  BY <1>1, RSameCount DEF R!TouchReplace, R!exists_in_memory, R!Full
<1>3. /\ ids \in Seq(Id) /\ DOMAIN ids = 1..Len(ids) /\ Len(ids) \in Nat
      /\ IsFiniteSet(DOMAIN id_map) /\ Cardinality(DOMAIN id_map) \in Nat
      /\ Cardinality(DOMAIN id_map) <= MaxSize
      /\ \A i \in DOMAIN id_map : id_map[i] \in 1..Len(ids) /\ ids[id_map[i]] = i
      /\ \A p \in 1..Len(ids) : ids[p] \in DOMAIN id_map /\ id_map[ids[p]] = p
  BY RFacts
<1>4. /\ DOMAIN id_map' = (DOMAIN id_map \ {old}) \cup {id}
      /\ id_map' = [i \in DOMAIN id_map' |-> id_map'[i]]
      /\ id_map'[id] = pos
      /\ \A i \in DOMAIN id_map \ {old} : id_map'[i] = id_map[i]
  BY <1>2 DEF R!Placed, R!Without
<1>5. /\ ids' \in Seq(Id) /\ DOMAIN ids' = 1..Len(ids)
      /\ ids'[pos] = id /\ \A p \in 1..Len(ids) : p # pos => ids'[p] = ids[p]
  <2>1. /\ [ids EXCEPT ![pos] = id] \in Seq(Id)
        /\ DOMAIN [ids EXCEPT ![pos] = id] = 1..Len(ids)
    BY <1>3, ExceptSeq
  <2>2. QED
    BY <1>2, <1>3, <2>1
<1>6. old \in DOMAIN id_map /\ id_map[old] = pos /\ pos \in 1..Len(ids)
  BY <1>1, <1>3
<1>7. \A i \in DOMAIN id_map' : id_map'[i] \in DOMAIN ids' /\ ids'[id_map'[i]] = i
  <2>1. ASSUME NEW i \in DOMAIN id_map \ {old} PROVE id_map'[i] \in DOMAIN ids' /\ ids'[id_map'[i]] = i
    <3>1. id_map[i] # pos
      BY <1>1, <1>3
    <3>2. QED
      BY <1>3, <1>4, <1>5, <3>1
  <2>2. id_map'[id] \in DOMAIN ids' /\ ids'[id_map'[id]] = id
    BY <1>4, <1>5, <1>6
  <2>3. QED
    BY <1>4, <2>1, <2>2
<1>8. \A p \in DOMAIN ids' : ids'[p] \in DOMAIN id_map' /\ id_map'[ids'[p]] = p
  <2>1. ASSUME NEW p \in 1..Len(ids), p # pos PROVE ids'[p] \in DOMAIN id_map' /\ id_map'[ids'[p]] = p
    <3>1. ids[p] \in DOMAIN id_map \ {old}
      BY <1>3, <1>6, <2>1
    <3>2. QED
      BY <1>3, <1>4, <1>5, <2>1, <3>1
  <2>2. ids'[pos] \in DOMAIN id_map' /\ id_map'[ids'[pos]] = pos
    BY <1>4, <1>5
  <2>3. QED
    BY <1>5, <2>1, <2>2
<1>9. Match(ids, id_map)'
  BY <1>4, <1>5, <1>7, <1>8 DEF Match
<1>10. Small(id_map)'
  <2>1. PICK D : D = DOMAIN id_map
    OBVIOUS
  <2>2. IsFiniteSet(D \ {old}) /\ Cardinality(D \ {old}) = Cardinality(D) - 1
    BY <1>3, <1>6, <2>1, FS_RemoveElement
  <2>3. Cardinality((D \ {old}) \cup {id}) = Cardinality(D \ {old}) + 1
    BY <1>2, <2>1, <2>2, FS_AddElement
  <2>4. Cardinality((D \ {old}) \cup {id}) = Cardinality(D)
    BY <1>3, <2>1, <2>2, <2>3
  <2>5. QED
    BY <1>3, <1>4, <2>1, <2>4 DEF Small
<1>11. R!U!Replace(id, old)
  <2>1. r_last' = R!U!Call(id, TRUE, {old})
    BY <1>2 DEF R!U!Call, R!Call
  <2>2. QED
    BY <1>2, <1>4, <2>1, RSameCount DEF R!U!Replace
<1>12. RInv'
  BY <1>9, <1>10 DEF RInv, Match, Small
<1>13. QED
  BY <1>6, <1>11, <1>12

\* The vector and the map that remove makes.
LEMMA RTakenMatches ==
    ASSUME RInv, NEW id \in DOMAIN id_map
    PROVE  /\ Match(R!Taken(id).ids, R!Taken(id).id_map)
           /\ DOMAIN R!Taken(id).id_map = DOMAIN id_map \ {id}
<1>1. /\ ids \in Seq(Id) /\ DOMAIN ids = 1..Len(ids) /\ Len(ids) \in Nat
      /\ DOMAIN id_map \in SUBSET Id
      /\ \A i \in DOMAIN id_map : id_map[i] \in 1..Len(ids) /\ ids[id_map[i]] = i
      /\ \A p \in 1..Len(ids) : ids[p] \in DOMAIN id_map /\ id_map[ids[p]] = p
  BY RFacts
<1>2. PICK n \in Nat : n = Len(ids) /\ n \in 1..n
  <2>1. PICK n \in Nat : n = Len(ids)
    BY <1>1
  <2>2. id_map[id] \in 1..n
    BY <1>1, <2>1
  <2>3. n \in 1..n
    BY <2>2
  <2>4. QED
    BY <2>1, <2>3
<1>3. PICK back : back = ids[n]
  OBVIOUS
<1>4. PICK short : short = R!Shortened
  OBVIOUS
<1>5. short \in Seq(Id) /\ Len(short) = n - 1 /\ \A p \in 1..(n - 1) : short[p] = ids[p]
  <2>1. PICK x, y : x = 1 /\ y = n - 1
    OBVIOUS
  <2>2. x \in Int /\ y \in Int /\ \A p \in x..y : ids[p] \in Id
    BY <1>1, <1>2, <2>1
  <2>3. /\ SubSeq(ids, x, y) \in Seq(Id) /\ Len(SubSeq(ids, x, y)) = IF x <= y THEN y - x + 1 ELSE 0
        /\ \A p \in 1..(y - x + 1) : SubSeq(ids, x, y)[p] = ids[x + p - 1]
    BY <2>2, SubSeqProperties
  <2>4. short = SubSeq(ids, x, y)
    BY <1>2, <1>4, <2>1 DEF R!Shortened
  <2>5. Len(short) = n - 1
    BY <1>2, <2>1, <2>3, <2>4
  <2>6. \A p \in 1..(n - 1) : p \in 1..(y - x + 1) /\ x + p - 1 = p
    BY <1>2, <2>1
  <2>7. \A p \in 1..(n - 1) : short[p] = ids[p]
    BY <2>3, <2>4, <2>6
  <2>8. QED
    BY <2>3, <2>4, <2>5, <2>7
<1>6. back \in DOMAIN id_map /\ id_map[back] = n /\ back \in Id /\ R!Back = back
  BY <1>1, <1>2, <1>3 DEF R!Back
<1>7. DOMAIN short = 1..(n - 1)
  BY <1>5, LenProperties
<1>8. CASE id = back
  <2>1. PICK m : m = R!Without(id_map, id)
    OBVIOUS
  <2>2. R!Taken(id).ids = short /\ R!Taken(id).id_map = m
    BY <1>4, <1>6, <1>8, <2>1 DEF R!Taken
  <2>3. /\ DOMAIN m = DOMAIN id_map \ {id} /\ m = [i \in DOMAIN m |-> m[i]]
        /\ \A i \in DOMAIN m : m[i] = id_map[i]
    BY <2>1 DEF R!Without
  <2>4. \A i \in DOMAIN m : m[i] \in DOMAIN short /\ short[m[i]] = i
    <3>1. \A i \in DOMAIN m : id_map[i] \in 1..n /\ id_map[i] # n
      BY <1>1, <1>2, <1>3, <1>8, <2>3
    <3>2. \A i \in DOMAIN m : id_map[i] \in 1..(n - 1)
      BY <3>1
    <3>3. QED
      BY <1>1, <1>5, <1>7, <2>3, <3>2
  <2>5. \A p \in DOMAIN short : short[p] \in DOMAIN m /\ m[short[p]] = p
    <3>1. \A p \in 1..(n - 1) : p \in 1..n /\ p # n
      BY <1>2
    <3>2. ASSUME NEW p \in 1..(n - 1) PROVE ids[p] \in DOMAIN id_map /\ id_map[ids[p]] = p /\ ids[p] # id
      <4>1. p \in 1..n /\ p # n
        BY <3>1
      <4>2. ids[p] \in DOMAIN id_map /\ id_map[ids[p]] = p
        BY <1>1, <1>2, <4>1
      <4>3. QED
        BY <1>6, <1>8, <4>1, <4>2
    <3>3. QED
      BY <1>5, <1>7, <2>3, <3>2
  <2>6. QED
    BY <1>5, <2>2, <2>3, <2>4, <2>5 DEF Match
<1>9. CASE id # back
  <2>1. PICK p \in 1..n : p = id_map[id]
    BY <1>1, <1>2
  <2>2. ids[p] = id /\ p # n /\ p \in 1..(n - 1)
    BY <1>1, <1>3, <1>9, <2>1
  <2>3. PICK m, t : m = R!Placed(R!Without(id_map, id), back, p) /\ t = [short EXCEPT ![p] = back]
    OBVIOUS
  <2>4. R!Taken(id).ids = t /\ R!Taken(id).id_map = m
    BY <1>4, <1>6, <1>9, <2>1, <2>3 DEF R!Taken
  <2>5. /\ DOMAIN m = DOMAIN id_map \ {id} /\ m = [i \in DOMAIN m |-> m[i]]
        /\ m[back] = p /\ \A i \in DOMAIN m : i # back => m[i] = id_map[i]
    BY <1>6, <1>9, <2>3 DEF R!Without, R!Placed
  <2>6. /\ t \in Seq(Id) /\ DOMAIN t = 1..(n - 1)
        /\ t[p] = back /\ \A q \in 1..(n - 1) : q # p => t[q] = ids[q]
    <3>1. t \in Seq(Id)
      <4>1. p \in 1..Len(short)
        BY <1>5, <2>2
      <4>2. QED
        BY <1>5, <1>6, <2>3, <4>1, ExceptSeq
    <3>2. QED
      BY <1>5, <1>7, <2>2, <2>3, <3>1
  <2>7. ASSUME NEW i \in DOMAIN m PROVE m[i] \in DOMAIN t /\ t[m[i]] = i
    <3>1. CASE i = back
      BY <2>2, <2>5, <2>6, <3>1
    <3>2. CASE i # back
      <4>1. id_map[i] \in 1..n /\ ids[id_map[i]] = i /\ m[i] = id_map[i] /\ i # id
        BY <1>1, <1>2, <2>5, <3>2
      <4>2. id_map[i] # n /\ id_map[i] # p
        BY <1>3, <2>2, <3>2, <4>1
      <4>3. id_map[i] \in 1..(n - 1)
        BY <4>1, <4>2
      <4>4. QED
        BY <2>6, <4>1, <4>2, <4>3
    <3>3. QED
      BY <3>1, <3>2
  <2>8. ASSUME NEW q \in DOMAIN t PROVE t[q] \in DOMAIN m /\ m[t[q]] = q
    <3>1. CASE q = p
      BY <1>6, <1>9, <2>5, <2>6, <3>1
    <3>2. CASE q # p
      <4>1. q \in 1..n /\ q # n /\ t[q] = ids[q]
        BY <1>2, <2>6, <3>2
      <4>2. ids[q] \in DOMAIN id_map /\ id_map[ids[q]] = q
        BY <1>1, <1>2, <4>1
      <4>3. ids[q] # id /\ ids[q] # back
        BY <1>6, <2>1, <3>2, <4>1, <4>2
      <4>4. QED
        BY <2>5, <4>1, <4>2, <4>3
    <3>3. QED
      BY <3>1, <3>2
  <2>9. QED
    BY <2>4, <2>5, <2>6, <2>7, <2>8 DEF Match
<1>10. QED
  BY <1>8, <1>9

LEMMA RRemovePromised ==
    ASSUME RInv, NEW id \in Id, R!remove(id)
    PROVE  RInv' /\ R!U!Remove(id)
<1>1. /\ UNCHANGED r_saved
      /\ IF id \in DOMAIN id_map
         THEN ids' = R!Taken(id).ids /\ id_map' = R!Taken(id).id_map
         ELSE UNCHANGED <<ids, id_map>>
      /\ r_last' = R!U!Call(id, id \in DOMAIN id_map, {})
  BY DEF R!remove, R!exists_in_memory, R!Call, R!U!Call
<1>2. Match(ids, id_map)' /\ DOMAIN id_map' = DOMAIN id_map \ {id}
  <2>1. CASE id \in DOMAIN id_map
    <3>1. PICK i, m : i = R!Taken(id).ids /\ m = R!Taken(id).id_map
      OBVIOUS
    <3>2. Match(i, m) /\ DOMAIN m = DOMAIN id_map \ {id}
      BY <2>1, <3>1, RTakenMatches
    <3>3. ids' = i /\ id_map' = m
      BY <1>1, <2>1, <3>1
    <3>4. QED
      BY <3>2, <3>3 DEF Match
  <2>2. CASE id \notin DOMAIN id_map
    BY <1>1, <2>2 DEF RInv, Match
  <2>3. QED
    BY <2>1, <2>2
<1>3. Small(id_map)'
  <2>1. /\ IsFiniteSet(DOMAIN id_map) /\ Cardinality(DOMAIN id_map) \in Nat
        /\ Cardinality(DOMAIN id_map) <= MaxSize
    BY RFacts
  <2>2. Cardinality(DOMAIN id_map \ {id}) <= Cardinality(DOMAIN id_map)
        /\ Cardinality(DOMAIN id_map \ {id}) \in Nat
    <3>1. DOMAIN id_map \ {id} \in SUBSET DOMAIN id_map
      OBVIOUS
    <3>2. QED
      BY <2>1, <3>1, FS_Subset, FS_CardinalityType
  <2>3. Cardinality(DOMAIN id_map \ {id}) <= MaxSize
    BY <2>1, <2>2, SizeAssumption
  <2>4. QED
    BY <1>2, <2>3 DEF Small
<1>4. RInv'
  BY <1>1, <1>2, <1>3 DEF RInv, Match, Small
<1>5. R!U!Remove(id)
  BY <1>1, <1>2 DEF R!U!Remove
<1>6. QED
  BY <1>4, <1>5

\* The vector and the map of an unlearner that has nothing.
LEMMA RNothing == /\ R!Empty.ids = <<>> /\ DOMAIN R!Empty.id_map = {}
                  /\ Match(<<>>, R!Empty.id_map) /\ Small(R!Empty.id_map)
<1>1. R!Empty.ids = <<>> /\ R!Empty.id_map = [id \in {} |-> 0]
  BY DEF R!Empty
<1>2. PICK m : m = [id \in {} |-> 0]
  OBVIOUS
<1>3. DOMAIN m = {} /\ m = [id \in DOMAIN m |-> m[id]]
  BY <1>2
<1>4. <<>> \in Seq(Id) /\ DOMAIN <<>> = {}
  BY EmptySeq
<1>5. Cardinality({}) = 0
  BY FS_EmptySet
<1>6. Match(<<>>, m)
  BY <1>3, <1>4 DEF Match
<1>7. Small(m)
  BY <1>3, <1>5, SizeAssumption DEF Small
<1>8. QED
  BY <1>1, <1>2, <1>3, <1>6, <1>7

LEMMA RClearPromised ==
    ASSUME RInv, R!clear PROVE RInv' /\ R!U!Clear
<1>1. ids' = <<>> /\ id_map' = R!Empty.id_map /\ r_last' = R!NoCall /\ UNCHANGED r_saved
  BY DEF R!clear
<1>2. Match(ids, id_map)' /\ Small(id_map)' /\ DOMAIN id_map' = {}
  BY <1>1, RNothing DEF Match, Small
<1>3. RInv'
  BY <1>1, <1>2 DEF RInv, Match, Small
<1>4. R!U!Clear
  BY <1>1, <1>2 DEF R!U!Clear, R!U!NoCall, R!NoCall, R!U!Call, R!Call
<1>5. QED
  BY <1>3, <1>4

LEMMA RPackKeeps ==
    ASSUME RInv, R!pack PROVE RInv' /\ UNCHANGED R!U!vars
<1>1. /\ UNCHANGED <<ids, id_map, r_last>>
      /\ r_saved'.ids = ids /\ r_saved'.id_map = id_map
  BY DEF R!pack
<1>2. RInv'
  BY <1>1 DEF RInv, Match, Small
<1>3. QED
  BY <1>1, <1>2 DEF R!U!vars

LEMMA RUnpackPromised ==
    ASSUME RInv, R!unpack PROVE RInv' /\ R!U!Load
<1>1. ids' = r_saved.ids /\ id_map' = r_saved.id_map /\ r_last' = R!NoCall /\ UNCHANGED r_saved
  BY DEF R!unpack
<1>2. Match(r_saved.ids, r_saved.id_map) /\ Small(r_saved.id_map)
  BY DEF RInv
<1>3. RInv'
  BY <1>1, <1>2 DEF RInv, Match, Small
<1>4. DOMAIN r_saved.id_map \in SUBSET Id
  BY <1>2, MatchFacts
<1>5. r_last' = R!U!NoCall
  BY <1>1 DEF R!U!NoCall, R!NoCall, R!U!Call, R!Call
<1>6. R!U!Load
  BY <1>1, <1>2, <1>4, <1>5, RSameCount DEF R!U!Load, Small
<1>7. QED
  BY <1>3, <1>6

LEMMA RInitPromised == R!Init => RInv /\ R!U!Init
<1> SUFFICES ASSUME R!Init PROVE RInv /\ R!U!Init
  OBVIOUS
<1>1. ids = <<>> /\ id_map = R!Empty.id_map /\ r_saved = R!Empty /\ r_last = R!NoCall
  BY DEF R!Init
<1>2. RInv
  BY <1>1, RNothing DEF RInv
<1>3. R!U!Init
  BY <1>1, RNothing DEF R!U!Init, R!U!NoCall, R!NoCall, R!U!Call, R!Call
<1>4. QED
  BY <1>2, <1>3

LEMMA RNextPromised == RInv /\ [R!Next]_(R!vars) => RInv' /\ [R!U!Next]_(R!U!vars)
<1> SUFFICES ASSUME RInv, [R!Next]_(R!vars) PROVE RInv' /\ [R!U!Next]_(R!U!vars)
  OBVIOUS
<1>1. CASE \E id \in Id : R!touch(id)
  <2> PICK id \in Id : R!touch(id)
    BY <1>1
  <2>1. UNCHANGED r_saved
    BY DEF R!touch
  <2>2. CASE R!TouchKnown(id)
    BY <2>1, <2>2, RKnownPromised DEF R!U!Next, R!U!Touch
  <2>3. CASE R!TouchRoom(id)
    BY <2>1, <2>3, RRoomPromised DEF R!U!Next, R!U!Touch
  <2>4. CASE \E pos \in DOMAIN ids : R!TouchReplace(id, pos)
    <3>1. RInv' /\ \E old \in DOMAIN id_map \ {} : R!U!Replace(id, old)
      BY <2>1, <2>4, RReplacePromised
    <3>2. QED
      BY <3>1 DEF R!U!Next, R!U!Touch
  <2>5. QED
    BY <2>2, <2>3, <2>4 DEF R!touch
<1>2. CASE \E id \in Id : R!remove(id)
  BY <1>2, RRemovePromised DEF R!U!Next
<1>3. CASE R!clear
  BY <1>3, RClearPromised DEF R!U!Next
<1>4. CASE R!pack
  BY <1>4, RPackKeeps
<1>5. CASE R!unpack
  BY <1>5, RUnpackPromised DEF R!U!Next
<1>6. CASE UNCHANGED R!vars
  BY <1>6 DEF R!vars, RInv, Match, Small, R!U!vars
<1>7. QED
  BY <1>1, <1>2, <1>3, <1>4, <1>5, <1>6 DEF R!Next

\* random_unlearner implements the same promise, without sticky ids.
THEOREM RandomKeepsPromise == R!Spec => R!ImplementsUnlearner
<1>1. R!Init => RInv /\ R!U!Init
  BY RInitPromised
<1>2. RInv /\ [R!Next]_(R!vars) => RInv' /\ [R!U!Next]_(R!U!vars)
  BY RNextPromised
<1>3. QED
  BY <1>1, <1>2, PTL DEF R!Spec, R!ImplementsUnlearner, R!U!Spec

\* Its vector and its map find each other after every call.
THEOREM RandomMapMatches == R!Spec => []R!MapMatchesIds
<1>1. RInv => R!MapMatchesIds
  BY DEF RInv, Match, R!MapMatchesIds
<1>2. QED
  BY <1>1, RInitPromised, RNextPromised, PTL DEF R!Spec
=============================================================================
