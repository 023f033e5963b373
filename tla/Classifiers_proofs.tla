------------------------- MODULE Classifiers_proofs -------------------------
(***************************************************************************)
(* The locks of nearest_neighbor_classifier suffice for the calls that may *)
(* overlap, and its rows, counts of labels and unlearner fit each other,   *)
(* for any threads, ids, labels and bounds.  In the second part, no label  *)
(* of a linear classifier inherits what another learned.                   *)
(***************************************************************************)
EXTENDS MCLearners, FiniteSetTheorems, TLAPS

\* What TypeOK says, with the finiteness and the bounds that keep it so.
Count == 0..CountSize - 1
Counts == UNION {[D -> Count] : D \in SUBSET Label}

TypeInv ==
    /\ rows \in SUBSET Id /\ IsFiniteSet(rows)
    /\ memory \in SUBSET Id /\ IsFiniteSet(memory) /\ Cardinality(memory) <= MaxSize
    /\ counts \in Counts
    /\ mutex \in SUBSET Thread /\ \A t, u \in mutex : t = u
    /\ tableLock \in SUBSET Thread /\ \A t, u \in tableLock : t = u
    /\ pc \in [Thread -> PCs]
    /\ id \in [Thread -> Id]
    /\ label \in [Thread -> Label]
    /\ todo \in [Thread -> SUBSET Id]
    /\ copy \in [Thread -> Counts]
    /\ alone \in BOOLEAN /\ refused \in BOOLEAN

\* Where a thread holds which lock.
HoldsMutex == {"touch", "touched", "refused", "cleared"}
HoldsTable == {"touched", "refused", "delete_row", "forget", "pushed"}

LockInv ==
    \A t \in Thread :
        /\ t \in mutex <=> pc[t] \in HoldsMutex
        /\ t \in tableLock <=> pc[t] \in HoldsTable

\* Calls that run side by side are allowed to.
TogetherInv ==
    \A t, u \in Thread :
        t # u /\ ~At(t, "idle") /\ ~At(u, "idle") => {CallAt(pc[t]), CallAt(pc[u])} \subseteq Together

\* What holds of the model when nothing ran but one call after the other.
CountOf(c, l) == IF l \in DOMAIN c THEN c[l] ELSE 0
RowsOf(S, l) == Cardinality({i \in S : LabelOf[i] = l})
Has(l) == RowsOf(rows, l)
Known == refused \/ rows \subseteq memory

Rested ==
    /\ \A l \in Label : Has(l) = CountOf(counts, l)
    /\ memory \subseteq rows
    /\ Known

\* The same while thread t is in a call: what it has yet to do is missing.
Training(t) ==
    /\ pc[t] \in {"touch", "refused", "touched", "set_row"} =>
           \A l \in Label : Has(l) = CountOf(counts, l)
    /\ pc[t] \in {"touch", "refused"} => memory \subseteq rows
    /\ pc[t] = "touch" => id[t] \notin rows
    /\ pc[t] \in {"touched", "set_row"} =>
           id[t] \in memory \ rows /\ memory \subseteq rows \cup {id[t]}
    /\ pc[t] \in {"add", "add_new", "increment"} =>
           /\ \A l \in Label : Has(l) = CountOf(counts, l) + (IF l = LabelOf[id[t]] THEN 1 ELSE 0)
           /\ memory \subseteq rows
    /\ pc[t] = "add_new" => LabelOf[id[t]] \notin DOMAIN counts

Deleting(t) ==
    /\ pc[t] \in {"delete", "delete_row", "forget"} =>
           /\ label[t] \notin DOMAIN counts
           /\ \A l \in Label \ {label[t]} : Has(l) = CountOf(counts, l)
    /\ pc[t] \in {"delete", "delete_row"} => memory \subseteq rows
    /\ pc[t] \in {"delete_row", "forget"} => todo[t] = {i \in rows : LabelOf[i] = label[t]}
    /\ pc[t] = "forget" => id[t] \notin rows /\ memory \subseteq rows \cup {id[t]}

Pushing(t) ==
    /\ pc[t] \in {"push", "pushed", "get_labels", "count", "swap"} => memory \subseteq rows
    /\ pc[t] = "swap" => \A l \in Label : Has(l) = CountOf(copy[t], l)

Clearing(t) ==
    /\ pc[t] \in {"clear_labels", "clear_unlearner", "cleared"} => rows = {}
    /\ pc[t] \in {"clear_unlearner", "cleared"} => DOMAIN counts = {}
    /\ pc[t] = "cleared" => memory = {}

Busy(t) ==
    /\ ~At(t, "idle")
    /\ \A u \in Thread \ {t} : At(u, "idle")
    /\ Known
    /\ Training(t) /\ Deleting(t) /\ Pushing(t) /\ Clearing(t)

SoloInv == alone => (AtRest /\ Rested) \/ \E t \in Thread : Busy(t)
---------------------------------------------------------------------------
(* The counts of labels.                                                   *)

LEMMA ModIsCount == ASSUME NEW n \in Int PROVE n % CountSize \in Count
BY SizeAssumption DEF Count

LEMMA SmallMod == ASSUME NEW n \in Count PROVE n % CountSize = n
BY SizeAssumption DEF Count

LEMMA CountsAre == ASSUME NEW D \in SUBSET Label, NEW c \in [D -> Count] PROVE c \in Counts
BY DEF Counts

\* Adding to a count, dropping one and taking one away keep counts what they are.
LEMMA CountsKept ==
    ASSUME NEW c \in Counts, NEW l \in Label, NEW d \in Int
    PROVE  /\ With(c, l, d) \in Counts
           /\ DOMAIN With(c, l, d) = DOMAIN c \cup {l}
           /\ Without(c, l) \in Counts
           /\ DOMAIN Without(c, l) = DOMAIN c \ {l}
<1>1. PICK D \in SUBSET Label : c \in [D -> Count]
  BY DEF Counts
<1>2. \A k \in D : c[k] \in Count
  BY <1>1
<1>3. ASSUME NEW k \in D \cup {l}
      PROVE  With(c, l, d)[k] \in Count
  <2>1. CASE k # l
    BY <1>1, <1>2, <1>3, <2>1 DEF With
  <2>2. CASE k = l
    <3> DEFINE n == (IF l \in DOMAIN c THEN c[l] ELSE 0) + d
    <3>1. n \in Int
      BY <1>1, <1>2 DEF Count
    <3>2. With(c, l, d)[k] = n % CountSize
      BY <1>1, <1>3, <2>2 DEF With
    <3>3. QED
      BY <3>1, <3>2, ModIsCount
  <2>3. QED
    BY <2>1, <2>2
<1>4. With(c, l, d) \in [D \cup {l} -> Count]
  BY <1>1, <1>3 DEF With
<1>5. Without(c, l) \in [D \ {l} -> Count]
  BY <1>1, <1>2 DEF Without
<1>6. D \cup {l} \in SUBSET Label /\ D \ {l} \in SUBSET Label
  BY <1>1
<1>7. With(c, l, d) \in Counts
  BY <1>4, <1>6 DEF Counts
<1>8. Without(c, l) \in Counts
  BY <1>5, <1>6 DEF Counts
<1>9. QED
  BY <1>1, <1>4, <1>5, <1>7, <1>8

LEMMA DecrementKept ==
    ASSUME NEW c \in Counts, NEW l \in Label
    PROVE  Decrement(c, l) \in Counts
<1> DEFINE d == -1
<1>1. d \in Int
  OBVIOUS
<1> HIDE DEF d
<1>2. With(c, l, d) \in Counts /\ Without(c, l) \in Counts
  BY <1>1, CountsKept
<1>3. QED
  BY <1>2 DEF Decrement, d

\* A label with a count loses one; the others keep theirs.
LEMMA DecrementTakesOne ==
    ASSUME NEW c \in Counts, NEW l \in DOMAIN c, c[l] > 0
    PROVE  \A k \in Label :
               CountOf(Decrement(c, l), k) = CountOf(c, k) - (IF k = l THEN 1 ELSE 0)
<1>1. PICK D \in SUBSET Label : c \in [D -> Count]
  BY DEF Counts
<1> DEFINE less == With(c, l, -1)
<1>2. DOMAIN less = DOMAIN c /\ \A k \in DOMAIN c \ {l} : less[k] = c[k]
  BY <1>1 DEF With
<1>3. less[l] = c[l] - 1
  <2>1. c[l] - 1 \in Count /\ c[l] - 1 = c[l] + (-1)
    <3>1. c[l] \in Count /\ CountSize \in Nat
      BY <1>1, SizeAssumption
    <3>2. QED
      BY <3>1 DEF Count
  <2>2. less[l] = (c[l] + (-1)) % CountSize
    BY <1>1 DEF With
  <2>3. QED
    BY <2>1, <2>2, SmallMod
<1>4. \A k \in DOMAIN c : c[k] \in Int
  BY <1>1 DEF Count
<1> HIDE DEF less
<1>5. CASE less[l] = 0
  <2>1. Decrement(c, l) = [k \in DOMAIN c \ {l} |-> c[k]]
    BY <1>5 DEF Decrement, Without, less
  <2>2. QED
    BY <1>2, <1>3, <1>4, <1>5, <2>1 DEF CountOf
<1>6. CASE less[l] # 0
  <2>1. Decrement(c, l) = less
    BY <1>6 DEF Decrement, less
  <2>2. QED
    BY <1>2, <1>3, <1>4, <2>1 DEF CountOf
<1>7. QED
  BY <1>5, <1>6

\* One more of a label whose count has room.
LEMMA IncrementAddsOne ==
    ASSUME NEW c \in Counts, NEW l \in Label, CountOf(c, l) + 1 < CountSize
    PROVE  \A k \in Label :
               CountOf(With(c, l, 1), k) = CountOf(c, k) + (IF k = l THEN 1 ELSE 0)
<1>1. PICK D \in SUBSET Label : c \in [D -> Count]
  BY DEF Counts
<1> DEFINE more == With(c, l, 1)
<1>2. DOMAIN more = DOMAIN c \cup {l} /\ \A k \in DOMAIN c \ {l} : more[k] = c[k]
  BY <1>1 DEF With
<1>3. CountOf(c, l) \in Nat /\ \A k \in DOMAIN c : c[k] \in Int
  BY <1>1 DEF CountOf, Count
<1>4. more[l] = CountOf(c, l) + 1
  <2>1. CountOf(c, l) + 1 \in Count
    BY <1>3, SizeAssumption DEF Count
  <2>2. more[l] = (CountOf(c, l) + 1) % CountSize
    BY <1>1 DEF With, CountOf
  <2>3. QED
    BY <2>1, <2>2, SmallMod
<1> HIDE DEF more
<1>5. QED
  BY <1>2, <1>3, <1>4 DEF CountOf, more

---------------------------------------------------------------------------
(* The unlearner.                                                          *)

\* touch unlearns nothing, or one id that is in its memory.
LEMMA VictimsAre ==
    ASSUME TypeInv, NEW i \in Id, NEW out \in Victims(i)
    PROVE  \/ out = {} /\ (i \in memory \/ Cardinality(memory) < MaxSize)
           \/ /\ Cardinality(memory) >= MaxSize
              /\ i \notin memory
              /\ \E v \in memory : out = {v}
BY SizeAssumption, FS_CardinalityType DEF Victims, TypeInv

\* touch keeps the memory within its bound.
LEMMA TouchBound ==
    ASSUME TypeInv, NEW i \in Id, NEW out \in Victims(i)
    PROVE  LET mem == (memory \ out) \cup {i}
           IN  mem \in SUBSET Id /\ IsFiniteSet(mem) /\ Cardinality(mem) <= MaxSize
<1> DEFINE mem == (memory \ out) \cup {i}
<1>1. IsFiniteSet(memory) /\ Cardinality(memory) \in Nat /\ Cardinality(memory) <= MaxSize
      /\ MaxSize \in Nat \ {0}
  BY FS_CardinalityType, SizeAssumption DEF TypeInv
<1>2. mem \in SUBSET Id
  BY DEF TypeInv
<1>3. CASE out = {}
  <2>1. i \in memory \/ Cardinality(memory) < MaxSize
    BY <1>1, <1>3, VictimsAre
  <2>2. /\ IsFiniteSet(memory \cup {i})
        /\ Cardinality(memory \cup {i}) =
               IF i \in memory THEN Cardinality(memory) ELSE Cardinality(memory) + 1
    BY <1>1, FS_AddElement
  <2>3. mem = memory \cup {i}
    BY <1>3
  <2>4. QED
    BY <1>1, <1>2, <2>1, <2>2, <2>3
<1>4. CASE out # {}
  <2>1. PICK v \in memory : out = {v}
    BY <1>4, VictimsAre
  <2>2. i \notin memory
    BY <1>4, VictimsAre
  <2>3. IsFiniteSet(memory \ {v}) /\ Cardinality(memory \ {v}) = Cardinality(memory) - 1
    BY <1>1, <2>1, FS_RemoveElement
  <2>4. /\ IsFiniteSet((memory \ {v}) \cup {i})
        /\ Cardinality((memory \ {v}) \cup {i}) = Cardinality(memory \ {v}) + 1
    BY <2>2, <2>3, FS_AddElement
  <2>5. mem = (memory \ {v}) \cup {i}
    BY <2>1
  <2>6. QED
    BY <1>1, <1>2, <2>3, <2>4, <2>5
<1>5. QED
  BY <1>3, <1>4

LEMMA UnlearnedKept ==
    ASSUME TypeInv, NEW i \in Id, NEW out \in Victims(i)
    PROVE  Unlearned(counts, out) \in Counts
<1>1. CASE out = {}
  BY <1>1 DEF Unlearned, TypeInv
<1>2. CASE out # {}
  <2>1. PICK v \in memory : out = {v}
    BY <1>2, VictimsAre
  <2>2. (CHOOSE x \in out : TRUE) = v
    BY <2>1
  <2>3. LabelOf[v] \in Label
    BY <2>1, LabelAssumption DEF TypeInv
  <2>4. Unlearned(counts, out) = Decrement(counts, LabelOf[v])
    BY <1>2, <2>2 DEF Unlearned
  <2>5. QED
    BY <2>3, <2>4, DecrementKept DEF TypeInv
<1>3. QED
  BY <1>1, <1>2

---------------------------------------------------------------------------
(* Types, locks and the calls that run.                                    *)

LEMMA CountsDomain ==
    ASSUME NEW c \in Counts
    PROVE  DOMAIN c \subseteq Label /\ \A l \in DOMAIN c : c[l] \in Count
BY DEF Counts

LEMMA NoCountsType == NoCounts \in Counts
<1>1. NoCounts \in [{} -> Count] /\ {} \in SUBSET Label
  BY DEF NoCounts
<1>2. QED
  BY <1>1 DEF Counts

LEMMA ZeroCounts ==
    ASSUME NEW D \in SUBSET Label
    PROVE  [l \in D |-> 0] \in Counts
<1>1. 0 \in Count
  BY SizeAssumption DEF Count
<1>2. [l \in D |-> 0] \in [D -> Count]
  BY <1>1
<1>3. QED
  BY <1>2 DEF Counts

LEMMA TypeInit == Init => TypeInv
<1>1. (CHOOSE i \in Id : TRUE) \in Id /\ (CHOOSE l \in Label : TRUE) \in Label
  BY LabelAssumption
<1>2. IsFiniteSet({}) /\ Cardinality({}) = 0
  BY FS_EmptySet
<1>3. "idle" \in PCs
  BY DEF PCs
<1>4. SUFFICES ASSUME Init PROVE TypeInv
  OBVIOUS
<1>5. /\ rows \in SUBSET Id /\ IsFiniteSet(rows)
      /\ memory \in SUBSET Id /\ IsFiniteSet(memory) /\ Cardinality(memory) <= MaxSize
  BY <1>2, <1>4, SizeAssumption DEF Init
<1>6. id \in [Thread -> Id] /\ label \in [Thread -> Label] /\ pc \in [Thread -> PCs]
  BY <1>1, <1>3, <1>4 DEF Init
<1>7. counts \in Counts /\ copy \in [Thread -> Counts]
  BY <1>4, NoCountsType DEF Init
<1>8. QED
  BY <1>4, <1>5, <1>6, <1>7 DEF Init, TypeInv

LEMMA TypeTrain ==
    ASSUME TypeInv, LockInv, NEW t \in Thread, Train(t)
    PROVE  TypeInv'
<1>1. ASSUME NEW i \in Id, TrainLock(t, i)
      PROVE  TypeInv'
  BY <1>1 DEF TrainLock, Call, Goto, TypeInv, PCs, data, locks, locals, history
<1>2. CASE TrainLockTable(t)
  <2>1. ASSUME NEW out \in Victims(id[t]),
               memory' = (memory \ out) \cup {id[t]},
               rows' = rows \ out,
               counts' = Unlearned(counts, out),
               Goto(t, "touched")
        PROVE  TypeInv'
    <3>1. id[t] \in Id
      BY DEF TypeInv
    <3>2. memory' \in SUBSET Id /\ IsFiniteSet(memory') /\ Cardinality(memory') <= MaxSize
      BY <2>1, <3>1, TouchBound
    <3>3. counts' \in Counts
      BY <2>1, <3>1, UnlearnedKept
    <3>4. rows' \in SUBSET Id /\ IsFiniteSet(rows')
      BY <2>1, FS_Subset DEF TypeInv
    <3>5. pc' \in [Thread -> PCs]
      BY <2>1 DEF TypeInv, PCs, Goto
    <3>6. QED
      BY <1>2, <3>2, <3>3, <3>4, <3>5 DEF TrainLockTable, TypeInv, locals, history
  <2>2. ASSUME Goto(t, "refused"), UNCHANGED data
        PROVE  TypeInv'
    BY <1>2, <2>2 DEF TrainLockTable, Goto, TypeInv, PCs, data, locals, history
  <2>3. QED
    BY <1>2, <2>1, <2>2 DEF TrainLockTable
<1>3. CASE TrainUnlock(t)
  BY <1>3 DEF TrainUnlock, Goto, At, TypeInv, PCs, data, locals, history
<1>4. CASE TrainSetRow(t)
  <2>1. rows' \in SUBSET Id /\ IsFiniteSet(rows')
    BY <1>4, FS_AddElement DEF TrainSetRow, TypeInv
  <2>2. QED
    BY <1>4, <2>1 DEF TrainSetRow, Goto, TypeInv, PCs, locks, locals, history
<1>5. CASE AddLookup(t)
  BY <1>5 DEF AddLookup, Goto, At, TypeInv, PCs, data, locks, locals, history
<1>6. CASE AddNew(t)
  <2> DEFINE l == LabelOf[id[t]]
             c == With(counts, l, 0)
  <2>1. l \in Label
    BY LabelAssumption DEF TypeInv
  <2>2. c \in Counts
    <3> DEFINE d == 0
    <3>1. d \in Int
      OBVIOUS
    <3> HIDE DEF d
    <3>2. With(counts, l, d) \in Counts
      BY <2>1, <3>1, CountsKept DEF TypeInv
    <3>3. QED
      BY <3>2 DEF d
  <2> HIDE DEF c
  <2>3. [c EXCEPT ![l] = 0] \in Counts
    <3>1. PICK D \in SUBSET Label : c \in [D -> Count]
      BY <2>2 DEF Counts
    <3>2. 0 \in Count
      BY SizeAssumption DEF Count
    <3>3. [c EXCEPT ![l] = 0] \in [D -> Count]
      BY <3>1, <3>2
    <3>4. QED
      BY <3>3, CountsAre
  <2>4. counts' \in Counts
    BY <1>6, <2>3 DEF AddNew, c
  <2>5. QED
    BY <1>6, <2>4 DEF AddNew, Goto, TypeInv, PCs, locks, locals, history
<1>7. CASE TrainIncrement(t)
  <2>1. counts' \in Counts
    <3> DEFINE d == 1
               l == LabelOf[id[t]]
    <3>1. d \in Int /\ l \in Label
      BY LabelAssumption DEF TypeInv
    <3> HIDE DEF d, l
    <3>2. With(counts, l, d) \in Counts
      BY <3>1, CountsKept DEF TypeInv
    <3>3. QED
      BY <1>7, <3>2 DEF TrainIncrement, d, l
  <2>2. QED
    BY <1>7, <2>1 DEF TrainIncrement, Goto, TypeInv, PCs, locks, locals, history
<1>8. QED
  BY <1>1, <1>2, <1>3, <1>4, <1>5, <1>6, <1>7 DEF Train

LEMMA TypeDelete ==
    ASSUME TypeInv, LockInv, NEW t \in Thread, Delete(t)
    PROVE  TypeInv'
<1>1. ASSUME NEW l \in Label, DeleteErase(t, l)
      PROVE  TypeInv'
  <2>1. counts' \in Counts
    <3>1. 0 \in Int
      OBVIOUS
    <3>2. QED
      BY <1>1, <3>1, CountsKept DEF DeleteErase, TypeInv
  <2>2. QED
    BY <1>1, <2>1 DEF DeleteErase, Call, Goto, TypeInv, PCs, locks, history
<1>2. CASE DeleteLock(t)
  BY <1>2 DEF DeleteLock, Goto, TypeInv, PCs, data, history
<1>3. ASSUME NEW i \in Id, DeleteRow(t, i)
      PROVE  TypeInv'
  <2>1. rows' \in SUBSET Id /\ IsFiniteSet(rows')
    BY <1>3, FS_RemoveElement DEF DeleteRow, TypeInv
  <2>2. QED
    BY <1>3, <2>1 DEF DeleteRow, Goto, TypeInv, PCs, locks, history
<1>4. CASE DeleteForget(t)
  <2>1. memory' \in SUBSET Id /\ IsFiniteSet(memory') /\ Cardinality(memory') <= MaxSize
    <3>1. memory' \subseteq memory
      BY <1>4 DEF DeleteForget
    <3>2. IsFiniteSet(memory') /\ Cardinality(memory') <= Cardinality(memory)
      BY <3>1, FS_Subset DEF TypeInv
    <3>3. Cardinality(memory') \in Nat /\ Cardinality(memory) \in Nat /\ MaxSize \in Nat
      BY <3>2, FS_CardinalityType, SizeAssumption DEF TypeInv
    <3>4. QED
      BY <3>1, <3>2, <3>3 DEF TypeInv
  <2>2. QED
    BY <1>4, <2>1 DEF DeleteForget, Goto, TypeInv, PCs, locks, locals, history
<1>5. CASE DeleteUnlock(t)
  BY <1>5 DEF DeleteUnlock, Goto, TypeInv, PCs, data, locals, history
<1>6. QED
  BY <1>1, <1>2, <1>3, <1>4, <1>5 DEF Delete

LEMMA TypePush ==
    ASSUME TypeInv, LockInv, NEW t \in Thread, Push(t)
    PROVE  TypeInv'
<1>1. CASE PushBegin(t)
  BY <1>1 DEF PushBegin, Call, Goto, TypeInv, PCs, data, locks, locals
<1>2. ASSUME NEW i \in Id, PushRow(t, i)
      PROVE  TypeInv'
  <2>1. /\ memory' \in SUBSET Id /\ IsFiniteSet(memory') /\ Cardinality(memory') <= MaxSize
        /\ counts' \in Counts
    BY <1>2, TouchBound, UnlearnedKept DEF PushRow, TypeInv
  <2>2. rows' \in SUBSET Id /\ IsFiniteSet(rows')
    <3>1. \A out : IsFiniteSet(rows \ out)
      BY FS_Subset DEF TypeInv
    <3>2. \A out : IsFiniteSet((rows \ out) \cup {i}) /\ IsFiniteSet(rows \cup {i})
      BY <3>1, FS_AddElement DEF TypeInv
    <3>3. QED
      BY <1>2, <3>2 DEF PushRow, TypeInv
  <2>3. QED
    BY <1>2, <2>1, <2>2 DEF PushRow, Goto, TypeInv, PCs
<1>3. CASE PushUnlock(t)
  BY <1>3 DEF PushUnlock, Goto, TypeInv, PCs, data, locals, history
<1>4. CASE PushEnd(t)
  BY <1>4 DEF PushEnd, Goto, TypeInv, PCs, data, locks, locals, history
<1>5. CASE RegenLabels(t)
  <2>1. DOMAIN counts \in SUBSET Label
    BY CountsDomain DEF TypeInv
  <2>2. copy' \in [Thread -> Counts]
    BY <1>5, <2>1, ZeroCounts DEF RegenLabels, TypeInv
  <2>3. QED
    BY <1>5, <2>2 DEF RegenLabels, Goto, TypeInv, PCs, data, locks, history
<1>6. CASE RegenCount(t)
  <2> DEFINE D == DOMAIN copy[t] \cup {LabelOf[i] : i \in rows}
             c == [l \in D |-> Cardinality({i \in rows : LabelOf[i] = l}) % CountSize]
  <2>1. D \in SUBSET Label
    BY CountsDomain, LabelAssumption DEF TypeInv
  <2>2. ASSUME NEW l \in D
        PROVE  c[l] \in Count
    <3>1. IsFiniteSet({i \in rows : LabelOf[i] = l})
      BY FS_Subset DEF TypeInv
    <3>2. Cardinality({i \in rows : LabelOf[i] = l}) \in Int
      BY <3>1, FS_CardinalityType
    <3>3. QED
      BY <3>2, ModIsCount
  <2>3. c \in Counts
    <3>1. c \in [D -> Count]
      BY <2>2
    <3> HIDE DEF D, c
    <3>2. QED
      BY <2>1, <3>1, CountsAre
  <2>4. copy' \in [Thread -> Counts]
    BY <1>6, <2>3 DEF RegenCount, TypeInv
  <2>5. QED
    BY <1>6, <2>4 DEF RegenCount, Goto, TypeInv, PCs, data, locks, history
<1>7. CASE RegenSwap(t)
  <2>1. counts' \in Counts /\ copy' \in [Thread -> Counts]
    BY <1>7, NoCountsType DEF RegenSwap, TypeInv
  <2>2. QED
    BY <1>7, <2>1 DEF RegenSwap, Goto, TypeInv, PCs, locks, history
<1>8. QED
  BY <1>1, <1>2, <1>3, <1>4, <1>5, <1>6, <1>7 DEF Push

LEMMA TypeClear ==
    ASSUME TypeInv, LockInv, NEW t \in Thread, Clear(t)
    PROVE  TypeInv'
<1>1. CASE ClearTable(t)
  BY <1>1, FS_EmptySet DEF ClearTable, Call, Goto, TypeInv, PCs, locks, locals
<1>2. CASE ClearLabels(t)
  BY <1>2, NoCountsType DEF ClearLabels, Goto, TypeInv, PCs, locks, locals, history
<1>3. CASE ClearUnlearner(t)
  BY <1>3, FS_EmptySet, SizeAssumption
     DEF ClearUnlearner, Goto, TypeInv, PCs, locals, history
<1>4. CASE ClearUnlock(t)
  BY <1>4 DEF ClearUnlock, Goto, TypeInv, PCs, data, locals, history
<1>5. QED
  BY <1>1, <1>2, <1>3, <1>4 DEF Clear

LEMMA LockStep ==
    ASSUME TypeInv, LockInv, NEW t \in Thread, Train(t) \/ Delete(t) \/ Push(t) \/ Clear(t)
    PROVE  LockInv'
<1>1. /\ pc \in [Thread -> PCs]
      /\ \A u, v \in mutex : u = v
      /\ \A u, v \in tableLock : u = v
  BY DEF TypeInv
<1>2. CASE Train(t)
  <2>1. ASSUME NEW i \in Id, TrainLock(t, i)
        PROVE  LockInv'
    BY <1>1, <2>1 DEF TrainLock, Call, Goto, At, LockInv, HoldsMutex, HoldsTable, locks
  <2>2. CASE TrainLockTable(t)
    BY <1>1, <2>2 DEF TrainLockTable, Call, Goto, At, LockInv, HoldsMutex, HoldsTable, locks
  <2>3. CASE TrainUnlock(t)
    BY <1>1, <2>3 DEF TrainUnlock, Call, Goto, At, LockInv, HoldsMutex, HoldsTable, locks
  <2>4. CASE TrainSetRow(t)
    BY <1>1, <2>4 DEF TrainSetRow, Call, Goto, At, LockInv, HoldsMutex, HoldsTable, locks
  <2>5. CASE AddLookup(t)
    BY <1>1, <2>5 DEF AddLookup, Call, Goto, At, LockInv, HoldsMutex, HoldsTable, locks
  <2>6. CASE AddNew(t)
    BY <1>1, <2>6 DEF AddNew, Call, Goto, At, LockInv, HoldsMutex, HoldsTable, locks
  <2>7. CASE TrainIncrement(t)
    BY <1>1, <2>7 DEF TrainIncrement, Call, Goto, At, LockInv, HoldsMutex, HoldsTable, locks
  <2>8. QED
    BY <1>2, <2>1, <2>2, <2>3, <2>4, <2>5, <2>6, <2>7 DEF Train
<1>3. CASE Delete(t)
  <2>1. ASSUME NEW l \in Label, DeleteErase(t, l)
        PROVE  LockInv'
    BY <1>1, <2>1 DEF DeleteErase, Call, Goto, At, LockInv, HoldsMutex, HoldsTable, locks
  <2>2. CASE DeleteLock(t)
    BY <1>1, <2>2 DEF DeleteLock, Call, Goto, At, LockInv, HoldsMutex, HoldsTable, locks
  <2>3. ASSUME NEW i \in Id, DeleteRow(t, i)
        PROVE  LockInv'
    BY <1>1, <2>3 DEF DeleteRow, Call, Goto, At, LockInv, HoldsMutex, HoldsTable, locks
  <2>4. CASE DeleteForget(t)
    BY <1>1, <2>4 DEF DeleteForget, Call, Goto, At, LockInv, HoldsMutex, HoldsTable, locks
  <2>5. CASE DeleteUnlock(t)
    BY <1>1, <2>5 DEF DeleteUnlock, Call, Goto, At, LockInv, HoldsMutex, HoldsTable, locks
  <2>6. QED
    BY <1>3, <2>1, <2>2, <2>3, <2>4, <2>5 DEF Delete
<1>4. CASE Push(t)
  <2>1. CASE PushBegin(t)
    BY <1>1, <2>1 DEF PushBegin, Call, Goto, At, LockInv, HoldsMutex, HoldsTable, locks
  <2>2. ASSUME NEW i \in Id, PushRow(t, i)
        PROVE  LockInv'
    BY <1>1, <2>2 DEF PushRow, Call, Goto, At, LockInv, HoldsMutex, HoldsTable, locks
  <2>3. CASE PushUnlock(t)
    BY <1>1, <2>3 DEF PushUnlock, Call, Goto, At, LockInv, HoldsMutex, HoldsTable, locks
  <2>4. CASE PushEnd(t)
    BY <1>1, <2>4 DEF PushEnd, Call, Goto, At, LockInv, HoldsMutex, HoldsTable, locks
  <2>5. CASE RegenLabels(t)
    BY <1>1, <2>5 DEF RegenLabels, Call, Goto, At, LockInv, HoldsMutex, HoldsTable, locks
  <2>6. CASE RegenCount(t)
    BY <1>1, <2>6 DEF RegenCount, Call, Goto, At, LockInv, HoldsMutex, HoldsTable, locks
  <2>7. CASE RegenSwap(t)
    BY <1>1, <2>7 DEF RegenSwap, Call, Goto, At, LockInv, HoldsMutex, HoldsTable, locks
  <2>8. QED
    BY <1>4, <2>1, <2>2, <2>3, <2>4, <2>5, <2>6, <2>7 DEF Push
<1>5. CASE Clear(t)
  <2>1. CASE ClearTable(t)
    BY <1>1, <2>1 DEF ClearTable, Call, Goto, At, LockInv, HoldsMutex, HoldsTable, locks
  <2>2. CASE ClearLabels(t)
    BY <1>1, <2>2 DEF ClearLabels, Call, Goto, At, LockInv, HoldsMutex, HoldsTable, locks
  <2>3. CASE ClearUnlearner(t)
    BY <1>1, <2>3 DEF ClearUnlearner, Call, Goto, At, LockInv, HoldsMutex, HoldsTable, locks
  <2>4. CASE ClearUnlock(t)
    BY <1>1, <2>4 DEF ClearUnlock, Call, Goto, At, LockInv, HoldsMutex, HoldsTable, locks
  <2>5. QED
    BY <1>5, <2>1, <2>2, <2>3, <2>4 DEF Clear
<1>6. QED
  BY <1>2, <1>3, <1>4, <1>5

LEMMA TogetherStep ==
    ASSUME TypeInv, TogetherInv, NEW t \in Thread, Train(t) \/ Delete(t) \/ Push(t) \/ Clear(t)
    PROVE  TogetherInv'
<1>1. pc \in [Thread -> PCs]
  BY DEF TypeInv
<1>2. \A u \in Thread \ {t} : pc'[u] = pc[u]
  BY <1>1 DEF Train, TrainLock, TrainLockTable, TrainUnlock, TrainSetRow, AddLookup, AddNew,
        TrainIncrement, Delete, DeleteErase, DeleteLock, DeleteRow, DeleteForget, DeleteUnlock,
        Push, PushBegin, PushRow, PushUnlock, PushEnd, RegenLabels, RegenCount, RegenSwap,
        Clear, ClearTable, ClearLabels, ClearUnlearner, ClearUnlock, Goto
\* A call begins where the rules of Together let it; any other step stays in its call.
<1>3. \/ \E op \in {"train", "delete", "push", "clear"} :
             Call(t, op) /\ CallAt(pc'[t]) = op
      \/ ~At(t, "idle") /\ (pc'[t] = "idle" \/ CallAt(pc'[t]) = CallAt(pc[t]))
  <2>1. CASE Train(t)
    BY <1>1, <2>1 DEF Train, TrainLock, TrainLockTable, TrainUnlock, TrainSetRow, AddLookup,
          AddNew, TrainIncrement, Goto, At, CallAt
  <2>2. CASE Delete(t)
    BY <1>1, <2>2 DEF Delete, DeleteErase, DeleteLock, DeleteRow, DeleteForget, DeleteUnlock,
          Goto, At, CallAt
  <2>3. CASE Push(t)
    BY <1>1, <2>3 DEF Push, PushBegin, PushRow, PushUnlock, PushEnd, RegenLabels, RegenCount,
          RegenSwap, Goto, At, CallAt
  <2>4. CASE Clear(t)
    BY <1>1, <2>4 DEF Clear, ClearTable, ClearLabels, ClearUnlearner, ClearUnlock, Goto, At, CallAt
  <2>5. QED
    BY <2>1, <2>2, <2>3, <2>4
<1>4. ASSUME NEW op, Call(t, op), CallAt(pc'[t]) = op
      PROVE  TogetherInv'
  <2>1. \A u \in Thread \ {t} : ~At(u, "idle") => CallAt(pc[u]) \in Running
    BY DEF Running
  <2>2. \A u \in Thread \ {t} : ~At(u, "idle") => {CallAt(pc[u]), op} \subseteq Together
    BY <1>4, <2>1 DEF Call
  <2>3. QED
    BY <1>2, <1>4, <2>2 DEF TogetherInv, At
<1>5. CASE ~At(t, "idle") /\ (pc'[t] = "idle" \/ CallAt(pc'[t]) = CallAt(pc[t]))
  BY <1>2, <1>5 DEF TogetherInv, At
<1>6. QED
  BY <1>3, <1>4, <1>5

\* The part of the invariant that holds whatever overlaps.
SafeInv == TypeInv /\ LockInv /\ TogetherInv

LEMMA SafeInit == Init => SafeInv
<1>1. Init => LockInv /\ TogetherInv
  BY DEF Init, LockInv, TogetherInv, HoldsMutex, HoldsTable, At
<1>2. QED
  BY <1>1, TypeInit DEF SafeInv

LEMMA SafeStep == SafeInv /\ [Next]_vars => SafeInv'
<1>1. ASSUME SafeInv, NEW t \in Thread, Train(t) \/ Delete(t) \/ Push(t) \/ Clear(t)
      PROVE  SafeInv'
  BY <1>1, TypeTrain, TypeDelete, TypePush, TypeClear, LockStep, TogetherStep DEF SafeInv
<1>2. ASSUME SafeInv, UNCHANGED vars
      PROVE  SafeInv'
  BY <1>2 DEF SafeInv, TypeInv, LockInv, TogetherInv, At, vars, data, locks, locals, history
<1>3. QED
  BY <1>1, <1>2 DEF Next

LEMMA SafeHolds == Spec => []SafeInv
BY SafeInit, SafeStep, PTL DEF Spec

(***************************************************************************)
(* No two threads wait for each other's lock and the unlearner, which has  *)
(* no lock of its own, is used by one of them at a time, whichever calls   *)
(* overlap: but train must not overlap delete_label, which takes the locks *)
(* in the other order, nor a push or put of MIX a clear, which takes only  *)
(* one.                                                                    *)
(***************************************************************************)
THEOREM LocksSufficeHere ==
    ASSUME ~({"train", "delete"} \subseteq Together), ~({"push", "clear"} \subseteq Together)
    PROVE  Spec => []LocksSuffice
<1>1. SafeInv => LocksSuffice
  <2> SUFFICES ASSUME SafeInv PROVE LocksSuffice
    OBVIOUS
  <2>1. ASSUME NEW t \in mutex, NEW u \in tableLock, WantsTable(t), WantsMutex(u)
        PROVE  FALSE
    <3>1. pc[t] = "touch" /\ pc[u] = "forget" /\ t \in Thread /\ u \in Thread
      BY <2>1 DEF SafeInv, TypeInv, LockInv, WantsTable, WantsMutex, At, HoldsMutex, HoldsTable
    <3>2. CallAt(pc[t]) = "train" /\ CallAt(pc[u]) = "delete"
      BY <3>1 DEF CallAt
    <3>3. QED
      BY <3>1, <3>2 DEF SafeInv, TogetherInv, At
  <2>2. ASSUME NEW t \in Thread, NEW u \in Thread, InUnlearner(t), InUnlearner(u), t # u
        PROVE  FALSE
    <3>1. ASSUME NEW a \in Thread, InUnlearner(a)
          PROVE  \/ pc[a] = "cleared" /\ a \in mutex
                 \/ pc[a] = "pushed" /\ a \in tableLock
                 \/ a \in mutex /\ a \in tableLock
      <4>1. \/ pc[a] = "cleared" /\ pc[a] \in HoldsMutex
            \/ pc[a] = "pushed" /\ pc[a] \in HoldsTable
            \/ pc[a] \in HoldsMutex /\ pc[a] \in HoldsTable
        BY <3>1 DEF InUnlearner, At, HoldsMutex, HoldsTable
      <4>2. QED
        BY <4>1 DEF SafeInv, LockInv
    <3>2. \/ pc[t] = "cleared" /\ pc[u] = "pushed"
          \/ pc[t] = "pushed" /\ pc[u] = "cleared"
      BY <2>2, <3>1 DEF SafeInv, TypeInv
    <3>3. {CallAt(pc[t]), CallAt(pc[u])} = {"push", "clear"}
      BY <3>2 DEF CallAt
    <3>4. QED
      BY <2>2, <3>2, <3>3 DEF SafeInv, TogetherInv, At
  <2>3. QED
    BY <2>1, <2>2 DEF LocksSuffice, NoWaitCycle, UnlearnerAlone
<1>2. QED
  BY <1>1, SafeHolds, PTL

---------------------------------------------------------------------------
(* Ids in memory and their rows.                                           *)

\* What thread t does accounts for an id in memory without a row.
AccountsFor(t, i) ==
    \/ id[t] = i /\ pc[t] \in {"touched", "set_row", "forget"}
    \/ pc[t] \in {"clear_labels", "clear_unlearner"}

LEMMA MemoryMeans ==
    MemoryHasRows <=> \A i \in memory \ rows : \E t \in Thread : AccountsFor(t, i)
BY DEF MemoryHasRows, AccountsFor, At

\* A step touches the place and the row of its own thread only.
LEMMA OthersKept ==
    ASSUME TypeInv, NEW t \in Thread, Train(t) \/ Delete(t) \/ Push(t) \/ Clear(t)
    PROVE  \A u \in Thread \ {t} : pc'[u] = pc[u] /\ id'[u] = id[u]
<1>1. pc \in [Thread -> PCs] /\ id \in [Thread -> Id]
  BY DEF TypeInv
<1>2. QED
  BY <1>1 DEF Train, TrainLock, TrainLockTable, TrainUnlock, TrainSetRow, AddLookup, AddNew,
        TrainIncrement, Delete, DeleteErase, DeleteLock, DeleteRow, DeleteForget, DeleteUnlock,
        Push, PushBegin, PushRow, PushUnlock, PushEnd, RegenLabels, RegenCount, RegenSwap,
        Clear, ClearTable, ClearLabels, ClearUnlearner, ClearUnlock, Goto, locals

LEMMA MemoryStep ==
    ASSUME TypeInv, MemoryHasRows, NEW t \in Thread, Train(t) \/ Delete(t) \/ Push(t) \/ Clear(t)
    PROVE  MemoryHasRows'
<1>1. pc \in [Thread -> PCs] /\ id \in [Thread -> Id]
  BY DEF TypeInv
<1> SUFFICES ASSUME NEW i \in memory' \ rows'
             PROVE  (i \in memory \ rows /\ ~AccountsFor(t, i)) \/ AccountsFor(t, i)'
  <2>1. \A u \in Thread \ {t} : \A j : AccountsFor(u, j)' <=> AccountsFor(u, j)
    BY OthersKept DEF AccountsFor
  <2>2. ASSUME NEW j \in memory' \ rows',
               (j \in memory \ rows /\ ~AccountsFor(t, j)) \/ AccountsFor(t, j)'
        PROVE  \E u \in Thread : AccountsFor(u, j)'
    BY <2>1, <2>2, MemoryMeans
  <2>3. MemoryHasRows' <=> \A j \in memory' \ rows' : \E u \in Thread : AccountsFor(u, j)'
    BY DEF MemoryHasRows, AccountsFor, At
  <2>4. QED
    BY <2>2, <2>3
<1>2. CASE Train(t)
  <2>1. ASSUME NEW j \in Id, TrainLock(t, j)
        PROVE  i \in memory \ rows /\ ~AccountsFor(t, i)
    BY <2>1 DEF TrainLock, Call, At, AccountsFor, data
  <2>2. CASE TrainLockTable(t)
    BY <1>1, <2>2 DEF TrainLockTable, Goto, At, AccountsFor, locals, data
  <2>3. CASE TrainUnlock(t)
    BY <1>1, <2>3 DEF TrainUnlock, Goto, At, AccountsFor, locals, data
  <2>4. CASE TrainSetRow(t)
    BY <1>1, <2>4 DEF TrainSetRow, Goto, At, AccountsFor, locals
  <2>5. CASE AddLookup(t) \/ AddNew(t) \/ TrainIncrement(t)
    BY <1>1, <2>5 DEF AddLookup, AddNew, TrainIncrement, Goto, At, AccountsFor, locals, data
  <2>6. QED
    BY <1>2, <2>1, <2>2, <2>3, <2>4, <2>5 DEF Train
<1>3. CASE Delete(t)
  <2>1. ASSUME NEW j \in Id, DeleteRow(t, j)
        PROVE  (i \in memory \ rows /\ ~AccountsFor(t, i)) \/ AccountsFor(t, i)'
    BY <1>1, <2>1 DEF DeleteRow, Goto, At, AccountsFor
  <2>2. CASE DeleteForget(t)
    BY <1>1, <2>2 DEF DeleteForget, Goto, At, AccountsFor, locals
  <2>3. CASE DeleteLock(t) \/ DeleteUnlock(t) \/ \E l \in Label : DeleteErase(t, l)
    BY <1>1, <2>3 DEF DeleteLock, DeleteUnlock, DeleteErase, Call, Goto, At, AccountsFor, data, locals
  <2>4. QED
    BY <1>3, <2>1, <2>2, <2>3 DEF Delete
<1>4. CASE Push(t)
  <2>1. ASSUME NEW j \in Id, PushRow(t, j)
        PROVE  i \in memory \ rows /\ ~AccountsFor(t, i)
    BY <1>1, <2>1 DEF PushRow, Goto, At, AccountsFor
  <2>2. CASE PushBegin(t) \/ PushUnlock(t) \/ PushEnd(t) \/ RegenLabels(t) \/ RegenCount(t)
              \/ RegenSwap(t)
    BY <1>1, <2>2 DEF PushBegin, PushUnlock, PushEnd, RegenLabels, RegenCount, RegenSwap, Call,
          Goto, At, AccountsFor, data, locals
  <2>3. QED
    BY <1>4, <2>1, <2>2 DEF Push
<1>5. CASE Clear(t)
  BY <1>1, <1>5 DEF Clear, ClearTable, ClearLabels, ClearUnlearner, ClearUnlock, Call, Goto, At,
        AccountsFor, data, locals
<1>6. QED
  BY <1>2, <1>3, <1>4, <1>5

---------------------------------------------------------------------------
(* How many rows a label has.                                              *)

\* No label has more ids than a count can count: 2^64 in the program.
CountsFit == IsFiniteSet(Id) /\ \A l \in Label : RowsOf(Id, l) < CountSize

LEMMA RowsOfType ==
    ASSUME NEW S \in SUBSET Id, IsFiniteSet(S), NEW l
    PROVE  IsFiniteSet({i \in S : LabelOf[i] = l}) /\ RowsOf(S, l) \in Nat
<1>1. IsFiniteSet({i \in S : LabelOf[i] = l})
  BY FS_Subset
<1>2. QED
  BY <1>1, FS_CardinalityType DEF RowsOf

LEMMA RowsOfAdded ==
    ASSUME NEW S \in SUBSET Id, IsFiniteSet(S), NEW i \in Id \ S, NEW l
    PROVE  RowsOf(S \cup {i}, l) = RowsOf(S, l) + (IF l = LabelOf[i] THEN 1 ELSE 0)
<1> DEFINE T == {j \in S : LabelOf[j] = l}
           U == {j \in S \cup {i} : LabelOf[j] = l}
<1>1. IsFiniteSet(T) /\ Cardinality(T) \in Nat
  BY RowsOfType DEF RowsOf
<1>2. CASE l = LabelOf[i]
  <2>1. U = T \cup {i} /\ i \notin T
    BY <1>2
  <2>2. Cardinality(T \cup {i}) = Cardinality(T) + 1
    BY <1>1, <2>1, FS_AddElement
  <2>3. QED
    BY <1>2, <2>1, <2>2 DEF RowsOf
<1>3. CASE l # LabelOf[i]
  <2>1. U = T
    BY <1>3
  <2>2. QED
    BY <1>1, <1>3, <2>1 DEF RowsOf
<1>4. QED
  BY <1>2, <1>3

LEMMA RowsOfRemoved ==
    ASSUME NEW S \in SUBSET Id, IsFiniteSet(S), NEW i \in S, NEW l
    PROVE  RowsOf(S \ {i}, l) = RowsOf(S, l) - (IF l = LabelOf[i] THEN 1 ELSE 0)
<1>1. IsFiniteSet(S \ {i}) /\ S \ {i} \in SUBSET Id /\ (S \ {i}) \cup {i} = S /\ i \in Id \ (S \ {i})
  BY FS_Subset
<1>2. RowsOf(S, l) = RowsOf(S \ {i}, l) + (IF l = LabelOf[i] THEN 1 ELSE 0)
  BY <1>1, RowsOfAdded
<1>3. RowsOf(S \ {i}, l) \in Nat
  BY <1>1, RowsOfType
<1>4. QED
  BY <1>2, <1>3

LEMMA RowsOfFit ==
    ASSUME CountsFit, NEW S \in SUBSET Id, NEW l \in Label
    PROVE  RowsOf(S, l) \in Count
<1>1. IsFiniteSet(S) /\ IsFiniteSet(Id)
  BY FS_Subset DEF CountsFit
<1>2. IsFiniteSet({i \in Id : LabelOf[i] = l})
  BY <1>1, FS_Subset
<1>3. {i \in S : LabelOf[i] = l} \subseteq {i \in Id : LabelOf[i] = l}
  OBVIOUS
<1>4. RowsOf(S, l) <= RowsOf(Id, l)
  BY <1>2, <1>3, FS_Subset DEF RowsOf
<1>5. RowsOf(S, l) \in Nat /\ RowsOf(Id, l) \in Nat
  BY <1>1, RowsOfType
<1>6. QED
  BY <1>4, <1>5, SizeAssumption DEF CountsFit, Count

\* What is unlearned leaves the table and its label's count.
LEMMA UnlearnedCounts ==
    ASSUME TypeInv, memory \subseteq rows, \A l \in Label : Has(l) = CountOf(counts, l),
           NEW i \in Id, NEW out \in Victims(i)
    PROVE  \A l \in Label : RowsOf(rows \ out, l) = CountOf(Unlearned(counts, out), l)
<1>1. CASE out = {}
  <2>1. rows \ out = rows /\ Unlearned(counts, out) = counts
    BY <1>1 DEF Unlearned
  <2>2. QED
    BY <2>1 DEF Has
<1>2. CASE out # {}
  <2>1. PICK v \in memory : out = {v}
    BY <1>2, VictimsAre
  <2>2. v \in rows /\ v \in Id /\ LabelOf[v] \in Label
    BY <2>1, LabelAssumption DEF TypeInv
  <2> DEFINE k == LabelOf[v]
  <2>3. Unlearned(counts, out) = Decrement(counts, k)
    BY <1>2, <2>1 DEF Unlearned
  <2>4. \A l : RowsOf(rows \ out, l) = Has(l) - (IF l = k THEN 1 ELSE 0)
    BY <2>1, <2>2, RowsOfRemoved DEF TypeInv, Has
  <2>5. k \in DOMAIN counts /\ counts[k] > 0
    <3>1. RowsOf(rows \ out, k) \in Nat /\ Has(k) \in Nat
      <4>1. IsFiniteSet(rows \ out) /\ rows \ out \in SUBSET Id
        BY FS_Subset DEF TypeInv
      <4>2. QED
        BY <4>1, RowsOfType DEF TypeInv, Has
    <3>2. Has(k) > 0
      BY <2>4, <3>1
    <3>3. QED
      BY <2>2, <3>2 DEF CountOf
  <2>6. \A l \in Label : CountOf(Decrement(counts, k), l) = CountOf(counts, l) - (IF l = k THEN 1 ELSE 0)
    BY <2>5, DecrementTakesOne DEF TypeInv
  <2>7. QED
    BY <2>3, <2>4, <2>6
<1>3. QED
  BY <1>1, <1>2

---------------------------------------------------------------------------
(* One call after the other.                                               *)

\* All but thread t are idle, and it is, or what Busy says of it holds.
Solo(t) ==
    /\ \A u \in Thread \ {t} : At(u, "idle")
    /\ IF At(t, "idle") THEN Rested
       ELSE Known /\ Training(t) /\ Deleting(t) /\ Pushing(t) /\ Clearing(t)

LEMMA SoloBefore ==
    ASSUME TypeInv, SoloInv, alone', NEW t \in Thread, Train(t) \/ Delete(t) \/ Push(t) \/ Clear(t)
    PROVE  alone /\ Solo(t)
<1>1. alone /\ (At(t, "idle") => Running = {})
  BY DEF Train, TrainLock, TrainLockTable, TrainUnlock, TrainSetRow, AddLookup, AddNew,
        TrainIncrement, Delete, DeleteErase, DeleteLock, DeleteRow, DeleteForget, DeleteUnlock,
        Push, PushBegin, PushRow, PushUnlock, PushEnd, RegenLabels, RegenCount, RegenSwap,
        Clear, ClearTable, ClearLabels, ClearUnlearner, ClearUnlock, Call, At, history, TypeInv
<1>2. CASE At(t, "idle")
  <2>1. AtRest
    BY <1>1, <1>2 DEF Running, AtRest
  <2>2. Rested
    BY <1>1, <2>1 DEF SoloInv, Busy, AtRest
  <2>3. QED
    BY <1>1, <1>2, <2>1, <2>2 DEF Solo, AtRest
<1>3. CASE ~At(t, "idle")
  <2>1. Busy(t)
    BY <1>1, <1>3 DEF SoloInv, Busy, AtRest
  <2>2. QED
    BY <1>1, <1>3, <2>1 DEF Solo, Busy
<1>4. QED
  BY <1>2, <1>3

LEMMA SoloAfter ==
    ASSUME NEW t \in Thread, Solo(t)'
    PROVE  SoloInv'
<1>1. CASE At(t, "idle")'
  BY <1>1 DEF Solo, SoloInv, AtRest, At
<1>2. CASE ~At(t, "idle")'
  BY <1>2 DEF Solo, SoloInv, Busy, At
<1>3. QED
  BY <1>1, <1>2

LEMMA SoloTrain ==
    ASSUME CountsFit, TypeInv, NEW t \in Thread, Solo(t), alone', Train(t)
    PROVE  Solo(t)'
<1>0. /\ pc \in [Thread -> PCs] /\ id \in [Thread -> Id]
      /\ \A u \in Thread \ {t} : At(u, "idle")'
  BY OthersKept DEF TypeInv, Solo, At
<1>1. ASSUME NEW i \in Id, TrainLock(t, i)
      PROVE  Solo(t)'
  <2>1. At(t, "idle") /\ Rested
    BY <1>1 DEF TrainLock, Call, Solo
  <2>2. pc'[t] = "touch" /\ id'[t] = i /\ UNCHANGED <<rows, memory, counts, refused>>
    BY <1>0, <1>1 DEF TrainLock, Goto, Call, data
  <2>3. i \notin rows'
    BY <1>1, <2>2 DEF TrainLock
  <2>4. QED
    BY <1>0, <2>1, <2>2, <2>3
       DEF Solo, At, Rested, Known, Training, Deleting, Pushing, Clearing, Has
<1>2. CASE TrainLockTable(t)
  <2>1. /\ pc[t] = "touch" /\ id[t] \in Id /\ id[t] \notin rows
        /\ memory \subseteq rows /\ Known
        /\ \A l \in Label : Has(l) = CountOf(counts, l)
    BY <1>0, <1>2 DEF TrainLockTable, At, Solo, Training
  <2>2. ASSUME NEW out \in Victims(id[t]),
               memory' = (memory \ out) \cup {id[t]},
               rows' = rows \ out,
               counts' = Unlearned(counts, out),
               Goto(t, "touched")
        PROVE  Solo(t)'
    <3>1. pc'[t] = "touched" /\ id' = id /\ refused' = refused
      BY <1>0, <1>2, <2>2 DEF TrainLockTable, Goto, locals, history
    <3>2. \A l \in Label : Has(l)' = CountOf(counts', l)
      BY <2>1, <2>2, UnlearnedCounts DEF Has
    <3>3. Known'
      BY <2>1, <2>2, <3>1 DEF Known
    <3>4. QED
      BY <1>0, <2>1, <2>2, <3>1, <3>2, <3>3
         DEF Solo, At, Training, Deleting, Pushing, Clearing
  <2>3. ASSUME Goto(t, "refused"), UNCHANGED data
        PROVE  Solo(t)'
    BY <1>0, <1>2, <2>1, <2>3
       DEF TrainLockTable, Goto, Solo, At, Known, Training, Deleting, Pushing, Clearing, Has,
           data, locals, history
  <2>4. QED
    BY <1>2, <2>2, <2>3 DEF TrainLockTable
<1>3. CASE TrainUnlock(t)
  <2>1. CASE At(t, "touched")
    BY <1>0, <1>3, <2>1
       DEF TrainUnlock, Goto, Solo, At, Known, Training, Deleting, Pushing, Clearing, Has,
           data, locals, history
  <2>2. CASE At(t, "refused")
    BY <1>0, <1>3, <2>2
       DEF TrainUnlock, Goto, Solo, At, Known, Rested, Training, Has, data, locals, history
  <2>3. QED
    BY <1>3, <2>1, <2>2 DEF TrainUnlock
<1>4. CASE TrainSetRow(t)
  <2>1. /\ pc[t] = "set_row" /\ id[t] \in Id /\ id[t] \in memory \ rows
        /\ memory \subseteq rows \cup {id[t]} /\ Known
        /\ \A l \in Label : Has(l) = CountOf(counts, l)
    BY <1>0, <1>4 DEF TrainSetRow, At, Solo, Training
  <2>2. /\ pc'[t] = "add" /\ id' = id /\ rows' = rows \cup {id[t]}
        /\ UNCHANGED <<memory, counts, refused>>
    BY <1>0, <1>4 DEF TrainSetRow, Goto, locals, history
  <2>3. \A l \in Label : Has(l)' = Has(l) + (IF l = LabelOf[id[t]] THEN 1 ELSE 0)
    BY <2>1, <2>2, RowsOfAdded DEF Has, TypeInv
  <2>4. QED
    BY <1>0, <2>1, <2>2, <2>3 DEF Solo, At, Known, Training, Deleting, Pushing, Clearing
<1>5. CASE AddLookup(t)
  <2>1. pc[t] = "add" /\ UNCHANGED <<rows, memory, counts, id, refused>>
    BY <1>5 DEF AddLookup, At, data, locals, history
  <2>2. CASE LabelOf[id[t]] \in DOMAIN counts
    BY <1>0, <1>5, <2>1, <2>2
       DEF AddLookup, Goto, Solo, At, Known, Training, Deleting, Pushing, Clearing, Has
  <2>3. CASE LabelOf[id[t]] \notin DOMAIN counts
    BY <1>0, <1>5, <2>1, <2>3
       DEF AddLookup, Goto, Solo, At, Known, Training, Deleting, Pushing, Clearing, Has
  <2>4. QED
    BY <2>2, <2>3
<1>6. CASE AddNew(t)
  <2> DEFINE k == LabelOf[id[t]]
  <2>1. pc[t] = "add_new" /\ k \notin DOMAIN counts /\ k \in Label
    BY <1>0, <1>6, LabelAssumption DEF AddNew, At, Solo, Training
  <2>2. pc'[t] = "increment" /\ UNCHANGED <<rows, memory, id, refused>>
    BY <1>0, <1>6 DEF AddNew, Goto, locals, history
  <2>3. \A l \in Label : CountOf(counts', l) = CountOf(counts, l)
    BY <1>6, <2>1 DEF AddNew, CountOf, With
  <2>4. QED
    BY <1>0, <2>1, <2>2, <2>3 DEF Solo, At, Known, Training, Deleting, Pushing, Clearing, Has
<1>7. CASE TrainIncrement(t)
  <2> DEFINE k == LabelOf[id[t]]
  <2>1. /\ pc[t] = "increment" /\ k \in Label /\ counts \in Counts
        /\ \A l \in Label : Has(l) = CountOf(counts, l) + (IF l = k THEN 1 ELSE 0)
        /\ memory \subseteq rows /\ Known
    BY <1>0, <1>7, LabelAssumption DEF TrainIncrement, At, Solo, Training, TypeInv
  <2>2. pc'[t] = "idle" /\ UNCHANGED <<rows, memory, refused>> /\ counts' = With(counts, k, 1)
    BY <1>0, <1>7 DEF TrainIncrement, Goto, locals, history
  <2>3. CountOf(counts, k) + 1 < CountSize
    <3>1. Has(k) \in Count
      BY <2>1, RowsOfFit DEF Has, TypeInv
    <3>2. Has(k) = CountOf(counts, k) + 1
      BY <2>1
    <3>3. QED
      BY <3>1, <3>2, SizeAssumption DEF Count
  <2>4. \A l \in Label : CountOf(counts', l) = CountOf(counts, l) + (IF l = k THEN 1 ELSE 0)
    BY <2>1, <2>2, <2>3, IncrementAddsOne
  <2>5. QED
    BY <1>0, <2>1, <2>2, <2>4 DEF Solo, At, Known, Rested, Has
<1>8. QED
  BY <1>1, <1>2, <1>3, <1>4, <1>5, <1>6, <1>7 DEF Train

LEMMA SoloDelete ==
    ASSUME TypeInv, NEW t \in Thread, Solo(t), alone', Delete(t)
    PROVE  Solo(t)'
<1>0. /\ pc \in [Thread -> PCs] /\ id \in [Thread -> Id]
      /\ label \in [Thread -> Label] /\ todo \in [Thread -> SUBSET Id]
      /\ \A u \in Thread \ {t} : At(u, "idle")'
  BY OthersKept DEF TypeInv, Solo, At
<1>1. ASSUME NEW l \in Label, DeleteErase(t, l)
      PROVE  Solo(t)'
  <2>1. At(t, "idle") /\ Rested
    BY <1>1 DEF DeleteErase, Call, Solo
  <2>2. /\ pc'[t] = "delete" /\ label'[t] = l /\ counts' = Without(counts, l)
        /\ UNCHANGED <<rows, memory, refused>>
    BY <1>0, <1>1 DEF DeleteErase, Call, Goto
  <2>3. /\ l \notin DOMAIN counts'
        /\ \A k \in Label \ {l} : CountOf(counts', k) = CountOf(counts, k)
    BY <2>2 DEF Without, CountOf
  <2>4. QED
    BY <1>0, <2>1, <2>2, <2>3
       DEF Solo, At, Rested, Known, Training, Deleting, Pushing, Clearing, Has
<1>2. CASE DeleteLock(t)
  <2>1. /\ pc[t] = "delete" /\ pc'[t] = "delete_row"
        /\ todo'[t] = {i \in rows : LabelOf[i] = label[t]}
        /\ UNCHANGED <<rows, memory, counts, label, refused>>
    BY <1>0, <1>2 DEF DeleteLock, At, Goto, data, history
  <2>2. QED
    BY <1>0, <2>1 DEF Solo, At, Known, Training, Deleting, Pushing, Clearing, Has
<1>3. ASSUME NEW i \in Id, DeleteRow(t, i)
      PROVE  Solo(t)'
  <2>1. /\ pc[t] = "delete_row" /\ i \in todo[t] /\ pc'[t] = "forget"
        /\ rows' = rows \ {i} /\ todo'[t] = todo[t] \ {i} /\ id'[t] = i
        /\ UNCHANGED <<memory, counts, label, refused>>
    BY <1>0, <1>3 DEF DeleteRow, At, Goto, history
  <2>2. i \in rows /\ LabelOf[i] = label[t]
    BY <2>1 DEF Solo, At, Deleting
  <2>3. \A l \in Label \ {label[t]} : Has(l)' = Has(l)
    <3>1. \A l : RowsOf(rows \ {i}, l) = RowsOf(rows, l) - (IF l = LabelOf[i] THEN 1 ELSE 0)
      BY <2>2, RowsOfRemoved DEF TypeInv
    <3>2. \A l : RowsOf(rows, l) \in Nat
      BY RowsOfType DEF TypeInv
    <3>3. SUFFICES ASSUME NEW l \in Label \ {label[t]} PROVE Has(l)' = Has(l)
      OBVIOUS
    <3>4. RowsOf(rows', l) = RowsOf(rows, l) - 0
      BY <2>1, <2>2, <3>1, <3>3
    <3>5. QED
      BY <3>2, <3>4 DEF Has
  <2>4. QED
    BY <1>0, <2>1, <2>2, <2>3 DEF Solo, At, Known, Training, Deleting, Pushing, Clearing
<1>4. CASE DeleteForget(t)
  <2>1. /\ pc[t] = "forget" /\ pc'[t] = "delete_row" /\ memory' = memory \ {id[t]}
        /\ UNCHANGED <<rows, counts, label, todo, refused>>
    BY <1>0, <1>4 DEF DeleteForget, At, Goto, locals, history
  <2>2. id[t] \notin rows
    BY <2>1 DEF Solo, At, Deleting
  <2>3. QED
    BY <1>0, <2>1, <2>2 DEF Solo, At, Known, Training, Deleting, Pushing, Clearing, Has
<1>5. CASE DeleteUnlock(t)
  <2>1. /\ pc[t] = "delete_row" /\ pc'[t] = "idle" /\ todo[t] = {}
        /\ UNCHANGED <<rows, memory, counts, refused>>
    BY <1>0, <1>5 DEF DeleteUnlock, At, Goto, data, history
  <2> DEFINE k == label[t]
  <2>2. /\ {i \in rows : LabelOf[i] = k} = {} /\ k \notin DOMAIN counts
        /\ memory \subseteq rows /\ Known
        /\ \A l \in Label \ {k} : Has(l) = CountOf(counts, l)
    BY <2>1 DEF Solo, At, Deleting
  <2>3. Has(k) = CountOf(counts, k)
    BY <2>2, FS_EmptySet DEF Has, RowsOf, CountOf
  <2>4. QED
    BY <1>0, <2>1, <2>2, <2>3 DEF Solo, At, Rested, Known, Has
<1>6. QED
  BY <1>1, <1>2, <1>3, <1>4, <1>5 DEF Delete

LEMMA SoloPush ==
    ASSUME CountsFit, TypeInv, NEW t \in Thread, Solo(t), alone', Push(t)
    PROVE  Solo(t)'
<1>0. /\ pc \in [Thread -> PCs] /\ copy \in [Thread -> Counts]
      /\ \A u \in Thread \ {t} : At(u, "idle")'
  BY OthersKept DEF TypeInv, Solo, At
\* Places where only the unlearner and the rows are looked at.
<1> DEFINE Open == {"push", "pushed", "get_labels", "count"}
<1>1. ASSUME pc'[t] \in Open, Known', (memory \subseteq rows)'
      PROVE  Solo(t)'
  BY <1>0, <1>1 DEF Solo, At, Training, Deleting, Pushing, Clearing
<1>2. CASE PushBegin(t)
  <2>1. pc'[t] = "push" /\ UNCHANGED <<rows, memory, refused>> /\ Rested
    BY <1>0, <1>2 DEF PushBegin, Call, Goto, Solo, data
  <2>2. QED
    BY <1>1, <2>1 DEF Rested, Known
<1>3. ASSUME NEW i \in Id, PushRow(t, i)
      PROVE  Solo(t)'
  <2>1. memory \subseteq rows /\ Known
    BY <1>3 DEF PushRow, At, Solo, Pushing
  <2>2. (memory \subseteq rows)'
    BY <1>3, <2>1 DEF PushRow
  <2>3. Known'
    BY <1>3, <2>1 DEF PushRow, Known
  <2>4. pc'[t] = "pushed"
    BY <1>0, <1>3 DEF PushRow, Goto
  <2>5. QED
    BY <1>1, <2>2, <2>3, <2>4
<1>4. CASE PushUnlock(t) \/ PushEnd(t) \/ RegenLabels(t)
  <2>1. /\ pc[t] \in Open /\ pc'[t] \in Open
        /\ UNCHANGED <<rows, memory, refused>>
    BY <1>0, <1>4 DEF PushUnlock, PushEnd, RegenLabels, At, Goto, data, history
  <2>2. memory \subseteq rows /\ Known
    BY <2>1 DEF Solo, At, Pushing
  <2>3. QED
    BY <1>1, <2>1, <2>2 DEF Known
<1>5. CASE RegenCount(t)
  <2>1. /\ pc[t] = "count" /\ pc'[t] = "swap" /\ UNCHANGED <<rows, memory, refused>>
        /\ copy'[t] = [l \in DOMAIN copy[t] \cup {LabelOf[i] : i \in rows} |->
                           RowsOf(rows, l) % CountSize]
    BY <1>0, <1>5 DEF RegenCount, At, Goto, data, history, RowsOf
  <2>2. memory \subseteq rows /\ Known
    BY <2>1 DEF Solo, At, Pushing
  <2>3. ASSUME NEW l \in Label
        PROVE  Has(l) = CountOf(copy'[t], l)
    <3>1. CASE l \in DOMAIN copy'[t]
      <4>1. RowsOf(rows, l) % CountSize = RowsOf(rows, l)
        BY RowsOfFit, SmallMod DEF TypeInv
      <4>2. QED
        BY <2>1, <3>1, <4>1 DEF Has, CountOf
    <3>2. CASE l \notin DOMAIN copy'[t]
      <4>1. {i \in rows : LabelOf[i] = l} = {}
        BY <2>1, <3>2
      <4>2. QED
        BY <3>2, <4>1, FS_EmptySet DEF Has, RowsOf, CountOf
    <3>3. QED
      BY <3>1, <3>2
  <2>4. QED
    BY <1>0, <2>1, <2>2, <2>3 DEF Solo, At, Known, Training, Deleting, Pushing, Clearing, Has
<1>6. CASE RegenSwap(t)
  <2>1. /\ pc[t] = "swap" /\ pc'[t] = "idle" /\ UNCHANGED <<rows, memory, refused>>
        /\ counts' = copy[t]
    BY <1>0, <1>6 DEF RegenSwap, At, Goto, history
  <2>2. /\ memory \subseteq rows /\ Known
        /\ \A l \in Label : Has(l) = CountOf(copy[t], l)
    BY <2>1 DEF Solo, At, Pushing
  <2>3. QED
    BY <1>0, <2>1, <2>2 DEF Solo, At, Rested, Known, Has
<1>7. QED
  BY <1>2, <1>3, <1>4, <1>5, <1>6 DEF Push

LEMMA SoloClear ==
    ASSUME TypeInv, NEW t \in Thread, Solo(t), alone', Clear(t)
    PROVE  Solo(t)'
<1>0. /\ pc \in [Thread -> PCs]
      /\ \A u \in Thread \ {t} : At(u, "idle")'
  BY OthersKept DEF TypeInv, Solo, At
<1>1. CASE ClearTable(t)
  BY <1>0, <1>1
     DEF ClearTable, Call, Goto, Solo, At, Known, Training, Deleting, Pushing, Clearing
<1>2. CASE ClearLabels(t)
  BY <1>0, <1>2
     DEF ClearLabels, Goto, Solo, At, Known, Training, Deleting, Pushing, Clearing, NoCounts, history
<1>3. CASE ClearUnlearner(t)
  BY <1>0, <1>3
     DEF ClearUnlearner, Goto, Solo, At, Known, Training, Deleting, Pushing, Clearing, history
<1>4. CASE ClearUnlock(t)
  <2>1. /\ pc[t] = "cleared" /\ pc'[t] = "idle" /\ UNCHANGED <<rows, memory, counts, refused>>
    BY <1>0, <1>4 DEF ClearUnlock, At, Goto, data, history
  <2>2. rows = {} /\ memory = {} /\ DOMAIN counts = {} /\ Known
    BY <2>1 DEF Solo, At, Clearing
  <2>3. \A l : Has(l) = 0
    BY <2>2, FS_EmptySet DEF Has, RowsOf
  <2>4. QED
    BY <1>0, <2>1, <2>2, <2>3 DEF Solo, At, Rested, Known, Has, CountOf
<1>5. QED
  BY <1>1, <1>2, <1>3, <1>4 DEF Clear

---------------------------------------------------------------------------
(* The inductive invariant of RowsAreCounted.                              *)

FullInv == SafeInv /\ MemoryHasRows /\ SoloInv

LEMMA FullInit == Init => FullInv
<1> SUFFICES ASSUME Init PROVE FullInv
  OBVIOUS
<1>1. \A l : Has(l) = 0
  BY FS_EmptySet DEF Init, Has, RowsOf
<1>2. SoloInv
  BY <1>1 DEF Init, SoloInv, AtRest, At, Rested, Known, CountOf, NoCounts
<1>3. MemoryHasRows
  BY DEF Init, MemoryHasRows
<1>4. QED
  BY <1>2, <1>3, SafeInit DEF FullInv

LEMMA FullStep == CountsFit /\ FullInv /\ [Next]_vars => FullInv'
<1>1. ASSUME CountsFit, FullInv, NEW t \in Thread, Train(t) \/ Delete(t) \/ Push(t) \/ Clear(t)
      PROVE  FullInv'
  <2>1. SafeInv'
    BY <1>1, SafeStep DEF FullInv, Next
  <2>2. MemoryHasRows'
    BY <1>1, MemoryStep DEF FullInv, SafeInv
  <2>3. CASE alone'
    <3>1. Solo(t)
      BY <1>1, <2>3, SoloBefore DEF FullInv, SafeInv
    <3>2. Solo(t)'
      BY <1>1, <2>3, <3>1, SoloTrain, SoloDelete, SoloPush, SoloClear DEF FullInv, SafeInv
    <3>3. QED
      BY <2>1, <2>2, <3>2, SoloAfter DEF FullInv
  <2>4. CASE ~alone'
    BY <2>1, <2>2, <2>4 DEF FullInv, SoloInv
  <2>5. QED
    BY <2>3, <2>4
<1>2. ASSUME FullInv, UNCHANGED vars
      PROVE  FullInv'
  <2>1. SafeInv'
    BY <1>2, SafeStep DEF FullInv
  <2>2. MemoryHasRows' /\ SoloInv'
    BY <1>2 DEF FullInv, MemoryHasRows, SoloInv, AtRest, Rested, Busy, Known, Training, Deleting,
          Pushing, Clearing, Has, At, vars, data, locks, locals, history
  <2>3. QED
    BY <2>1, <2>2 DEF FullInv
<1>3. QED
  BY <1>1, <1>2 DEF Next

LEMMA TypeMeans == TypeInv => TypeOK
<1> SUFFICES ASSUME TypeInv PROVE TypeOK
  OBVIOUS
<1>1. ASSUME NEW S, \A t, u \in S : t = u
      PROVE  Cardinality(S) <= 1
  <2>1. CASE S = {}
    BY <2>1, FS_EmptySet
  <2>2. CASE S # {}
    <3>1. PICK t \in S : S = {t}
      BY <1>1, <2>2
    <3>2. Cardinality({t}) = 1
      BY FS_Singleton
    <3>3. QED
      BY <3>1, <3>2
  <2>3. QED
    BY <2>1, <2>2
<1>2. Cardinality(mutex) <= 1 /\ Cardinality(tableLock) <= 1
  BY <1>1 DEF TypeInv
<1>3. /\ DOMAIN counts \subseteq Label /\ \A l \in DOMAIN counts : counts[l] \in 0..CountSize - 1
      /\ \A t \in Thread : DOMAIN copy[t] \subseteq Label
  BY CountsDomain DEF TypeInv, Count
<1>4. QED
  BY <1>2, <1>3 DEF TypeInv, TypeOK

(***************************************************************************)
(* The rows of the table, the counts of the labels and the unlearner's     *)
(* memory fit each other: an id in memory has its row or a call that has   *)
(* yet to see to it, whatever overlaps; after calls that did not overlap   *)
(* the counts are those of the rows and, unless MIX stored a row the       *)
(* unlearner refused, the unlearner knows all rows and keeps its bound.    *)
(* No label is taken to have 2^64 ids.                                     *)
(***************************************************************************)
THEOREM RowsAreCountedHere == ASSUME CountsFit PROVE Spec => []RowsAreCounted
<1>1. FullInv => RowsAreCounted
  <2> SUFFICES ASSUME FullInv PROVE RowsAreCounted
    OBVIOUS
  <2>1. AtRest /\ alone => Rested
    BY DEF FullInv, SoloInv, Busy, AtRest
  <2>2. RowsKnown
    <3>1. ASSUME AtRest, alone, ~refused
          PROVE  rows = memory
      BY <2>1, <3>1 DEF Rested, Known
    <3>2. Cardinality(memory) <= MaxSize
      BY DEF FullInv, SafeInv, TypeInv
    <3>3. QED
      BY <3>1, <3>2 DEF RowsKnown
  <2>3. CountsMatchRows
    BY <2>1 DEF CountsMatchRows, CountsAreRows, Rested, Has, RowsOf, CountOf
  <2>4. QED
    BY <2>2, <2>3, TypeMeans DEF FullInv, SafeInv, RowsAreCounted
<1>2. QED
  BY <1>1, FullInit, FullStep, PTL DEF Spec

---------------------------------------------------------------------------
(* Linear classifiers: no label inherits what another learned, and the     *)
(* methods that touch a label with the storage's lock held leave no weight *)
(* behind.                                                                 *)



\* What the lemmas suppose of the constants.
Assumptions == L!LabelAssumption /\ L!CallBounds

CPCs == {"idle", "check", "check_set", "increment", "margin", "register", "update",
        "touch", "unlearn", "unlearn_key", "set", "add", "add_only", "delete",
        "erase", "erase_only", "forget"}

Ids == 0..(next_id - 1)

\* Where each thread is, and that it has a label while it is not idle.
ThreadsInv ==
    /\ at \in [Thread -> CPCs]
    /\ arg \in [Thread -> Name \cup {NoName}]
    /\ neg \in [Thread -> Name \cup {NoName}]
    /\ old \in [Thread -> Name \cup {NoName}]
    /\ \A t \in Thread : at[t] # "idle" => arg[t] \in Name
    /\ rw \in Thread \cup {NoName} /\ um \in Thread \cup {NoName}

MemoryInv ==
    /\ counted \subseteq Name
    /\ known \subseteq Name /\ IsFiniteSet(known) /\ Cardinality(known) <= MaxNames

\* Ids are below the next one, of labels as of weights, and a weight whose id has
\* a label was learned by that label.
IdsInv ==
    /\ next_id \in Nat
    /\ key2id \in [DOMAIN key2id -> Ids] /\ DOMAIN key2id \subseteq Name
    /\ \A w \in tbl : w.id \in Ids
    /\ \A l, m \in DOMAIN key2id : key2id[l] = key2id[m] => l = m
    /\ \A w \in tbl : \A l \in DOMAIN key2id : key2id[l] = w.id => l = w.by

CSafeInv == ThreadsInv /\ MemoryInv /\ IdsInv

---------------------------------------------------------------------------
LEMMA CSameCount == \A S : L!Cardinality(S) = Cardinality(S)
  BY DEF L!Cardinality, Cardinality

\* At most two elements.
Few(S) == \E a, b : S \subseteq {a, b}

\* The size of such a set.
LEMMA TwoAtMost ==
    ASSUME NEW S, Few(S)
    PROVE  \E n \in Nat : n = Cardinality(S) /\ (\/ n = 0 /\ S = {}
                                                 \/ n = 1 /\ \E l : S = {l}
                                                 \/ n = 2 /\ \E l, m : l # m /\ S = {l, m})
<1> PICK a, b : S \subseteq {a, b}
  BY DEF Few
<1>5. S = {} \/ S = {a} \/ S = {b} \/ S = {a, b}
  OBVIOUS
<1>1. CASE S = {}
  BY <1>1, FS_EmptySet
<1>2. CASE S = {a} \/ S = {b}
  BY <1>2, FS_Singleton
<1>3. CASE S = {a, b} /\ a = b
  <2>1. S = {a}
    BY <1>3
  <2> QED BY <2>1, FS_Singleton
<1>4. CASE S = {a, b} /\ a # b
  <2>1. IsFiniteSet({a}) /\ Cardinality({a}) = 1
    BY FS_Singleton
  <2>2. Cardinality({a} \cup {b}) = Cardinality({a}) + 1
    BY <2>1, <1>4, FS_AddElement
  <2>3. {a} \cup {b} = S
    BY <1>4
  <2>4. Cardinality(S) = 2
    BY <2>1, <2>2, <2>3
  <2> QED BY <2>4, <1>4
<1> QED BY <1>1, <1>2, <1>3, <1>4, <1>5

\* What get_id does to the ids, for one label or two: known ones keep theirs and
\* the new are new.
LEMMA GetIdsGives ==
    ASSUME IdsInv, NEW ls, Few(ls), L!GetIds(ls)
    PROVE  /\ next_id' \in Nat /\ next_id <= next_id'
           /\ DOMAIN key2id' = DOMAIN key2id \cup ls
           /\ \A l \in DOMAIN key2id : key2id'[l] = key2id[l]
           /\ \A l \in ls \ DOMAIN key2id : key2id'[l] \in next_id..(next_id' - 1)
           /\ \A l, m \in ls \ DOMAIN key2id : key2id'[l] = key2id'[m] => l = m
<1> DEFINE new == ls \ DOMAIN key2id
<1>1. PICK n \in Nat : n = Cardinality(new) /\ (\/ n = 0 /\ new = {}
                                                \/ n = 1 /\ \E l : new = {l}
                                                \/ n = 2 /\ \E l, m : l # m /\ new = {l, m})
  <2>1. Few(new)
    BY DEF Few
  <2> HIDE DEF new
  <2> QED BY <2>1, TwoAtMost
<1>2. /\ next_id \in Nat /\ next_id' = next_id + n
      /\ key2id' \in [DOMAIN key2id \cup ls -> 0..(next_id + 1)]
      /\ \A l \in DOMAIN key2id : key2id'[l] = key2id[l]
      /\ {key2id'[l] : l \in new} = next_id..(next_id + n - 1)
  BY <1>1, CSameCount DEF L!GetIds, L!NewIds, L!Known, IdsInv
<1>3. \A l \in new : key2id'[l] \in next_id..(next_id' - 1)
  BY <1>2
<1>4. \A l, m \in new : key2id'[l] = key2id'[m] => l = m
  <2>1. CASE n = 0 \/ n = 1
    BY <1>1, <2>1
  <2>2. ASSUME NEW l, NEW m, l # m, new = {l, m}, n = 2 PROVE key2id'[l] # key2id'[m]
    <3>1. \A i \in next_id..(next_id + n - 1) : i \in {key2id'[k] : k \in new}
      BY <1>2
    <3>2. next_id \in next_id..(next_id + n - 1) /\ next_id + 1 \in next_id..(next_id + n - 1)
      BY <1>2, <2>2
    <3>3. (\E k \in new : next_id = key2id'[k]) /\ (\E k \in new : next_id + 1 = key2id'[k])
      BY <3>1, <3>2
    <3> QED BY <3>3, <2>2, <1>2
  <2> QED BY <1>1, <2>1, <2>2
<1> QED BY <1>2, <1>3, <1>4

LEMMA GetIdsKeepsIds ==
    ASSUME IdsInv, NEW ls, Few(ls), ls \subseteq Name, L!GetIds(ls),
           \A w \in tbl' : w \in tbl \/ \E l \in ls : w.id = key2id'[l] /\ w.by = l
    PROVE  IdsInv'
<1>1. /\ next_id \in Nat /\ next_id' \in Nat /\ next_id <= next_id'
      /\ DOMAIN key2id' = DOMAIN key2id \cup ls
      /\ \A l \in DOMAIN key2id : key2id'[l] = key2id[l] /\ key2id[l] \in Ids
      /\ \A l \in ls \ DOMAIN key2id : key2id'[l] \in next_id..(next_id' - 1)
      /\ \A l, m \in ls \ DOMAIN key2id : key2id'[l] = key2id'[m] => l = m
  <2>1. next_id \in Nat /\ \A l \in DOMAIN key2id : key2id[l] \in Ids
    BY DEF IdsInv
  <2> QED BY <2>1, GetIdsGives
<1>2. key2id' = [l \in DOMAIN key2id' |-> key2id'[l]]
  BY DEF L!GetIds, L!NewIds
<1>3. \A l \in DOMAIN key2id' : key2id'[l] \in Ids'
  BY <1>1 DEF Ids
<1>4. key2id' \in [DOMAIN key2id' -> Ids'] /\ DOMAIN key2id' \subseteq Name
  BY <1>1, <1>2, <1>3 DEF IdsInv
<1>5. \A l, m \in DOMAIN key2id' : key2id'[l] = key2id'[m] => l = m
  BY <1>1 DEF IdsInv, Ids
<1>6. \A w \in tbl' : w.id \in Ids'
  BY <1>1, <1>3 DEF IdsInv, Ids
<1>7. ASSUME NEW w \in tbl', NEW l \in DOMAIN key2id', key2id'[l] = w.id
      PROVE  l = w.by
  <2>1. CASE w \in tbl
    BY <2>1, <1>1, <1>7 DEF IdsInv, Ids
  <2>2. CASE \E m \in ls : w.id = key2id'[m] /\ w.by = m
    BY <2>2, <1>5, <1>7, <1>1
  <2> QED BY <2>1, <2>2
<1> QED BY <1>1, <1>4, <1>5, <1>6, <1>7 DEF IdsInv

\* A label that goes takes its id along; no weight changes hands.
LEMMA DeleteKeepsIds ==
    ASSUME IdsInv, NEW l, L!DeleteKey(l), tbl' \subseteq tbl
    PROVE  IdsInv'
<1>1. /\ DOMAIN key2id' = DOMAIN key2id \ {l} /\ next_id' = next_id
      /\ \A m \in DOMAIN key2id' : key2id'[m] = key2id[m]
      /\ key2id' = [m \in DOMAIN key2id' |-> key2id[m]]
  BY DEF L!DeleteKey, L!Restrict
<1> QED BY <1>1 DEF IdsInv, Ids

---------------------------------------------------------------------------
\* Every step keeps types, ids and the owners of weights.
LEMMA SafeInductive ==
    ASSUME Assumptions
    PROVE  CSafeInv /\ [L!Next]_L!vars => CSafeInv'
<1> SUFFICES ASSUME CSafeInv, [L!Next]_L!vars PROVE CSafeInv'
  OBVIOUS
<1> USE DEF Assumptions, L!LabelAssumption, L!CallBounds
<1>1. CASE UNCHANGED L!vars
  BY <1>1 DEF CSafeInv, ThreadsInv, MemoryInv, IdsInv, Ids, L!vars, L!modelVars, L!lockVars, L!settings
<1>2. ASSUME NEW t \in Thread, NEW l \in Name, L!Train(t, l) \/ L!SetLabel(t, l) \/ L!DeleteLabel(t, l)
      PROVE  CSafeInv'
  <2>1. ThreadsInv'
    BY <1>2 DEF CSafeInv, ThreadsInv, L!Train, L!SetLabel, L!DeleteLabel, L!Call, L!Goto, CPCs, L!lockVars
  <2>2. MemoryInv' /\ IdsInv'
    BY <1>2 DEF CSafeInv, MemoryInv, IdsInv, Ids, L!Train, L!SetLabel, L!DeleteLabel, L!Call, L!modelVars
  <2> QED BY <2>1, <2>2 DEF CSafeInv
<1>3. ASSUME NEW t \in Thread,
             L!CheckTouchable(t, "check", "increment") \/ L!CheckTouchable(t, "check_set", "set")
      PROVE  CSafeInv'
  <2>1. ThreadsInv'
    BY <1>3 DEF CSafeInv, ThreadsInv, L!CheckTouchable, L!Goto, CPCs, L!lockVars
  <2>2. MemoryInv' /\ IdsInv'
    BY <1>3 DEF CSafeInv, MemoryInv, IdsInv, Ids, L!CheckTouchable, L!modelVars
  <2> QED BY <2>1, <2>2 DEF CSafeInv
<1>4. ASSUME NEW t \in Thread, L!Increment(t) \/ L!AddLabel(t) \/ L!EraseLabel(t) PROVE CSafeInv'
  <2>1. ThreadsInv' /\ arg[t] \in Name
    BY <1>4 DEF CSafeInv, ThreadsInv, L!Increment, L!AddLabel, L!EraseLabel, L!Goto, CPCs, L!lockVars
  <2>2. MemoryInv' /\ IdsInv'
    BY <1>4, <2>1 DEF CSafeInv, MemoryInv, IdsInv, Ids, L!Increment, L!AddLabel, L!EraseLabel
  <2> QED BY <2>1, <2>2 DEF CSafeInv
<1>5. ASSUME NEW t \in Thread, NEW to \in {"idle", "register", "update"}, L!CalcMargin(t, to)
      PROVE  CSafeInv'
  <2>1. ThreadsInv'
    BY <1>5 DEF CSafeInv, ThreadsInv, IdsInv, L!CalcMargin, L!Goto, CPCs, L!lockVars
  <2>2. MemoryInv' /\ IdsInv'
    BY <1>5 DEF CSafeInv, MemoryInv, IdsInv, Ids, L!CalcMargin, L!modelVars
  <2> QED BY <2>1, <2>2 DEF CSafeInv
<1>6. ASSUME NEW t \in Thread, L!Register(t) \/ L!SetInStorage(t) PROVE CSafeInv'
  <2>1. ThreadsInv' /\ arg[t] \in Name
    BY <1>6 DEF CSafeInv, ThreadsInv, L!Register, L!SetInStorage, L!Goto, CPCs, L!lockVars
  <2>2. Few({arg[t]}) /\ L!GetIds({arg[t]}) /\ tbl' = tbl
    BY <1>6 DEF Few, L!Register, L!SetInStorage
  <2>3. IdsInv'
    BY <2>1, <2>2, GetIdsKeepsIds DEF CSafeInv
  <2>4. MemoryInv'
    BY <1>6 DEF CSafeInv, MemoryInv, L!Register, L!SetInStorage
  <2> QED BY <2>1, <2>3, <2>4 DEF CSafeInv
<1>7. ASSUME NEW t \in Thread, NEW fs, NEW held \in BOOLEAN, L!SetWeights(t, fs, held) PROVE CSafeInv'
  <2> DEFINE ls == {arg[t], neg[t]} \ {NoName}
  <2>1. ThreadsInv'
    BY <1>7 DEF CSafeInv, ThreadsInv, L!SetWeights, L!Goto, CPCs, L!lockVars
  <2>2. /\ Few(ls) /\ ls \subseteq Name /\ L!GetIds(ls)
        /\ tbl' = tbl \cup {[feature |-> f, id |-> key2id'[l], by |-> l] : f \in fs, l \in ls}
    BY <1>7 DEF Few, L!SetWeights, CSafeInv, ThreadsInv
  <2>3. \A w \in tbl' : w \in tbl \/ \E l \in ls : w.id = key2id'[l] /\ w.by = l
    BY <2>2
  <2>4. IdsInv'
    <3> HIDE DEF ls
    <3> QED BY <2>2, <2>3, GetIdsKeepsIds DEF CSafeInv
  <2>5. MemoryInv'
    BY <1>7 DEF CSafeInv, MemoryInv, L!SetWeights
  <2> QED BY <2>1, <2>4, <2>5 DEF CSafeInv
<1>8. ASSUME NEW t \in Thread, L!Touch(t) PROVE CSafeInv'
  <2>1. ThreadsInv' /\ arg[t] \in Name
    BY <1>8 DEF CSafeInv, ThreadsInv, MemoryInv, L!Touch, L!Goto, CPCs
  <2>2. IdsInv'
    BY <1>8 DEF CSafeInv, IdsInv, Ids, L!Touch
  <2>3. /\ known' \subseteq Name /\ IsFiniteSet(known') /\ Cardinality(known') <= MaxNames
    <3>1. IsFiniteSet(known) /\ Cardinality(known) \in Nat /\ Cardinality(known) <= MaxNames
      BY FS_CardinalityType DEF CSafeInv, MemoryInv
    <3>2. CASE known' = known
      BY <3>1, <3>2 DEF CSafeInv, MemoryInv
    <3>3. CASE /\ arg[t] \in known \/ Cardinality(known) < MaxNames
               /\ known' = known \cup {arg[t]}
      <4>1. /\ IsFiniteSet(known \cup {arg[t]})
            /\ Cardinality(known \cup {arg[t]}) =
                  IF arg[t] \in known THEN Cardinality(known) ELSE Cardinality(known) + 1
        BY <3>1, FS_AddElement
      <4> QED BY <4>1, <3>1, <3>3, <2>1 DEF CSafeInv, MemoryInv
    <3>4. ASSUME NEW o \in known, arg[t] \notin known, known' = (known \ {o}) \cup {arg[t]}
          PROVE  /\ known' \subseteq Name /\ IsFiniteSet(known')
                 /\ Cardinality(known') <= MaxNames
      <4>1. IsFiniteSet(known \ {o}) /\ Cardinality(known \ {o}) = Cardinality(known) - 1
        BY <3>1, <3>4, FS_RemoveElement
      <4>2. /\ IsFiniteSet((known \ {o}) \cup {arg[t]})
            /\ Cardinality((known \ {o}) \cup {arg[t]}) = Cardinality(known \ {o}) + 1
        BY <4>1, <3>4, FS_AddElement
      <4> QED BY <4>1, <4>2, <3>1, <3>4, <2>1 DEF CSafeInv, MemoryInv
    <3>5. \/ known' = known
          \/ (arg[t] \in known \/ Cardinality(known) < MaxNames) /\ known' = known \cup {arg[t]}
          \/ \E o \in known : arg[t] \notin known /\ known' = (known \ {o}) \cup {arg[t]}
      BY <1>8, CSameCount DEF L!Touch
    <3> QED BY <3>2, <3>3, <3>4, <3>5
  <2> QED BY <1>8, <2>1, <2>2, <2>3 DEF CSafeInv, MemoryInv, L!Touch
<1>9. ASSUME NEW t \in Thread, L!UnlearnWeights(t) PROVE CSafeInv'
  BY <1>9 DEF CSafeInv, ThreadsInv, MemoryInv, IdsInv, Ids, L!UnlearnWeights, L!Goto, CPCs, L!lockVars
<1>10. ASSUME NEW t \in Thread, L!UnlearnKey(t) PROVE CSafeInv'
  <2>1. ThreadsInv'
    BY <1>10 DEF CSafeInv, ThreadsInv, L!UnlearnKey, L!Goto, CPCs
  <2>2. IdsInv'
    BY <1>10, DeleteKeepsIds DEF CSafeInv, L!UnlearnKey
  <2> QED BY <1>10, <2>1, <2>2 DEF CSafeInv, MemoryInv, L!UnlearnKey
<1>11. ASSUME NEW t \in Thread, L!DeleteInStorage(t) PROVE CSafeInv'
  <2>1. ThreadsInv'
    BY <1>11 DEF CSafeInv, ThreadsInv, L!DeleteInStorage, L!Goto, CPCs, L!lockVars
  <2>2. IdsInv'
    BY <1>11, DeleteKeepsIds DEF CSafeInv, L!DeleteInStorage
  <2> QED BY <1>11, <2>1, <2>2 DEF CSafeInv, MemoryInv, L!DeleteInStorage
<1>12. ASSUME NEW t \in Thread, L!Forget(t) PROVE CSafeInv'
  <2>1. ThreadsInv' /\ IdsInv'
    BY <1>12 DEF CSafeInv, ThreadsInv, IdsInv, Ids, L!Forget, L!Goto, CPCs, L!lockVars
  <2>2. IsFiniteSet(known') /\ Cardinality(known') <= Cardinality(known)
    <3>1. known' = known \ {arg[t]} /\ IsFiniteSet(known)
      BY <1>12 DEF CSafeInv, MemoryInv, L!Forget
    <3>2. IsFiniteSet(known \ {arg[t]}) /\ Cardinality(known \ {arg[t]}) <= Cardinality(known)
      BY ONLY <3>1, known \ {arg[t]} \in SUBSET known, FS_Subset
    <3> QED BY <3>1, <3>2
  <2> QED BY <1>12, <2>1, <2>2, FS_CardinalityType DEF CSafeInv, MemoryInv, L!Forget
<1>13. \A t \in Thread :
          L!perceptron_train(t) \/ L!passive_aggressive_train(t) \/ L!passive_aggressive_1_train(t)
            \/ L!arow_train(t) \/ L!confidence_weighted_train(t) \/ L!normal_herd_train(t)
          => \E to \in {"idle", "register", "update"} : L!CalcMargin(t, to)
  BY DEF L!perceptron_train, L!passive_aggressive_train, L!passive_aggressive_1_train,
         L!arow_train, L!confidence_weighted_train, L!normal_herd_train
<1>14. \A t \in Thread, fs \in SUBSET Feature :
          \/ L!bulk_update(t, fs) \/ L!arow_update(t, fs)
          \/ L!confidence_weighted_update(t, fs) \/ L!normal_herd_update(t, fs)
          => \E held \in BOOLEAN : L!SetWeights(t, fs, held)
  BY DEF L!bulk_update, L!arow_update, L!confidence_weighted_update, L!normal_herd_update
<1> QED
  BY <1>1, <1>2, <1>3, <1>4, <1>5, <1>6, <1>7, <1>8, <1>9, <1>10, <1>11, <1>12, <1>13, <1>14
     DEF L!Next

LEMMA SafeInitially ==
    ASSUME Assumptions
    PROVE  L!Init => CSafeInv
BY FS_EmptySet
   DEF L!Init, CSafeInv, ThreadsInv, MemoryInv, IdsInv, Ids, CPCs,
       Assumptions, L!LabelAssumption, L!CallBounds

\* TypeOK holds of every behaviour, for any number of threads and labels.
THEOREM TypesHold ==
    ASSUME L!LabelAssumption, L!CallBounds
    PROVE  L!Spec => []L!TypeOK
<1>0. Assumptions
  BY DEF Assumptions
<1>1. CSafeInv => L!TypeOK
  BY CSameCount DEF CSafeInv, ThreadsInv, MemoryInv, IdsInv, Ids, L!TypeOK
<1>2. (L!Init => CSafeInv) /\ (CSafeInv /\ [L!Next]_L!vars => CSafeInv')
  BY <1>0, SafeInitially, SafeInductive
<1> QED BY <1>1, <1>2, PTL DEF L!Spec

\* NothingInherited: an id is never given to a second label, so that no score of a
\* label uses what another learned, even where weights were left behind.
THEOREM NothingInheritedHere ==
    ASSUME L!LabelAssumption, L!CallBounds
    PROVE  L!Spec => []L!NothingInherited
<1>0. Assumptions
  BY DEF Assumptions
<1>1. CSafeInv => L!NothingInherited
  BY DEF CSafeInv, IdsInv, L!NothingInherited, L!IsInjective
<1>2. (L!Init => CSafeInv) /\ (CSafeInv /\ [L!Next]_L!vars => CSafeInv')
  BY <1>0, SafeInitially, SafeInductive
<1> QED BY <1>1, <1>2, PTL DEF L!Spec

---------------------------------------------------------------------------
\* The methods that hold the storage's lock, as long as nobody sets a label: the
\* lock is theirs until the unlearner has been told, and between the two halves of
\* unlearn_label no weight of the label is left.
Holding == {"touch", "unlearn", "unlearn_key"}
HeldInv ==
    method \in L!Holders /\ ~setters =>
        /\ \A t \in Thread : at[t] \notin {"check_set", "set", "add", "add_only"}
        /\ \A t \in Thread : at[t] \in Holding => rw = t
        /\ \A t \in Thread : at[t] = "unlearn_key" => L!WeightsOf(old[t]) = {}
        /\ L!WeightsHaveLabels

\* The method and its use stay what they are.
LEMMA SettingsStay == [L!Next]_L!vars => UNCHANGED L!settings
<1> SUFFICES ASSUME [L!Next]_L!vars PROVE UNCHANGED L!settings
  OBVIOUS
<1>1. CASE UNCHANGED L!vars
  BY <1>1 DEF L!vars
<1>2. ASSUME NEW t \in Thread, NEW l \in Name,
             L!Train(t, l) \/ L!SetLabel(t, l) \/ L!DeleteLabel(t, l)
      PROVE  UNCHANGED L!settings
  BY <1>2 DEF L!Train, L!SetLabel, L!DeleteLabel, L!Call
<1>3. ASSUME NEW t \in Thread,
             L!perceptron_train(t) \/ L!passive_aggressive_train(t) \/ L!passive_aggressive_1_train(t)
               \/ L!arow_train(t) \/ L!confidence_weighted_train(t) \/ L!normal_herd_train(t)
      PROVE  UNCHANGED L!settings
  BY <1>3 DEF L!perceptron_train, L!passive_aggressive_train, L!passive_aggressive_1_train, L!arow_train,
              L!confidence_weighted_train, L!normal_herd_train, L!CalcMargin
<1>4. ASSUME NEW t \in Thread, NEW fs \in SUBSET Feature,
             L!bulk_update(t, fs) \/ L!arow_update(t, fs)
               \/ L!confidence_weighted_update(t, fs) \/ L!normal_herd_update(t, fs)
      PROVE  UNCHANGED L!settings
  BY <1>4 DEF L!bulk_update, L!arow_update, L!confidence_weighted_update, L!normal_herd_update, L!SetWeights
<1>5. ASSUME NEW t \in Thread,
             L!Touch(t) \/ L!UnlearnWeights(t) \/ L!UnlearnKey(t) \/ L!SetInStorage(t) \/ L!AddLabel(t)
               \/ L!DeleteInStorage(t) \/ L!EraseLabel(t) \/ L!Forget(t)
      PROVE  UNCHANGED L!settings
  BY <1>5 DEF L!Touch, L!UnlearnWeights, L!UnlearnKey, L!SetInStorage, L!AddLabel, L!DeleteInStorage,
              L!EraseLabel, L!Forget
<1>6. \A t \in Thread : L!CheckTouchable(t, "check", "increment") \/ L!CheckTouchable(t, "check_set", "set")
                          \/ L!Increment(t) \/ L!Register(t) => UNCHANGED L!settings
  BY DEF L!CheckTouchable, L!Increment, L!Register
<1> QED BY <1>1, <1>2, <1>3, <1>4, <1>5, <1>6 DEF L!Next

\* Nothing that a held lock protects moves while another thread holds it.
LEMMA HeldInductive ==
    ASSUME Assumptions
    PROVE  CSafeInv /\ HeldInv /\ [L!Next]_L!vars => HeldInv'
<1> SUFFICES ASSUME CSafeInv, HeldInv, [L!Next]_L!vars, method' \in L!Holders, ~setters'
             PROVE  /\ \A t \in Thread : at'[t] \notin {"check_set", "set", "add", "add_only"}
                    /\ \A t \in Thread : at'[t] \in Holding => rw' = t
                    /\ \A t \in Thread : at'[t] = "unlearn_key" => L!WeightsOf(old[t])' = {}
                    /\ L!WeightsHaveLabels'
  BY DEF HeldInv
<1> USE DEF Assumptions, L!LabelAssumption, L!CallBounds
<1>0. method \in L!Holders /\ ~setters
  BY SettingsStay DEF L!settings
<1>h. /\ \A t \in Thread : at[t] \notin {"check_set", "set", "add", "add_only"}
      /\ \A t \in Thread : at[t] \in Holding => rw = t
      /\ \A t \in Thread : at[t] = "unlearn_key" => L!WeightsOf(old[t]) = {}
      /\ L!WeightsHaveLabels
  BY <1>0 DEF HeldInv
<1>1. CASE UNCHANGED L!vars
  BY <1>1, <1>h DEF L!vars, L!modelVars, L!lockVars, L!settings, L!WeightsOf, L!WeightsHaveLabels
<1>2. ASSUME NEW t \in Thread, NEW l \in Name, L!Train(t, l) \/ L!DeleteLabel(t, l) PROVE HeldInv'
  BY <1>2, <1>h DEF HeldInv, CSafeInv, ThreadsInv, L!Train, L!DeleteLabel, L!Call, L!Goto, L!modelVars, L!lockVars,
                    Holding, L!WeightsOf, L!WeightsHaveLabels
<1>3. ASSUME NEW t \in Thread, L!CheckTouchable(t, "check", "increment") PROVE HeldInv'
  BY <1>3, <1>h DEF HeldInv, CSafeInv, ThreadsInv, L!CheckTouchable, L!Goto, L!modelVars, L!lockVars,
                    Holding, L!WeightsOf, L!WeightsHaveLabels
<1>4. ASSUME NEW t \in Thread, L!Increment(t) \/ L!EraseLabel(t) PROVE HeldInv'
  BY <1>4, <1>h DEF HeldInv, CSafeInv, ThreadsInv, L!Increment, L!EraseLabel, L!Goto, L!lockVars,
                    Holding, L!WeightsOf, L!WeightsHaveLabels
<1>5. ASSUME NEW t \in Thread, NEW to \in {"idle", "register", "update"}, L!CalcMargin(t, to)
      PROVE  HeldInv'
  BY <1>5, <1>h DEF HeldInv, CSafeInv, ThreadsInv, L!CalcMargin, L!Goto, L!modelVars, L!lockVars,
                    Holding, L!WeightsOf, L!WeightsHaveLabels
<1>f. rw = NoName => \A t \in Thread : at[t] \notin Holding
  BY <1>h
<1>6. ASSUME NEW t \in Thread, L!Register(t) PROVE HeldInv'
  <2>1. Few({arg[t]}) /\ L!GetIds({arg[t]}) /\ tbl' = tbl /\ rw = NoName /\ L!Goto(t, "register", "idle")
    BY <1>6 DEF Few, L!Register
  <2>2. DOMAIN key2id \subseteq DOMAIN key2id' /\ \A l \in DOMAIN key2id : key2id'[l] = key2id[l]
    BY <2>1, GetIdsGives DEF CSafeInv
  <2>3. L!WeightsHaveLabels'
    BY <2>1, <2>2, <1>h DEF L!WeightsHaveLabels
  <2>4. \A u \in Thread : at'[u] \notin Holding \cup {"check_set", "set", "add", "add_only"}
    BY <2>1, <1>f, <1>h DEF L!Goto, Holding, CSafeInv, ThreadsInv
  <2> QED BY <2>3, <2>4 DEF HeldInv, Holding
<1>7. ASSUME NEW t \in Thread, NEW fs, L!SetWeights(t, fs, TRUE) PROVE HeldInv'
  <2> DEFINE ls == {arg[t], neg[t]} \ {NoName}
  <2>1. /\ Few(ls) /\ L!GetIds(ls) /\ rw = NoName /\ rw' = t /\ L!Goto(t, "update", "touch")
        /\ tbl' = tbl \cup {[feature |-> f, id |-> key2id'[l], by |-> l] : f \in fs, l \in ls}
    BY <1>7 DEF Few, L!SetWeights
  <2>2. \A w \in tbl' : w \in tbl \/ \E l \in ls : w.id = key2id'[l]
    BY <2>1
  <2>3. /\ DOMAIN key2id \subseteq DOMAIN key2id' /\ ls \subseteq DOMAIN key2id'
        /\ \A l \in DOMAIN key2id : key2id'[l] = key2id[l]
    <3> HIDE DEF ls
    <3>1. IdsInv /\ Few(ls) /\ L!GetIds(ls)
      BY <2>1 DEF CSafeInv
    <3>2. /\ DOMAIN key2id' = DOMAIN key2id \cup ls
          /\ \A l \in DOMAIN key2id : key2id'[l] = key2id[l]
      BY <3>1, GetIdsGives
    <3> QED BY <3>2
  <2>4. L!WeightsHaveLabels'
    <3> HIDE DEF ls
    <3> QED BY <2>2, <2>3, <1>h DEF L!WeightsHaveLabels
  <2>5. /\ \A u \in Thread : at'[u] \in Holding => u = t
        /\ \A u \in Thread : at'[u] \notin {"check_set", "set", "add", "add_only", "unlearn_key"}
    BY <2>1, <1>f, <1>h DEF L!Goto, Holding, CSafeInv, ThreadsInv
  <2> QED BY <2>1, <2>4, <2>5 DEF HeldInv
<1>8. ASSUME NEW t \in Thread, L!Touch(t) PROVE HeldInv'
  <2>1. at[t] = "touch" /\ rw = t /\ key2id' = key2id /\ tbl' = tbl
        /\ \/ L!Goto(t, "touch", "idle")
           \/ L!Goto(t, "touch", "unlearn") /\ rw' = rw
    BY <1>8, <1>h DEF L!Touch, L!Goto, Holding
  <2>2. \A u \in Thread : u # t => at[u] \notin Holding
    BY <2>1, <1>h
  <2>3. /\ \A u \in Thread : at'[u] \in Holding => u = t /\ rw' = t
        /\ \A u \in Thread : at'[u] \notin {"check_set", "set", "add", "add_only", "unlearn_key"}
    BY <2>1, <2>2, <1>h DEF L!Goto, Holding, CSafeInv, ThreadsInv
  <2>4. L!WeightsHaveLabels'
    BY <2>1, <1>h DEF L!WeightsHaveLabels
  <2> QED BY <2>3, <2>4 DEF HeldInv
<1>9. ASSUME NEW t \in Thread, L!UnlearnWeights(t) PROVE HeldInv'
  <2>1. /\ at[t] = "unlearn" /\ rw = t /\ rw' = t /\ key2id' = key2id /\ old' = old
        /\ tbl' = tbl \ L!WeightsOf(old[t]) /\ L!Goto(t, "unlearn", "unlearn_key")
    BY <1>9, <1>h DEF L!UnlearnWeights, L!Goto, Holding, L!lockVars
  <2>2. /\ \A u \in Thread : at'[u] \in Holding => u = t
        /\ \A u \in Thread : at'[u] \notin {"check_set", "set", "add", "add_only"}
    BY <2>1, <1>h DEF L!Goto, Holding, CSafeInv, ThreadsInv
  <2>3. L!WeightsOf(old[t])' = {}
    BY <2>1 DEF L!WeightsOf
  <2>4. L!WeightsHaveLabels'
    BY <2>1, <1>h DEF L!WeightsHaveLabels
  <2> QED BY <2>1, <2>2, <2>3, <2>4 DEF HeldInv, Holding
<1>10. ASSUME NEW t \in Thread, L!UnlearnKey(t) PROVE HeldInv'
  <2>1. /\ at[t] = "unlearn_key" /\ rw = t /\ L!WeightsOf(old[t]) = {} /\ tbl' = tbl
        /\ L!DeleteKey(old[t]) /\ L!Goto(t, "unlearn_key", "idle")
    BY <1>10, <1>h DEF L!UnlearnKey, L!Goto, Holding
  <2>2. \A u \in Thread : at'[u] \notin Holding \cup {"check_set", "set", "add", "add_only"}
    BY <2>1, <1>h DEF L!Goto, Holding, CSafeInv, ThreadsInv
  <2>3. L!WeightsHaveLabels'
    BY <2>1, <1>h DEF L!WeightsHaveLabels, L!WeightsOf, L!DeleteKey, L!Restrict
  <2> QED BY <2>2, <2>3 DEF HeldInv, Holding
<1>11. ASSUME NEW t \in Thread, L!DeleteInStorage(t) PROVE HeldInv'
  <2>1. /\ rw = NoName /\ tbl' = tbl \ L!WeightsOf(arg[t]) /\ L!DeleteKey(arg[t])
        /\ \E to \in {"erase", "erase_only"} : L!Goto(t, "delete", to)
    BY <1>11 DEF L!DeleteInStorage
  <2>2. \A u \in Thread : at'[u] \notin Holding \cup {"check_set", "set", "add", "add_only"}
    BY <2>1, <1>f, <1>h DEF L!Goto, Holding, CSafeInv, ThreadsInv
  <2>3. L!WeightsHaveLabels'
    BY <2>1, <1>h DEF L!WeightsHaveLabels, L!WeightsOf, L!DeleteKey, L!Restrict
  <2> QED BY <2>2, <2>3 DEF HeldInv, Holding
<1>12. ASSUME NEW t \in Thread, L!Forget(t) PROVE HeldInv'
  BY <1>12, <1>h DEF HeldInv, CSafeInv, ThreadsInv, L!Forget, L!Goto, L!lockVars,
                     Holding, L!WeightsOf, L!WeightsHaveLabels
<1>13. \A t \in Thread :
          L!perceptron_train(t) \/ L!passive_aggressive_train(t) \/ L!passive_aggressive_1_train(t)
            \/ L!arow_train(t) \/ L!confidence_weighted_train(t) \/ L!normal_herd_train(t)
          => \E to \in {"idle", "register", "update"} : L!CalcMargin(t, to)
  BY DEF L!perceptron_train, L!passive_aggressive_train, L!passive_aggressive_1_train,
         L!arow_train, L!confidence_weighted_train, L!normal_herd_train
<1>14. \A t \in Thread, fs \in SUBSET Feature :
          \/ L!bulk_update(t, fs) \/ L!arow_update(t, fs)
          \/ L!confidence_weighted_update(t, fs) \/ L!normal_herd_update(t, fs)
          => L!SetWeights(t, fs, TRUE)
  BY <1>0 DEF L!bulk_update, L!arow_update, L!confidence_weighted_update, L!normal_herd_update
<1>15. \A t \in Thread : ~L!CheckTouchable(t, "check_set", "set") /\ ~L!SetInStorage(t) /\ ~L!AddLabel(t)
  BY <1>h DEF L!CheckTouchable, L!SetInStorage, L!AddLabel, L!Goto
<1>16. HeldInv' \/ UNCHANGED L!vars
  BY <1>0, <1>2, <1>3, <1>4, <1>5, <1>6, <1>7, <1>8, <1>9, <1>10, <1>11, <1>12, <1>13, <1>14,
     <1>15 DEF L!Next
<1> QED BY <1>1, <1>16 DEF HeldInv

\* HeldLockIsEnough: what unlearn_label's comment asks for suffices; a weight whose
\* label has gone is never left by a method that does it.
THEOREM HeldLockIsEnoughHere ==
    ASSUME L!LabelAssumption, L!CallBounds
    PROVE  L!Spec => []L!HeldLockIsEnough
<1>0. Assumptions
  BY DEF Assumptions
<1>1. L!Init => HeldInv
  BY DEF L!Init, HeldInv, Holding, L!WeightsHaveLabels
<1>2. HeldInv => L!HeldLockIsEnough
  BY DEF HeldInv, L!HeldLockIsEnough
<1>3. /\ L!Init => CSafeInv
      /\ CSafeInv /\ [L!Next]_L!vars => CSafeInv'
      /\ CSafeInv /\ HeldInv /\ [L!Next]_L!vars => HeldInv'
  BY <1>0, SafeInitially, SafeInductive, HeldInductive
<1> QED BY <1>1, <1>2, <1>3, PTL DEF L!Spec

---------------------------------------------------------------------------
(* The users of nearest neighbour tables.  What NeighborTables_proofs      *)
(* proves of its own instance holds of the run's, definition by definition.*)
NP == INSTANCE NeighborTables_proofs
        WITH Id <- RowId, Sticky <- StickyRow, MaxRounds <- MaxTurns,
             srv <- servers, calls <- made, rounds <- turn,
             phase <- leg, asked <- due, mixed <- gathered

LEMMA KnownSame == \A m : N!Known(m) = NP!Known(m)
<1> QED BY DEF NP!Known, N!Known, NP!Range, N!Range
LEMMA FullSame == \A m : N!Full(m) <=> NP!Full(m)
<1> QED BY DEF NP!CountOf, N!CountOf, NP!Full, N!Full, NP!Cardinality, N!Cardinality
LEMMA CanTouchSame == \A m, key : N!can_touch(m, key) <=> NP!can_touch(m, key)
<1> QED BY DEF NP!Known, N!Known, NP!CountOf, N!CountOf, NP!Full, N!Full, NP!can_touch,
         N!can_touch, NP!Cardinality, N!Cardinality, NP!Range, N!Range
LEMMA UnlearnSame == \A m, key : N!unlearn(m, key) = NP!unlearn(m, key)
<1> QED BY DEF NP!Has, N!Has, NP!Size, N!Size, NP!DeleteAt, N!DeleteAt, NP!DeleteRow,
         N!DeleteRow, NP!unlearn, N!unlearn, NP!Restrict, N!Restrict
LEMMA WithoutSame == \A l, x : N!Without(l, x) = NP!Without(l, x)
<1> QED BY DEF NP!Without, N!Without, NP!Range, N!Range
LEMMA TouchSame == \A m, key : N!touch(m, key) = NP!touch(m, key)
<1> TAKE m, key
<1>1. N!can_touch(m, key) <=> NP!can_touch(m, key)
  BY CanTouchSame
<1>2. N!Known(m) = NP!Known(m) /\ (N!Full(m) <=> NP!Full(m))
  BY KnownSame, FullSame
<1>3. PICK o : o = m.lru[Len(m.lru)]
  OBVIOUS
<1>4. PICK u : u = N!unlearn(m, o) /\ u = NP!unlearn(m, o)
  BY UnlearnSame
<1>5. PICK room : room = IF key \in N!Known(m) \/ ~N!Full(m) THEN m ELSE [u EXCEPT !.lru = SubSeq(@, 1, Len(@) - 1)]
  OBVIOUS
<1>6. PICK l : l = N!Without(room.lru, key) /\ l = NP!Without(room.lru, key)
  BY WithoutSame
<1>7. N!touch(m, key) =
        IF max_size = 0 \/ ~N!can_touch(m, key) \/ key \in m.sticky THEN m
        ELSE IF key \in StickyRow THEN [room EXCEPT !.sticky = @ \cup {key}]
             ELSE [room EXCEPT !.lru = <<key>> \o l]
  BY <1>3, <1>4, <1>5, <1>6 DEF N!touch
<1>8. NP!touch(m, key) =
        IF max_size = 0 \/ ~NP!can_touch(m, key) \/ key \in m.sticky THEN m
        ELSE IF key \in StickyRow THEN [room EXCEPT !.sticky = @ \cup {key}]
             ELSE [room EXCEPT !.lru = <<key>> \o l]
  BY <1>2, <1>3, <1>4, <1>5, <1>6 DEF NP!touch
<1> QED BY <1>1, <1>7, <1>8
LEMMA PutRowSame == \A m, w, r : N!PutRow(m, w, r) = NP!PutRow(m, w, r)
<1> TAKE m, w, r
<1>1. N!touch(m, r.key) = NP!touch(m, r.key)
  BY TouchSame
<1>2. \A t : N!SetRow(t, r) = NP!SetRow(t, r)
  BY DEF NP!Has, N!Has, NP!RowOf, N!RowOf, NP!Size, N!Size, NP!Store, N!Store, NP!Newer,
           N!Newer, NP!ClockFrom, N!ClockFrom, NP!SetRow, N!SetRow
<1>3. \A v : N!Advance(v, r) = NP!Advance(v, r)
  BY DEF NP!With, N!With, NP!owner, N!owner, NP!Seen, N!Seen, NP!Advance, N!Advance
<1>4. [m EXCEPT !.values = N!SetRow(@, r), !.vvc = N!Advance(@, r)]
        = [m EXCEPT !.values = NP!SetRow(@, r), !.vvc = NP!Advance(@, r)]
  BY <1>2, <1>3
<1>5. PICK u : u = IF user = "regression" THEN N!touch(m, r.key) ELSE m
  OBVIOUS
<1>6. [u EXCEPT !.table = N!SetRow(@, r), !.vc = N!Advance(@, r)]
        = [u EXCEPT !.table = NP!SetRow(@, r), !.vc = NP!Advance(@, r)]
  BY <1>2, <1>3
<1>7. N!PutRow(m, w, r) =
        IF w = "values" THEN [m EXCEPT !.values = N!SetRow(@, r), !.vvc = N!Advance(@, r)]
        ELSE [u EXCEPT !.table = N!SetRow(@, r), !.vc = N!Advance(@, r)]
  BY <1>5 DEF N!PutRow
<1>8. NP!PutRow(m, w, r) =
        IF w = "values" THEN [m EXCEPT !.values = NP!SetRow(@, r), !.vvc = NP!Advance(@, r)]
        ELSE [u EXCEPT !.table = NP!SetRow(@, r), !.vc = NP!Advance(@, r)]
  BY <1>1, <1>5 DEF NP!PutRow
<1> QED BY <1>4, <1>6, <1>7, <1>8

LEMMA PutRowsSame == \A m, w, lines : N!PutRows(m, w, lines) = NP!PutRows(m, w, lines)
<1> TAKE m, w, lines
<1> DEFINE P(f) == f = [i \in 0..Len(lines) |-> IF i = 0 THEN m ELSE N!PutRow(f[i - 1], w, lines[i])]
           Q(f) == f = [i \in 0..Len(lines) |-> IF i = 0 THEN m ELSE NP!PutRow(f[i - 1], w, lines[i])]
<1>1. \A f : P(f) <=> Q(f)
  BY PutRowSame
<1>2. N!PutRows(m, w, lines) = (CHOOSE f : P(f))[Len(lines)]
  BY DEF N!PutRows
<1>3. NP!PutRows(m, w, lines) = (CHOOSE f : Q(f))[Len(lines)]
  BY DEF NP!PutRows
<1> HIDE DEF P, Q
<1>4. (CHOOSE f : P(f)) = (CHOOSE f : Q(f))
  BY <1>1
<1> QED BY <1>2, <1>3, <1>4

LEMMA PutSame == \A s, w : N!put_diff(s, w) <=> NP!put_diff(s, w)
<1>1. \A t, w : N!PutRows(servers[t], w, N!Gathered(w)) = NP!PutRows(servers[t], w, N!Gathered(w))
  BY PutRowsSame
<1>2. \A w : N!Gathered(w) = NP!Gathered(w)
  BY DEF N!Gathered, NP!Gathered
<1> QED BY <1>1, <1>2 DEF N!put_diff, NP!put_diff, NP!NoId, N!NoId, NP!Idle, N!Idle, NP!Mixer,
         N!Mixer, NP!InOrder, N!InOrder
LEMMA SetRowSame == \A s, key : N!driver_set_row(s, key) <=> NP!driver_set_row(s, key)
<1> TAKE s, key
<1>1. PICK m : m = N!touch(servers[s], key) /\ m = NP!touch(servers[s], key)
  BY TouchSame
<1>2. N!can_touch(servers[s], key) <=> NP!can_touch(servers[s], key)
  BY CanTouchSame
<1>3. \A t : N!Add(t, key, N!owner(s), made + 1) = NP!Add(t, key, NP!owner(s), made + 1)
  BY DEF NP!Row, N!Row, NP!Has, N!Has, NP!Size, N!Size, NP!Store, N!Store, NP!Tick, N!Tick,
           NP!Add, N!Add, NP!owner, N!owner
<1>4. [m EXCEPT !.table = N!Add(@, key, N!owner(s), made + 1)]
         = [m EXCEPT !.table = NP!Add(@, key, NP!owner(s), made + 1)]
  BY <1>3
<1>5. \A u : N!Call(s, u) <=> NP!Call(s, u)
  BY DEF NP!Call, N!Call
<1>6. N!driver_set_row(s, key) <=>
        /\ user = "driver" /\ N!Call(s, [m EXCEPT !.table = N!Add(@, key, N!owner(s), made + 1)])
        /\ disturbed' = IF N!can_touch(servers[s], key) THEN disturbed ELSE disturbed \cup {<<"refused", s>>}
  BY <1>1 DEF N!driver_set_row
<1>7. NP!driver_set_row(s, key) <=>
        /\ user = "driver" /\ NP!Call(s, [m EXCEPT !.table = NP!Add(@, key, NP!owner(s), made + 1)])
        /\ disturbed' = IF NP!can_touch(servers[s], key) THEN disturbed ELSE disturbed \cup {<<"refused", s>>}
  BY <1>1 DEF NP!driver_set_row
<1> QED BY <1>2, <1>4, <1>5, <1>6, <1>7
LEMMA UpdateSame == \A s, key, c : N!update_row(s, key, c) <=> NP!update_row(s, key, c)
<1> TAKE s, key, c
<1>1. PICK m : m = N!touch(servers[s], key) /\ m = NP!touch(servers[s], key)
  BY TouchSame
<1>2. N!can_touch(servers[s], key) <=> NP!can_touch(servers[s], key)
  BY CanTouchSame
<1> QED BY <1>1, <1>2 DEF N!update_row, NP!update_row, NP!Row, N!Row, NP!Has, N!Has, NP!Size,
         N!Size, NP!Store, N!Store, NP!Tick, N!Tick, NP!Add, N!Add, NP!With, N!With, NP!None,
         N!None, NP!owner, N!owner, NP!Call, N!Call
LEMMA TrainTouchSame == \A s : N!TrainTouch(s) <=> NP!TrainTouch(s)
<1> TAKE s
<1>1. \A k : N!touch(servers[s], k) = NP!touch(servers[s], k)
  BY TouchSame
<1> QED BY <1>1 DEF N!TrainTouch, NP!TrainTouch, NP!NoId, N!NoId, NP!Idle, N!Idle, NP!Call,
         N!Call

LEMMA NextSame == N!Next => NP!Next
<1>1. ASSUME NEW s \in Server, NEW key \in RowId, N!driver_set_row(s, key) PROVE NP!Next
  BY <1>1, SetRowSame DEF NP!Next
<1>2. ASSUME NEW s \in Server, NEW key \in RowId, N!clear_row(s, key) PROVE NP!Next
  <2>1. NP!clear_row(s, key)
    BY <1>2 DEF NP!Has, N!Has, NP!Size, N!Size, NP!DeleteAt, N!DeleteAt, NP!DeleteRow,
             N!DeleteRow, NP!Without, N!Without, NP!unlearn, N!unlearn, NP!forget, N!forget,
             NP!Call, N!Call, NP!clear_row, N!clear_row, NP!Range, N!Range, NP!Restrict,
             N!Restrict
  <2> QED BY <2>1 DEF NP!Next
<1>3. ASSUME NEW s \in Server, NEW key \in RowId, NEW c \in Column, N!update_row(s, key, c) PROVE NP!Next
  BY <1>3, UpdateSame DEF NP!Next
<1>4. ASSUME NEW s \in Server, NEW r \in Server, N!unpack(s, r) PROVE NP!Next
  <2>1. NP!unpack(s, r)
    BY <1>4 DEF NP!NoId, N!NoId, NP!Idle, N!Idle, NP!Call, N!Call, NP!Between, N!Between,
             NP!unpack, N!unpack
  <2> QED BY <2>1 DEF NP!Next
<1>5. ASSUME NEW s \in Server, N!TrainTouch(s) PROVE NP!Next
  BY <1>5, TrainTouchSame DEF NP!Next
<1>6. ASSUME NEW s \in Server, N!TrainRow(s) PROVE NP!Next
  <2>1. NP!TrainRow(s)
    BY <1>6 DEF NP!Row, N!Row, NP!Has, N!Has, NP!Size, N!Size, NP!Store, N!Store, NP!Tick,
             N!Tick, NP!Add, N!Add, NP!owner, N!owner, NP!Between, N!Between, NP!Train, N!Train,
             NP!TrainRow, N!TrainRow
  <2> QED BY <2>1 DEF NP!Next
<1>7. ASSUME NEW s \in Server, N!TrainValue(s) PROVE NP!Next
  <2>1. NP!TrainValue(s)
    BY <1>7 DEF NP!Row, N!Row, NP!Has, N!Has, NP!Size, N!Size, NP!Store, N!Store, NP!Tick,
             N!Tick, NP!Add, N!Add, NP!NoId, N!NoId, NP!Idle, N!Idle, NP!owner, N!owner,
             NP!Between, N!Between, NP!Train, N!Train, NP!TrainValue, N!TrainValue
  <2> QED BY <2>1 DEF NP!Next
<1>8. ASSUME NEW s \in Server, N!clear(s) PROVE NP!Next
  <2>1. NP!clear(s)
    BY <1>8 DEF NP!EmptyTable, N!EmptyTable, NP!ClearTable, N!ClearTable, NP!NoId, N!NoId,
             NP!Idle, N!Idle, NP!None, N!None, NP!Call, N!Call, NP!Between, N!Between,
             NP!Cleared, N!Cleared, NP!clear, N!clear
  <2> QED BY <2>1 DEF NP!Next
<1>9. ASSUME NEW s \in Server, NEW w \in {"table", "values"}, N!get_diff(s, w) PROVE NP!Next
  <2>1. NP!get_diff(s, w)
    BY <1>9 DEF NP!Size, N!Size, NP!NoId, N!NoId, NP!Idle, N!Idle, NP!owner, N!owner, NP!Seen,
             N!Seen, NP!Gathered, N!Gathered, NP!PullRows, N!PullRows, NP!Pulled, N!Pulled,
             NP!Mixer, N!Mixer, NP!InOrder, N!InOrder, NP!get_diff, N!get_diff
  <2> QED BY <2>1 DEF NP!Next
<1>10. ASSUME NEW s \in Server, NEW w \in {"table", "values"}, N!put_diff(s, w) PROVE NP!Next
  BY <1>10, PutSame DEF NP!Next
<1>11. (N!StartRound => NP!StartRound) /\ (N!StartPut => NP!StartPut) /\ (N!EndRound => NP!EndRound)
  BY DEF NP!Tables, N!Tables, NP!Mixer, N!Mixer, NP!StartRound, N!StartRound, NP!StartPut,
           N!StartPut, NP!EndRound, N!EndRound
<1> QED BY <1>1, <1>2, <1>3, <1>4, <1>5, <1>6, <1>7, <1>8, <1>9, <1>10, <1>11 DEF N!Next,
         NP!Next

LEMMA InitSame == N!Init => NP!Init
<1> QED BY DEF NP!EmptyTable, N!EmptyTable, NP!NoId, N!NoId, NP!Idle, N!Idle, NP!NoClock,
         N!NoClock, NP!None, N!None, NP!Init, N!Init

LEMMA PromiseSame == NP!NeighborsAreServed => N!NeighborsAreServed
<1> QED BY DEF NP!Has, N!Has, NP!RowOf, N!RowOf, NP!Size, N!Size, NP!NoId, N!NoId, NP!Idle,
         N!Idle, NP!owner, N!owner, NP!Known, N!Known, NP!Ids, N!Ids, NP!Happened, N!Happened,
         NP!MemoryHasRows, N!MemoryHasRows, NP!OrigMatchesRows, N!OrigMatchesRows, NP!Estimated,
         N!Estimated, NP!ValuesFollowRows, N!ValuesFollowRows, NP!RegressionIsBounded,
         N!RegressionIsBounded, NP!DriverIsBounded, N!DriverIsBounded, NP!NeighborsAreServed,
         N!NeighborsAreServed, NP!Range, N!Range

---------------------------------------------------------------------------
(* The same of the composition that the run checks: the component that runs*)
(* keeps its invariant beside those that do not.                           *)
PartInv ==
    /\ part = "linear" => CSafeInv /\ HeldInv
    /\ part = "tables" => NP!ServedInv

LEMMA PartInitially == PartsInit => PartInv
<1> SUFFICES ASSUME PartsInit PROVE PartInv
  OBVIOUS
<1>1. ASSUME part = "linear" PROVE CSafeInv /\ HeldInv
  <2>1. L!Init
    BY <1>1 DEF PartsInit
  <2>2. Assumptions
    BY InstancesAssumption DEF Assumptions
  <2>3. HeldInv
    BY <2>1 DEF L!Init, HeldInv, Holding, L!WeightsHaveLabels
  <2> QED BY <2>1, <2>2, <2>3, SafeInitially
<1>2. ASSUME part = "tables" PROVE NP!ServedInv
  <2>1. N!Init
    BY <1>2 DEF PartsInit
  <2>2. NP!Init
    BY <2>1, InitSame
  <2>3. NP!NeighborAssumption
    BY InstancesAssumption DEF N!NeighborAssumption, NP!NeighborAssumption
  <2> QED BY <2>2, <2>3, NP!ServedInitially
<1> QED BY <1>1, <1>2 DEF PartInv

LEMMA PartSteps == PartInv /\ [PartsNext]_partsVars => PartInv'
<1> SUFFICES ASSUME PartInv, [PartsNext]_partsVars PROVE PartInv'
  OBVIOUS
<1>1. ASSUME part' = "linear" PROVE (CSafeInv /\ HeldInv)'
  <2>1. part = "linear"
    BY <1>1 DEF PartsNext, partsVars
  <2>2. Assumptions
    BY InstancesAssumption DEF Assumptions
  <2>3. [L!Next]_L!vars
    BY <2>1 DEF PartsNext, partsVars, linearVars, L!vars, L!settings, L!modelVars, L!lockVars
  <2> QED BY <2>1, <2>2, <2>3, SafeInductive, HeldInductive DEF PartInv
<1>2. ASSUME part' = "tables" PROVE NP!ServedInv'
  <2>1. part = "tables"
    BY <1>2 DEF PartsNext, partsVars
  <2>2. N!Next \/ UNCHANGED tablesVars
    BY <2>1 DEF PartsNext, partsVars
  <2>3. UNCHANGED tablesVars => UNCHANGED NP!neighborVars
    BY DEF tablesVars, NP!neighborVars
  <2>4. [NP!Next]_(NP!neighborVars)
    BY <2>2, <2>3, NextSame
  <2>5. NP!NeighborAssumption
    BY InstancesAssumption DEF N!NeighborAssumption, NP!NeighborAssumption
  <2> QED BY <2>1, <2>4, <2>5, NP!ServedSteps DEF PartInv
<1> QED BY <1>1, <1>2 DEF PartInv

\* LabelsAreSafe: types, NothingInherited and HeldLockIsEnough together, in every
\* behaviour in which linear classifiers run.
THEOREM LabelsStaySafe == PartsSpec => []LabelsAreSafe
<1>1. CSafeInv => L!TypeOK /\ L!NothingInherited
  BY CSameCount DEF CSafeInv, ThreadsInv, MemoryInv, IdsInv, Ids, L!TypeOK, L!NothingInherited, L!IsInjective
<1>2. HeldInv => L!HeldLockIsEnough
  BY DEF HeldInv, L!HeldLockIsEnough
<1>3. PartInv => LabelsAreSafe
  BY <1>1, <1>2 DEF PartInv, LabelsAreSafe
<1> QED BY <1>3, PartInitially, PartSteps, PTL DEF PartsSpec

\* NeighborsAreServed: whatever the driver, the recommender or the regression keeps
\* beside a table fits it, in every behaviour in which one of them runs.
THEOREM NeighborsStayServed == PartsSpec => []NeighborsAreServed
<1>1. PartInv => NeighborsAreServed
  BY NP!ServedEnough, PromiseSame DEF PartInv, NeighborsAreServed
<1> QED BY <1>1, PartInitially, PartSteps, PTL DEF PartsSpec
==============================================================================
