-------------------------- MODULE LinearMix_proofs --------------------------
(***************************************************************************)
(* Theorems of the linear MIX, for any number of nodes, features, labels,  *)
(* updates and versions: its types, the labels of its weights, that no     *)
(* update is mixed in twice, that a put loses nothing its node gave, and   *)
(* that nodes of one version agree.                                        *)
(***************************************************************************)
EXTENDS LinearMix, SumTheorems

\* Every difference the mixer holds stands for at least one node, and no
\* unlearner has more than max_size labels in memory.
TypeInv ==
    /\ TypeOK
    /\ mixed = NoDiff \/ mixed.count >= 1
    /\ \A n \in Node : Cardinality(memory[n]) <= max_size

---------------------------------------------------------------------------
(* Weights and tables.                                                     *)

LEMMA ZeroTyped == Zero \in Weight /\ EmptyTable \in [Key -> Weight]
  BY DEF Zero, Weight, EmptyTable

LEMMA OnceTyped == ASSUME NEW u, NEW s \in Int PROVE Once(u, s) \in Weight
  BY UnitAssumption DEF Once, Weight

LEMMA PlusTyped ==
    ASSUME NEW a \in Weight, NEW b \in Weight
    PROVE  Plus(a, b) \in Weight
  BY DEF Plus, Weight

LEMMA AtTyped ==
    ASSUME NEW w, IsPartialTable(w), NEW k PROVE At(w, k) \in Weight
  BY ZeroTyped DEF IsPartialTable, At

LEMMA MixValTyped ==
    ASSUME NEW a \in Weight, NEW b \in Weight, NEW c \in Nat, NEW d \in Nat, c + d >= 1
    PROVE  MixVal(c, a, d, b) \in Weight
<1>1. \A u \in Update : a[u] \in Int /\ b[u] \in Int
  BY DEF Weight
<1>2. \A x, y \in Int : c * x + d * y \in Int
  OBVIOUS
<1>3. \A x \in Int : x \div (c + d) \in Int
  OBVIOUS
<1>4. \A u \in Update : (c * a[u] + d * b[u]) \div (c + d) \in Int
  BY <1>1, <1>2, <1>3, Zenon
<1>5. QED
  BY <1>4 DEF MixVal, Weight

LEMMA PartialTable ==
    ASSUME NEW S \in SUBSET Key, NEW w, w = [k \in S |-> w[k]],
           \A k \in S : w[k] \in Weight
    PROVE  IsPartialTable(w) /\ DOMAIN w = S
  BY DEF IsPartialTable

LEMMA NoWeightsTyped == IsPartialTable(NoWeights) /\ DOMAIN NoWeights = {}
  BY DEF IsPartialTable, NoWeights

LEMMA NoDiffTyped == IsDiffv(NoDiff) /\ NoDiff.count = 0
  BY NoWeightsTyped DEF IsDiffv, NoDiff, Diffv

LEMMA IncreaseTyped ==
    ASSUME NEW t \in [Key -> Weight], NEW w, IsPartialTable(w)
    PROVE  Increase(t, w) \in [Key -> Weight]
  BY AtTyped, PlusTyped DEF Increase

LEMMA MergeTyped ==
    ASSUME NEW l, NEW r, IsDiffv(l), IsDiffv(r), l.count + r.count >= 1, NEW c \in Nat
    PROVE  IsDiffv(Merge(l, r, c)) /\ Merge(l, r, c).count = c
<1> DEFINE S == DOMAIN l.weights \cup DOMAIN r.weights
           w == [k \in S |-> MixVal(l.count, At(l.weights, k), r.count, At(r.weights, k))]
<1>1. /\ IsPartialTable(l.weights) /\ IsPartialTable(r.weights)
      /\ l.count \in Nat /\ r.count \in Nat /\ r.expect \in Int
  BY DEF IsDiffv
<1>2. S \in SUBSET Key
  BY <1>1 DEF IsPartialTable
<1>3. \A k \in S : w[k] \in Weight
  BY <1>1, AtTyped, MixValTyped
<1>4. IsPartialTable(w)
  BY <1>2, <1>3, PartialTable
<1>5. Merge(l, r, c) = Diffv(r.expect, c, w)
  BY DEF Merge
<1>6. QED
  BY <1>1, <1>4, <1>5 DEF IsDiffv, Diffv

LEMMA MixTyped ==
    ASSUME NEW l, NEW r, IsDiffv(l), IsDiffv(r), l.count >= 1, r.count >= 1
    PROVE  IsDiffv(Mix(l, r)) /\ Mix(l, r).count >= 1
<1>1. l.count \in Nat /\ r.count \in Nat
  BY DEF IsDiffv
<1>2. l.count + r.count \in Nat /\ l.count + r.count >= 1
  BY <1>1
<1>3. CASE l.expect = r.expect
  BY <1>2, <1>3, MergeTyped DEF Mix
<1>4. CASE l.expect # r.expect
  BY <1>4 DEF Mix
<1>5. QED
  BY <1>3, <1>4

\* An update adds weights to registered keys.
LEMMA DeltaTyped ==
    ASSUME NEW u \in Update, NEW f \in Feature, NEW inc \in Label,
           NEW dec \in Label \cup {NoLabel}
    PROVE  IsPartialTable(Delta(u, f, inc, dec))
<1> DEFINE d == Delta(u, f, inc, dec)
           S == {<<f, inc>>} \cup (IF dec = NoLabel THEN {} ELSE {<<f, dec>>})
<1>1. S \in SUBSET Key
  BY DEF Key
<1>2. d = [k \in S |-> Once(u, IF k[2] = inc THEN 1 ELSE -1)]
  BY DEF Delta
<1>3. \A k \in S : d[k] \in Weight
  BY <1>2, OnceTyped
<1>4. QED
  BY <1>1, <1>2, <1>3, PartialTable

LEMMA LabelsTyped ==
    ASSUME NEW w, IsPartialTable(w)
    PROVE  LabelsOf(w) \subseteq Label
  BY DEF IsPartialTable, LabelsOf, Key

LEMMA KeysFinite == IsFiniteSet(Key)
  BY LabelAssumption, FS_Product DEF Key

---------------------------------------------------------------------------
(* The unlearner.                                                          *)

\* An outcome of touches that began with mem in memory: no more labels than
\* there is room for, and whatever is no longer there was given up.
After(mem, r) ==
    /\ r = Outcome(r.memory, r.gone)
    /\ r.memory \subseteq Label /\ r.gone \subseteq Label
    /\ Cardinality(r.memory) <= max_size
    /\ mem \subseteq r.memory \cup r.gone

LEMMA TouchAfter ==
    ASSUME NEW mem \in SUBSET Label, NEW r, After(mem, r), max_size \in Nat,
           NEW l \in Label, NEW s \in Touch(r, l)
    PROVE  After(mem, s)
<1>1. IsFiniteSet(r.memory) /\ Cardinality(r.memory) \in Nat
  BY LabelAssumption, FS_Subset, FS_CardinalityType DEF After
<1>2. CASE s = r
  BY <1>2
<1>3. CASE /\ l \notin r.memory /\ Cardinality(r.memory) < max_size
           /\ s = Outcome(r.memory \cup {l}, r.gone)
  <2>1. Cardinality(r.memory \cup {l}) = Cardinality(r.memory) + 1
    BY <1>1, <1>3, FS_AddElement
  <2>2. s.memory = r.memory \cup {l} /\ s.gone = r.gone
    BY <1>3 DEF Outcome
  <2>3. Cardinality(s.memory) <= max_size
    <3>1. PICK c \in Nat : c = Cardinality(r.memory)
      BY <1>1
    <3>2. c + 1 <= max_size
      BY <1>3, <3>1
    <3>3. QED
      BY <2>1, <2>2, <3>1, <3>2
  <2>4. QED
    BY <1>3, <2>2, <2>3 DEF After
<1>4. ASSUME NEW v \in r.memory, l \notin r.memory,
             s = Outcome((r.memory \ {v}) \cup {l}, r.gone \cup {v})
      PROVE  After(mem, s)
  <2>1. IsFiniteSet(r.memory \ {v}) /\ Cardinality(r.memory \ {v}) = Cardinality(r.memory) - 1
    BY <1>1, FS_RemoveElement
  <2>2. Cardinality((r.memory \ {v}) \cup {l}) = Cardinality(r.memory \ {v}) + 1
    BY <1>4, <2>1, FS_AddElement
  <2>3. s.memory = (r.memory \ {v}) \cup {l} /\ s.gone = r.gone \cup {v}
    BY <1>4 DEF Outcome
  <2>4. Cardinality(s.memory) <= max_size
    BY <1>1, <2>1, <2>2, <2>3 DEF After
  <2>5. QED
    BY <1>4, <2>3, <2>4 DEF After
<1>5. QED
  BY <1>2, <1>3, <1>4 DEF Touch

\* One more key is touched after the others.
Extend(mem, g, A) ==
    IF A = {} THEN {Outcome(mem, {})}
    ELSE UNION {UNION {Touch(r, k[2]) : r \in g[A \ {k}]} : k \in A}
Extends(mem, g, A) == g = [B \in SUBSET A |-> Extend(mem, g, B)]

LEMMA ExtendSame ==
    ASSUME NEW mem, NEW g, NEW h, NEW A, \A k \in A : g[A \ {k}] = h[A \ {k}]
    PROVE  Extend(mem, g, A) = Extend(mem, h, A)
<1>1. {UNION {Touch(r, k[2]) : r \in g[A \ {k}]} : k \in A} =
          {UNION {Touch(r, k[2]) : r \in h[A \ {k}]} : k \in A}
  <2>1. \A k \in A : {Touch(r, k[2]) : r \in g[A \ {k}]} = {Touch(r, k[2]) : r \in h[A \ {k}]}
    OBVIOUS
  <2>2. \A k \in A : UNION {Touch(r, k[2]) : r \in g[A \ {k}]} =
                         UNION {Touch(r, k[2]) : r \in h[A \ {k}]}
    BY <2>1
  <2>3. QED
    BY <2>2
<1>2. QED
  BY <1>1 DEF Extend

LEMMA ExtendsAt ==
    ASSUME NEW mem, NEW g, NEW A, Extends(mem, g, A), NEW B \in SUBSET A
    PROVE  g[B] = Extend(mem, g, B)
  BY DEF Extends

\* However far it goes, the recursion says the same of a set of keys.
LEMMA ExtendsUnique ==
    ASSUME NEW mem, NEW K, IsFiniteSet(K), NEW A \in SUBSET K, NEW B \in SUBSET K,
           NEW g, Extends(mem, g, A), NEW h, Extends(mem, h, B),
           NEW X \in SUBSET (A \cap B)
    PROVE  g[X] = h[X]
<1> DEFINE Bad == {Y \in SUBSET (A \cap B) : g[Y] # h[Y]}
<1> SUFFICES ASSUME Bad # {} PROVE FALSE
  OBVIOUS
<1>1. PICK Y \in Bad : \A Z \in Bad : Z \subseteq Y => Z = Y
  <2>1. Bad \in SUBSET (SUBSET K)
    OBVIOUS
  <2> HIDE DEF Bad
  <2>2. QED
    BY <2>1, MinimalSubset
<1>2. Y \in SUBSET A /\ Y \in SUBSET B /\ g[Y] # h[Y]
  OBVIOUS
<1>3. \A k \in Y : g[Y \ {k}] = h[Y \ {k}]
  BY <1>1
<1>4. Extend(mem, g, Y) = Extend(mem, h, Y)
  BY <1>3, ExtendSame
<1>5. QED
  BY <1>2, <1>4, ExtendsAt

LEMMA ExtendsExists ==
    ASSUME NEW mem, NEW K, IsFiniteSet(K)
    PROVE  \E g : Extends(mem, g, K)
<1> DEFINE Bad == {A \in SUBSET K : ~ \E g : Extends(mem, g, A)}
<1> SUFFICES ASSUME Bad # {} PROVE FALSE
  OBVIOUS
<1>1. PICK A \in Bad : \A Z \in Bad : Z \subseteq A => Z = A
  <2>1. Bad \in SUBSET (SUBSET K)
    OBVIOUS
  <2> HIDE DEF Bad
  <2>2. QED
    BY <2>1, MinimalSubset
<1> DEFINE G(B) == CHOOSE g : Extends(mem, g, B)
           h == [B \in SUBSET A |->
                    IF B = A THEN Extend(mem, [C \in SUBSET A |-> G(C)[C]], A) ELSE G(B)[B]]
<1>2. A \in SUBSET K
  OBVIOUS
<1>3. ASSUME NEW B \in SUBSET A, B # A PROVE Extends(mem, G(B), B)
  <2>1. B \in SUBSET K /\ B \notin Bad
    BY <1>1, <1>2, <1>3
  <2>2. \E g : Extends(mem, g, B)
    BY <2>1
  <2>3. QED
    BY <2>2
<1>4. ASSUME NEW B \in SUBSET A PROVE h[B] = Extend(mem, h, B)
  <2>1. CASE B = A
    <3>1. PICK e : e = [C \in SUBSET A |-> G(C)[C]]
      OBVIOUS
    <3>2. h[B] = Extend(mem, e, A)
      BY <2>1, <3>1
    <3>3. \A k \in A : e[A \ {k}] = h[A \ {k}]
      BY <3>1
    <3> HIDE DEF h, G
    <3>4. Extend(mem, e, A) = Extend(mem, h, A)
      BY <3>3, ExtendSame
    <3>5. QED
      BY <2>1, <3>2, <3>4
  <2>2. CASE B # A
    <3>1. ASSUME NEW k \in B PROVE G(B)[B \ {k}] = h[B \ {k}]
      <4>1. B \ {k} \in SUBSET A /\ B \ {k} # A /\ B \ {k} \in SUBSET B
        OBVIOUS
      <4>2. Extends(mem, G(B), B) /\ Extends(mem, G(B \ {k}), B \ {k})
        BY <1>3, <2>2, <4>1
      <4>3. h[B \ {k}] = G(B \ {k})[B \ {k}]
        BY <4>1
      <4> HIDE DEF h, G
      <4>4. PICK C : C = B \ {k}
        OBVIOUS
      <4>5. B \in SUBSET K /\ C \in SUBSET K /\ C \in SUBSET (B \cap C)
        BY <1>2, <4>4
      <4>6. Extends(mem, G(C), C)
        BY <4>2, <4>4
      <4>7. G(B)[C] = G(C)[C]
        BY <4>2, <4>5, <4>6, ExtendsUnique
      <4>8. QED
        BY <4>3, <4>4, <4>7
    <3>2. h[B] = G(B)[B] /\ Extends(mem, G(B), B) /\ B \in SUBSET B
      BY <1>3, <2>2
    <3> HIDE DEF h, G
    <3>3. G(B)[B] = Extend(mem, G(B), B)
      BY <3>2, ExtendsAt
    <3>4. Extend(mem, G(B), B) = Extend(mem, h, B)
      BY <3>1, ExtendSame
    <3>5. QED
      BY <3>2, <3>3, <3>4
  <2>3. QED
    BY <2>1, <2>2
<1>5. h = [B \in SUBSET A |-> h[B]]
  OBVIOUS
<1> HIDE DEF h
<1>6. Extends(mem, h, A)
  BY <1>4, <1>5 DEF Extends
<1>7. QED
  BY <1>1, <1>6

\* Touching the labels of a difference, in whatever order.
LEMMA TouchesAfter ==
    ASSUME NEW mem \in SUBSET Label, Cardinality(mem) <= max_size, max_size \in Nat,
           NEW keys \in SUBSET Key, NEW r \in Touches(mem, keys)
    PROVE  After(mem, r)
<1> DEFINE after == CHOOSE g : Extends(mem, g, keys)
<1>1. IsFiniteSet(keys)
  BY KeysFinite, FS_Subset
<1>2. Extends(mem, after, keys)
  BY <1>1, ExtendsExists
<1>3. Touches(mem, keys) = after[keys]
  BY DEF Touches, Extends, Extend
<1> HIDE DEF after
<1> DEFINE Bad == {A \in SUBSET keys : ~ \A s \in after[A] : After(mem, s)}
<1>4. Bad = {}
  <2> SUFFICES ASSUME Bad # {} PROVE FALSE
    OBVIOUS
  <2>1. PICK A \in Bad : \A Z \in Bad : Z \subseteq A => Z = A
    <3>1. Bad \in SUBSET (SUBSET keys)
      OBVIOUS
    <3> HIDE DEF Bad
    <3>2. QED
      BY <1>1, <3>1, MinimalSubset
  <2>2. PICK s \in after[A] : ~After(mem, s)
    OBVIOUS
  <2>3. s \in Extend(mem, after, A)
    BY <1>2, <2>2, ExtendsAt
  <2>4. CASE A = {}
    <3>1. s = Outcome(mem, {})
      BY <2>3, <2>4 DEF Extend
    <3>2. QED
      BY <2>2, <3>1 DEF After, Outcome
  <2>5. CASE A # {}
    <3>0. PICK k \in A : s \in UNION {Touch(q, k[2]) : q \in after[A \ {k}]}
      BY <2>3, <2>5 DEF Extend
    <3>1. PICK q \in after[A \ {k}] : s \in Touch(q, k[2])
      BY <3>0
    <3>2. After(mem, q)
      BY <2>1, <3>1
    <3>3. k[2] \in Label
      BY <3>1 DEF Key
    <3>4. QED
      BY <2>2, <3>1, <3>2, <3>3, TouchAfter
  <2>6. QED
    BY <2>4, <2>5
<1>5. QED
  BY <1>3, <1>4

\* One touch from scratch.
LEMMA TouchOnce ==
    ASSUME TypeInv, NEW n \in Node, NEW l \in Label
    PROVE  /\ After(memory[n], Outcome(memory[n], {}))
           /\ \A r \in Touch(Outcome(memory[n], {}), l) : After(memory[n], r)
<1>1. memory[n] \in SUBSET Label /\ Cardinality(memory[n]) <= max_size /\ max_size \in Nat
  BY DEF TypeInv, TypeOK
<1>2. After(memory[n], Outcome(memory[n], {}))
  BY <1>1 DEF After, Outcome
<1>3. QED
  BY <1>1, <1>2, TouchAfter

---------------------------------------------------------------------------
(* Labels given up.                                                        *)

LEMMA UnlearnedTyped ==
    ASSUME NEW t \in [Key -> Weight], NEW ls
    PROVE  Unlearned(t, ls) \in [Key -> Weight]
  BY ZeroTyped DEF Unlearned

LEMMA WithoutTyped ==
    ASSUME NEW w, IsPartialTable(w), NEW ls
    PROVE  /\ IsPartialTable(WithoutLabels(w, ls))
           /\ DOMAIN WithoutLabels(w, ls) = {k \in DOMAIN w : k[2] \notin ls}
<1> DEFINE S == {k \in DOMAIN w : k[2] \notin ls}
<1>1. S \in SUBSET Key /\ WithoutLabels(w, ls) = [k \in S |-> w[k]]
  BY DEF WithoutLabels, IsPartialTable, Restrict
<1>2. \A k \in S : w[k] \in Weight
  BY DEF IsPartialTable
<1> DEFINE v == [k \in S |-> w[k]]
<1>3. v = [k \in S |-> v[k]] /\ \A k \in S : v[k] \in Weight
  BY <1>2
<1>4. IsPartialTable(v) /\ DOMAIN v = S
  BY <1>1, <1>3, PartialTable
<1>5. QED
  BY <1>1, <1>4

LEMMA SummedTyped ==
    ASSUME NEW d, NEW e, IsPartialTable(d), IsPartialTable(e)
    PROVE  IsPartialTable(Summed(d, e)) /\ DOMAIN Summed(d, e) = DOMAIN d \cup DOMAIN e
<1> DEFINE S == DOMAIN d \cup DOMAIN e
           w == [k \in S |-> Plus(At(d, k), At(e, k))]
<1>1. S \in SUBSET Key
  BY DEF IsPartialTable
<1>2. \A k \in S : w[k] \in Weight
  BY AtTyped, PlusTyped
<1>3. IsPartialTable(w) /\ DOMAIN w = S
  BY <1>1, <1>2, PartialTable
<1>4. QED
  BY <1>3 DEF Summed

\* What a put takes of the fold.
LEMMA KeptTyped ==
    ASSUME TypeOK, NEW mem
    PROVE  /\ IsPartialTable(KeepKnown(mem).weights)
           /\ KeepKnown(mem).expect = mixed.expect
           /\ DOMAIN KeepKnown(mem).weights =
                  {k \in DOMAIN mixed.weights : HasUnlearner => k[2] \in mem}
           /\ \A k \in DOMAIN KeepKnown(mem).weights :
                  KeepKnown(mem).weights[k] = mixed.weights[k]
<1>1. IsPartialTable(mixed.weights) /\ DOMAIN mixed.weights \subseteq Key
  BY DEF TypeOK, IsDiffv, IsPartialTable
<1>2. mixed = Diffv(mixed.expect, mixed.count, mixed.weights)
  BY DEF TypeOK, IsDiffv
<1>3. CASE ~HasUnlearner
  BY <1>1, <1>3 DEF KeepKnown
<1>4. CASE HasUnlearner
  <2>1. PICK w : w = WithoutLabels(mixed.weights, Label \ mem)
    OBVIOUS
  <2>2. KeepKnown(mem) = [mixed EXCEPT !.weights = w]
    BY <1>4, <2>1 DEF KeepKnown
  <2>3. KeepKnown(mem).weights = w /\ KeepKnown(mem).expect = mixed.expect
    BY <1>2, <2>2 DEF Diffv
  <2>4. /\ IsPartialTable(w)
        /\ DOMAIN w = {k \in DOMAIN mixed.weights : k[2] \notin Label \ mem}
    BY <1>1, <2>1, WithoutTyped
  <2>5. \A k \in DOMAIN mixed.weights : k[2] \in Label
    BY <1>1 DEF Key
  <2>6. \A k \in DOMAIN w : w[k] = mixed.weights[k]
    BY <2>1 DEF WithoutLabels, Restrict
  <2>7. QED
    BY <1>4, <2>3, <2>4, <2>5, <2>6
<1>5. QED
  BY <1>3, <1>4

---------------------------------------------------------------------------
(* Types.                                                                  *)

LEMMA InitTyped == Init => TypeInv
<1> SUFFICES ASSUME Init PROVE TypeInv
  OBVIOUS
<1>1. mixed = NoDiff /\ IsDiffv(NoDiff)
  BY NoDiffTyped DEF Init
<1>2. tbl \in [Node -> [Key -> Weight]]
  BY ZeroTyped DEF Init
<1>3. DOMAIN diff = Node /\ \A n \in Node : IsPartialTable(diff[n])
  BY NoWeightsTyped DEF Init
<1>4. DOMAIN gathered = Node /\ \A n \in Node : IsDiffv(gathered[n])
  BY NoDiffTyped DEF Init
<1>5. max_size \in Nat /\ \A n \in Node : Cardinality(memory[n]) <= max_size
  <2>1. max_size \in Nat /\ \A n \in Node : memory[n] = {}
    BY SizesAssumption DEF Init
  <2>2. Cardinality({}) = 0
    BY FS_EmptySet
  <2>3. QED
    BY <2>1, <2>2
<1>6. QED
  BY <1>1, <1>2, <1>3, <1>4, <1>5 DEF Init, TypeInv, TypeOK

\* Labels are given up and weights replaced at one node.
LEMMA NodeTyped ==
    ASSUME TypeInv, NEW n \in Node, NEW t \in [Key -> Weight], NEW d, IsPartialTable(d),
           NEW l \in SUBSET Label, NEW r, After(memory[n], r), NEW f \in SUBSET Label,
           tbl' = [tbl EXCEPT ![n] = t], diff' = [diff EXCEPT ![n] = d],
           labels' = [labels EXCEPT ![n] = l], memory' = [memory EXCEPT ![n] = r.memory],
           lost' = [lost EXCEPT ![n] = @ \cup f]
    PROVE  /\ tbl' \in [Node -> [Key -> Weight]]
           /\ DOMAIN diff' = Node /\ \A m \in Node : IsPartialTable(diff'[m])
           /\ labels' \in [Node -> SUBSET Label]
           /\ memory' \in [Node -> SUBSET Label]
           /\ lost' \in [Node -> SUBSET Label]
           /\ \A m \in Node : Cardinality(memory'[m]) <= max_size
<1>1. tbl' \in [Node -> [Key -> Weight]]
  BY DEF TypeInv, TypeOK
<1>2. DOMAIN diff' = Node /\ \A m \in Node : IsPartialTable(diff'[m])
  BY DEF TypeInv, TypeOK
<1>3. labels' \in [Node -> SUBSET Label] /\ lost' \in [Node -> SUBSET Label]
  BY DEF TypeInv, TypeOK
<1>4. r.memory \subseteq Label /\ Cardinality(r.memory) <= max_size
  BY DEF After
<1>5. memory' \in [Node -> SUBSET Label]
  BY <1>4 DEF TypeInv, TypeOK
<1>6. \A m \in Node : memory'[m] = memory[m] \/ memory'[m] = r.memory
  BY DEF TypeInv, TypeOK
<1>7. \A m \in Node : Cardinality(memory'[m]) <= max_size
  BY <1>4, <1>6 DEF TypeInv
<1>8. QED
  BY <1>1, <1>2, <1>3, <1>5, <1>7

LEMMA TrainTyped ==
    ASSUME TypeInv, NEW n \in Node, NEW u \in Update, NEW f \in Feature,
           NEW inc \in Label, NEW dec \in Label \cup {NoLabel},
           Train(n, u, f, inc, dec)
    PROVE  TypeInv'
<1> DEFINE delta == Delta(u, f, inc, dec)
<1>1. PICK r \in Touch(Outcome(memory[n], {}), inc) :
         /\ memory' = [memory EXCEPT ![n] = r.memory]
         /\ lost' = [lost EXCEPT ![n] = @ \cup r.gone]
         /\ tbl' = [tbl EXCEPT ![n] = Unlearned(@, r.gone)]
         /\ diff' = [diff EXCEPT ![n] = WithoutLabels(Summed(@, delta), r.gone)]
         /\ labels' = [labels EXCEPT ![n] = (@ \cup LabelsOf(delta)) \ r.gone]
  BY DEF Train
<1>2. /\ used' = used \cup {u}
      /\ UNCHANGED <<version, settings, registered, deleted, mixerVars>>
  BY DEF Train
<1>3. After(memory[n], r)
  BY TouchOnce
<1>4. r.gone \subseteq Label
  BY <1>3 DEF After
<1>5. IsPartialTable(delta) /\ IsPartialTable(diff[n]) /\ tbl[n] \in [Key -> Weight]
  BY DeltaTyped DEF TypeInv, TypeOK
<1>6. LabelsOf(delta) \subseteq Label /\ labels[n] \subseteq Label
  BY <1>5, LabelsTyped DEF TypeInv, TypeOK
<1> HIDE DEF delta
<1>7. PICK t : t = Unlearned(tbl[n], r.gone)
  OBVIOUS
<1>8. PICK d : d = WithoutLabels(Summed(diff[n], delta), r.gone)
  OBVIOUS
<1>9. PICK l : l = (labels[n] \cup LabelsOf(delta)) \ r.gone
  OBVIOUS
<1>10. t \in [Key -> Weight] /\ IsPartialTable(d) /\ l \in SUBSET Label
  BY <1>5, <1>6, <1>7, <1>8, <1>9, UnlearnedTyped, SummedTyped, WithoutTyped
<1>11. /\ tbl' = [tbl EXCEPT ![n] = t] /\ diff' = [diff EXCEPT ![n] = d]
       /\ labels' = [labels EXCEPT ![n] = l]
  BY <1>1, <1>7, <1>8, <1>9
<1>12. /\ tbl' \in [Node -> [Key -> Weight]]
       /\ DOMAIN diff' = Node /\ \A m \in Node : IsPartialTable(diff'[m])
       /\ labels' \in [Node -> SUBSET Label]
       /\ memory' \in [Node -> SUBSET Label]
       /\ lost' \in [Node -> SUBSET Label]
       /\ \A m \in Node : Cardinality(memory'[m]) <= max_size
  <2>1. PICK g \in SUBSET Label : g = r.gone
    BY <1>4
  <2>2. lost' = [lost EXCEPT ![n] = @ \cup g] /\ memory' = [memory EXCEPT ![n] = r.memory]
    BY <1>1, <2>1
  <2>3. QED
    BY <1>3, <1>10, <1>11, <2>2, NodeTyped
<1>13. QED
  BY <1>2, <1>12 DEF TypeInv, TypeOK, mixerVars, settings

\* A node's share of a round.
LEMMA ShareTyped ==
    ASSUME TypeOK, NEW n \in Node
    PROVE  IsDiffv(GetDiff(n)) /\ GetDiff(n).count = 1
  BY DEF TypeOK, IsDiffv, GetDiff, Diffv

LEMMA GatherTyped ==
    ASSUME TypeInv, NEW n \in Node, Gather(n) PROVE TypeInv'
<1>1. IsDiffv(GetDiff(n)) /\ GetDiff(n).count >= 1
  BY ShareTyped DEF TypeInv
<1>2. IsDiffv(mixed')
  BY <1>1, MixTyped DEF Gather, TypeInv, TypeOK
<1>3. mixed'.count >= 1
  BY <1>1, MixTyped DEF Gather, TypeInv, TypeOK
<1>4. DOMAIN gathered' = Node /\ \A m \in Node : IsDiffv(gathered'[m])
  BY <1>1 DEF Gather, TypeInv, TypeOK
<1>5. QED
  BY <1>2, <1>3, <1>4 DEF Gather, TypeInv, TypeOK, modelVars, settings

\* What a put does to its node: it takes what it keeps of the fold, or only
\* gives labels up.
LEMMA PutDoes ==
    ASSUME TypeInv, NEW n \in Node, Put(n)
    PROVE  \E r \in Touches(memory[n], DOMAIN mixed.weights) :
              /\ After(memory[n], r)
              /\ memory' = [memory EXCEPT ![n] = r.memory]
              /\ lost' = [lost EXCEPT ![n] = @ \cup r.gone \cup Dropped(r.memory)]
              /\ SetAverage(n, KeepKnown(r.memory), r.gone)
<1>1. PICK r \in Touches(memory[n], DOMAIN mixed.weights) :
         /\ memory' = [memory EXCEPT ![n] = r.memory]
         /\ lost' = [lost EXCEPT ![n] = @ \cup r.gone \cup Dropped(r.memory)]
         /\ SetAverage(n, KeepKnown(r.memory), r.gone)
  BY DEF Put
<1>2. /\ memory[n] \in SUBSET Label /\ Cardinality(memory[n]) <= max_size /\ max_size \in Nat
      /\ DOMAIN mixed.weights \in SUBSET Key
  BY DEF TypeInv, TypeOK, IsDiffv, IsPartialTable
<1>3. After(memory[n], r)
  BY <1>2, TouchesAfter
<1>4. QED
  BY <1>1, <1>3

LEMMA PutTyped ==
    ASSUME TypeInv, NEW n \in Node, Put(n) PROVE TypeInv'
<1>1. PICK r \in Touches(memory[n], DOMAIN mixed.weights) :
         /\ After(memory[n], r)
         /\ memory' = [memory EXCEPT ![n] = r.memory]
         /\ lost' = [lost EXCEPT ![n] = @ \cup r.gone \cup Dropped(r.memory)]
         /\ SetAverage(n, KeepKnown(r.memory), r.gone)
  BY PutDoes
<1>2. /\ todo' = todo \ {n}
      /\ UNCHANGED <<settings, used, registered, deleted, phase, mixed, gathered>>
  BY DEF Put
<1>3. r.gone \in SUBSET Label
  BY <1>1 DEF After
<1>4. /\ tbl[n] \in [Key -> Weight] /\ IsPartialTable(diff[n]) /\ labels[n] \in SUBSET Label
      /\ IsPartialTable(mixed.weights) /\ TypeOK
  BY DEF TypeInv, TypeOK, IsDiffv
<1>5. PICK w : w = KeepKnown(r.memory).weights
  OBVIOUS
<1>6. IsPartialTable(w) /\ LabelsOf(w) \subseteq Label
  BY <1>4, <1>5, KeptTyped, LabelsTyped
<1>7. Dropped(r.memory) \subseteq Label
  BY <1>4, LabelsTyped DEF Dropped
<1>8. PICK f : f = r.gone \cup Dropped(r.memory)
  OBVIOUS
<1>9. f \in SUBSET Label /\ lost' = [lost EXCEPT ![n] = @ \cup f]
  <2>1. lost[n] \cup r.gone \cup Dropped(r.memory) = lost[n] \cup f
    BY <1>8
  <2>2. QED
    BY <1>1, <1>3, <1>7, <1>8, <2>1
<1>10. PICK u : u = Unlearned(tbl[n], r.gone)
  OBVIOUS
<1>11. u \in [Key -> Weight]
  BY <1>4, <1>10, UnlearnedTyped
<1>12. CASE KeepKnown(r.memory).expect = version[n]
  <2>1. TakeAverage(n, KeepKnown(r.memory), r.gone, NoWeights)
    BY <1>1, <1>12 DEF SetAverage
  <2>2. PICK t : t = Increase(u, w)
    OBVIOUS
  <2>3. PICK l : l = (labels[n] \ r.gone) \cup LabelsOf(w)
    OBVIOUS
  <2>4. t \in [Key -> Weight] /\ l \in SUBSET Label /\ IsPartialTable(NoWeights)
    BY <1>4, <1>6, <1>11, <2>2, <2>3, IncreaseTyped, NoWeightsTyped
  <2>5. /\ tbl' = [tbl EXCEPT ![n] = t] /\ diff' = [diff EXCEPT ![n] = NoWeights]
        /\ labels' = [labels EXCEPT ![n] = l] /\ version' = [version EXCEPT ![n] = @ + 1]
    BY <1>5, <1>10, <2>1, <2>2, <2>3 DEF TakeAverage
  <2>6. /\ tbl' \in [Node -> [Key -> Weight]]
        /\ DOMAIN diff' = Node /\ \A m \in Node : IsPartialTable(diff'[m])
        /\ labels' \in [Node -> SUBSET Label]
        /\ memory' \in [Node -> SUBSET Label]
        /\ lost' \in [Node -> SUBSET Label]
        /\ \A m \in Node : Cardinality(memory'[m]) <= max_size
    BY <1>1, <1>9, <2>4, <2>5, NodeTyped
  <2>7. version' \in [Node -> Nat]
    BY <1>4, <2>5 DEF TypeOK
  <2>8. QED
    BY <1>2, <2>6, <2>7 DEF TypeInv, TypeOK, settings
<1>13. CASE KeepKnown(r.memory).expect # version[n]
  <2>1. TakeNothing(n, r.gone)
    BY <1>1, <1>13 DEF SetAverage
  <2>2. PICK d : d = WithoutLabels(diff[n], r.gone)
    OBVIOUS
  <2>3. PICK l : l = labels[n] \ r.gone
    OBVIOUS
  <2>4. IsPartialTable(d) /\ l \in SUBSET Label
    BY <1>4, <2>2, <2>3, WithoutTyped
  <2>5. /\ tbl' = [tbl EXCEPT ![n] = u] /\ diff' = [diff EXCEPT ![n] = d]
        /\ labels' = [labels EXCEPT ![n] = l] /\ UNCHANGED version
    BY <1>10, <2>1, <2>2, <2>3 DEF TakeNothing
  <2>6. /\ tbl' \in [Node -> [Key -> Weight]]
        /\ DOMAIN diff' = Node /\ \A m \in Node : IsPartialTable(diff'[m])
        /\ labels' \in [Node -> SUBSET Label]
        /\ memory' \in [Node -> SUBSET Label]
        /\ lost' \in [Node -> SUBSET Label]
        /\ \A m \in Node : Cardinality(memory'[m]) <= max_size
    BY <1>1, <1>9, <1>11, <2>4, <2>5, NodeTyped
  <2>7. QED
    BY <1>2, <1>4, <2>5, <2>6 DEF TypeInv, TypeOK, settings
<1>14. QED
  BY <1>12, <1>13

\* A node that is emptied, by a restart or by clear.
LEMMA EmptyTyped ==
    ASSUME TypeInv, NEW n \in Node, NEW f \in SUBSET Label,
           tbl' = [tbl EXCEPT ![n] = EmptyTable], diff' = [diff EXCEPT ![n] = NoWeights],
           labels' = [labels EXCEPT ![n] = {}], memory' = [memory EXCEPT ![n] = {}],
           lost' = [lost EXCEPT ![n] = f], version' \in [Node -> Nat],
           UNCHANGED <<settings, used, registered, mixerVars>>, deleted' \in Nat
    PROVE  TypeInv'
<1>1. tbl' \in [Node -> [Key -> Weight]]
  BY ZeroTyped DEF TypeInv, TypeOK
<1>2. DOMAIN diff' = Node /\ \A m \in Node : IsPartialTable(diff'[m])
  BY NoWeightsTyped DEF TypeInv, TypeOK
<1>3. \A m \in Node : memory'[m] = memory[m] \/ memory'[m] = {}
  BY DEF TypeInv, TypeOK
<1>4. Cardinality({}) = 0 /\ max_size \in Nat
  BY FS_EmptySet DEF TypeInv, TypeOK
<1>5. \A m \in Node : Cardinality(memory'[m]) <= max_size
  BY <1>3, <1>4 DEF TypeInv
<1>6. QED
  BY <1>1, <1>2, <1>5 DEF TypeInv, TypeOK, mixerVars, settings

LEMMA RestartTyped ==
    ASSUME TypeInv, NEW n \in Node, Restart(n) PROVE TypeInv'
<1>1. version' \in [Node -> Nat] /\ deleted' \in Nat
  BY DEF Restart, TypeInv, TypeOK
<1>2. PICK f \in SUBSET Label : f = {}
  OBVIOUS
<1>3. lost' = [lost EXCEPT ![n] = f]
  BY <1>2 DEF Restart
<1>4. QED
  BY <1>1, <1>3, EmptyTyped DEF Restart

LEMMA LoadTyped ==
    ASSUME TypeInv, NEW n \in Node, NEW m \in Node, Load(n, m) PROVE TypeInv'
<1>1. \A i \in Node : \E j \in Node : memory'[i] = memory[j] /\ diff'[i] = diff[j]
  BY DEF Load, TypeInv, TypeOK
<1>2. /\ tbl' \in [Node -> [Key -> Weight]] /\ labels' \in [Node -> SUBSET Label]
      /\ version' \in [Node -> Nat] /\ DOMAIN diff' = Node
      /\ memory' \in [Node -> SUBSET Label] /\ lost' \in [Node -> SUBSET Label]
  BY DEF Load, TypeInv, TypeOK
<1>3. UNCHANGED <<settings, used, registered, deleted, mixerVars>>
  BY DEF Load
<1>4. QED
  BY <1>1, <1>2, <1>3 DEF TypeInv, TypeOK, mixerVars, settings

LEMMA MixerTyped ==
    ASSUME TypeInv,
           \/ StartRound \/ StartPut \/ EndRound
           \/ \E n \in Node : LosePut(n)
    PROVE  TypeInv'
<1>1. CASE StartRound
  BY <1>1, NoDiffTyped DEF StartRound, TypeInv, TypeOK, modelVars, settings
<1>2. CASE StartPut
  BY <1>2 DEF StartPut, TypeInv, TypeOK, modelVars, settings
<1>3. CASE EndRound
  BY <1>3, NoDiffTyped DEF EndRound, TypeInv, TypeOK, modelVars, settings
<1>4. CASE \E n \in Node : LosePut(n)
  BY <1>4 DEF LosePut, TypeInv, TypeOK, modelVars, settings
<1>5. QED
  BY <1>1, <1>2, <1>3, <1>4

\* What deleting or registering a label does to its node.
LEMMA DeleteLabelDoes ==
    ASSUME TypeInv, NEW n \in Node, NEW l \in Label, DeleteLabel(n, l)
    PROVE  \E x \in SUBSET {l} :
              /\ After(memory[n], Outcome(memory[n] \ x, {l}))
              /\ memory' = [memory EXCEPT ![n] = memory[n] \ x]
<1>1. PICK x \in SUBSET {l} : memory' = [memory EXCEPT ![n] = memory[n] \ x]
  BY DEF DeleteLabel, Forget
<1>2. /\ memory[n] \in SUBSET Label /\ Cardinality(memory[n]) <= max_size /\ max_size \in Nat
      /\ IsFiniteSet(memory[n])
  BY LabelAssumption, FS_Subset DEF TypeInv, TypeOK
<1>3. Cardinality(memory[n] \ x) <= Cardinality(memory[n])
  BY <1>2, FS_Subset
<1>4. Cardinality(memory[n] \ x) \in Nat /\ Cardinality(memory[n]) \in Nat
  BY <1>2, FS_Subset, FS_CardinalityType
<1>5. Cardinality(memory[n] \ x) <= max_size
  BY <1>2, <1>3, <1>4
<1>6. After(memory[n], Outcome(memory[n] \ x, {l}))
  BY <1>2, <1>5 DEF After, Outcome
<1>7. QED
  BY <1>1, <1>6

LEMMA DeleteLabelTyped ==
    ASSUME TypeInv, NEW n \in Node, NEW l \in Label, DeleteLabel(n, l)
    PROVE  TypeInv'
<1>1. PICK x \in SUBSET {l} :
         /\ After(memory[n], Outcome(memory[n] \ x, {l}))
         /\ memory' = [memory EXCEPT ![n] = memory[n] \ x]
  BY DeleteLabelDoes
<1>2. PICK r : r = Outcome(memory[n] \ x, {l})
  OBVIOUS
<1>3. r.memory = memory[n] \ x /\ After(memory[n], r)
  BY <1>1, <1>2 DEF Outcome
<1>4. PICK t : t = Unlearned(tbl[n], {l})
  OBVIOUS
<1>5. PICK d : d = WithoutLabels(diff[n], {l})
  OBVIOUS
<1>6. t \in [Key -> Weight] /\ IsPartialTable(d) /\ labels[n] \ {l} \in SUBSET Label
  BY <1>4, <1>5, UnlearnedTyped, WithoutTyped DEF TypeInv, TypeOK
<1>7. /\ tbl' = [tbl EXCEPT ![n] = t] /\ diff' = [diff EXCEPT ![n] = d]
      /\ labels' = [labels EXCEPT ![n] = labels[n] \ {l}]
      /\ memory' = [memory EXCEPT ![n] = r.memory]
      /\ lost' = [lost EXCEPT ![n] = @ \cup {l}]
  BY <1>1, <1>3, <1>4, <1>5 DEF DeleteLabel, Forget
<1>8. /\ tbl' \in [Node -> [Key -> Weight]]
      /\ DOMAIN diff' = Node /\ \A m \in Node : IsPartialTable(diff'[m])
      /\ labels' \in [Node -> SUBSET Label]
      /\ memory' \in [Node -> SUBSET Label]
      /\ lost' \in [Node -> SUBSET Label]
      /\ \A m \in Node : Cardinality(memory'[m]) <= max_size
  <2>1. {l} \in SUBSET Label
    OBVIOUS
  <2>2. PICK y \in SUBSET Label : y = labels[n] \ {l}
    BY <1>6
  <2>3. QED
    BY <1>3, <1>6, <1>7, <2>1, <2>2, NodeTyped
<1>9. /\ deleted' = deleted + 1
      /\ UNCHANGED <<version, settings, used, registered, mixerVars>>
  BY DEF DeleteLabel, Forget
<1>10. QED
  BY <1>8, <1>9 DEF TypeInv, TypeOK, mixerVars, settings

LEMMA RegisterLabelDoes ==
    ASSUME TypeInv, NEW n \in Node, NEW l \in Label, RegisterLabel(n, l)
    PROVE  \E r :
              /\ After(memory[n], r)
              /\ memory' = [memory EXCEPT ![n] = r.memory]
              /\ lost' = [lost EXCEPT ![n] = @ \cup r.gone]
              /\ tbl' = [tbl EXCEPT ![n] = Unlearned(@, r.gone)]
              /\ diff' = [diff EXCEPT ![n] = WithoutLabels(@, r.gone)]
              /\ labels' = [labels EXCEPT ![n] = (@ \cup {l}) \ r.gone]
<1> DEFINE before == Outcome(memory[n], {})
<1>1. PICK r \in {before} \cup (IF l \in labels[n] THEN {} ELSE Touch(before, l)) :
         /\ memory' = [memory EXCEPT ![n] = r.memory]
         /\ lost' = [lost EXCEPT ![n] = @ \cup r.gone]
         /\ tbl' = [tbl EXCEPT ![n] = Unlearned(@, r.gone)]
         /\ diff' = [diff EXCEPT ![n] = WithoutLabels(@, r.gone)]
         /\ labels' = [labels EXCEPT ![n] = (@ \cup {l}) \ r.gone]
  BY DEF RegisterLabel
<1>2. r = before \/ r \in Touch(before, l)
  OBVIOUS
<1>3. After(memory[n], r)
  BY <1>2, TouchOnce
<1>4. QED
  BY <1>1, <1>3

LEMMA RegisterLabelTyped ==
    ASSUME TypeInv, NEW n \in Node, NEW l \in Label, RegisterLabel(n, l)
    PROVE  TypeInv'
<1>1. PICK r :
         /\ After(memory[n], r)
         /\ memory' = [memory EXCEPT ![n] = r.memory]
         /\ lost' = [lost EXCEPT ![n] = @ \cup r.gone]
         /\ tbl' = [tbl EXCEPT ![n] = Unlearned(@, r.gone)]
         /\ diff' = [diff EXCEPT ![n] = WithoutLabels(@, r.gone)]
         /\ labels' = [labels EXCEPT ![n] = (@ \cup {l}) \ r.gone]
  BY RegisterLabelDoes
<1>2. PICK t : t = Unlearned(tbl[n], r.gone)
  OBVIOUS
<1>3. PICK d : d = WithoutLabels(diff[n], r.gone)
  OBVIOUS
<1>4. PICK y : y = (labels[n] \cup {l}) \ r.gone
  OBVIOUS
<1>5. t \in [Key -> Weight] /\ IsPartialTable(d) /\ y \in SUBSET Label /\ r.gone \in SUBSET Label
  BY <1>1, <1>2, <1>3, <1>4, UnlearnedTyped, WithoutTyped DEF TypeInv, TypeOK, After
<1>6. /\ tbl' = [tbl EXCEPT ![n] = t] /\ diff' = [diff EXCEPT ![n] = d]
      /\ labels' = [labels EXCEPT ![n] = y]
  BY <1>1, <1>2, <1>3, <1>4
<1>7. /\ tbl' \in [Node -> [Key -> Weight]]
      /\ DOMAIN diff' = Node /\ \A m \in Node : IsPartialTable(diff'[m])
      /\ labels' \in [Node -> SUBSET Label]
      /\ memory' \in [Node -> SUBSET Label]
      /\ lost' \in [Node -> SUBSET Label]
      /\ \A m \in Node : Cardinality(memory'[m]) <= max_size
  <2>1. PICK g \in SUBSET Label : g = r.gone
    BY <1>5
  <2>2. lost' = [lost EXCEPT ![n] = @ \cup g] /\ memory' = [memory EXCEPT ![n] = r.memory]
    BY <1>1, <2>1
  <2>3. After(memory[n], r)
    BY <1>1
  <2>4. QED
    BY <1>5, <1>6, <2>2, <2>3, NodeTyped
<1>8. /\ registered' = registered + 1
      /\ UNCHANGED <<version, settings, used, deleted, mixerVars>>
  BY DEF RegisterLabel
<1>9. QED
  BY <1>7, <1>8 DEF TypeInv, TypeOK, mixerVars, settings

LEMMA ClearTyped ==
    ASSUME TypeInv, NEW n \in Node, Clear(n) PROVE TypeInv'
<1>1. version' \in [Node -> Nat] /\ deleted' \in Nat
  BY DEF Clear, TypeInv, TypeOK
<1>2. QED
  BY <1>1, EmptyTyped DEF Clear

LEMMA NextTyped ==
    ASSUME TypeInv, [Next]_vars PROVE TypeInv'
<1>1. CASE UNCHANGED vars
  BY <1>1 DEF vars, TypeInv, TypeOK
<1>2. CASE Next
  BY <1>2, TrainTyped, RestartTyped, LoadTyped, MixerTyped, GatherTyped, PutTyped,
     RegisterLabelTyped, DeleteLabelTyped, ClearTyped DEF Next
<1>3. QED
  BY <1>1, <1>2

\* The averages a round makes are weights, and every node's tables, labels and
\* version keep their types: mix never divides by an empty count.
THEOREM TypesHold == Spec => []TypeOK
<1>1. Init => TypeInv
  BY InitTyped
<1>2. TypeInv /\ [Next]_vars => TypeInv'
  BY NextTyped
<1>3. TypeInv => TypeOK
  BY DEF TypeInv
<1>4. QED
  BY <1>1, <1>2, <1>3, PTL DEF Spec

---------------------------------------------------------------------------
(* Labels.                                                                 *)

\* The labels of a node, and those in memory, cover its weights.
Covers(t, d, l, mem) ==
    \A k \in Key :
        /\ k \in DOMAIN d => k[2] \in l
        /\ t[k] # Zero => k[2] \in l /\ (HasUnlearner => k[2] \in mem)

Covered == \A n \in Node : Covers(tbl[n], diff[n], labels[n], memory[n])

LEMMA LabelOfKey ==
    ASSUME NEW w, NEW k \in DOMAIN w PROVE k[2] \in LabelsOf(w)
  BY DEF LabelsOf

LEMMA PlusZero == ASSUME NEW a \in Weight PROVE Plus(a, Zero) = a
<1>1. \A u \in Update : a[u] \in Int
  BY DEF Weight
<1>2. Plus(a, Zero) = [u \in Update |-> a[u] + 0]
  BY DEF Plus, Zero
<1>3. Plus(a, Zero) = [u \in Update |-> a[u]]
  BY <1>1, <1>2
<1>4. QED
  BY <1>3 DEF Weight

\* The labels given up go with all their weights.
LEMMA UnlearnCovers ==
    ASSUME NEW t, NEW d, IsPartialTable(d), NEW l, NEW mem, NEW r, After(mem, r),
           Covers(t, d, l, mem)
    PROVE  Covers(Unlearned(t, r.gone), WithoutLabels(d, r.gone), l \ r.gone, r.memory)
<1>1. DOMAIN WithoutLabels(d, r.gone) = {k \in DOMAIN d : k[2] \notin r.gone}
  BY WithoutTyped
<1>2. \A k \in Key : Unlearned(t, r.gone)[k] # Zero => k[2] \notin r.gone /\ t[k] # Zero
  BY DEF Unlearned
<1>3. mem \subseteq r.memory \cup r.gone
  BY DEF After
<1>4. QED
  BY <1>1, <1>2, <1>3 DEF Covers

\* A weight that taking an average changes is of a label it registers.
LEMMA TakeAverageCovers ==
    ASSUME NEW t \in [Key -> Weight], NEW w, IsPartialTable(w), NEW l, NEW d, NEW mem,
           Covers(t, d, l, mem), HasUnlearner => LabelsOf(w) \subseteq mem
    PROVE  Covers(Increase(t, w), NoWeights, l \cup LabelsOf(w), mem)
<1> SUFFICES ASSUME NEW k \in Key, Increase(t, w)[k] # Zero
             PROVE  k[2] \in l \cup LabelsOf(w) /\ (HasUnlearner => k[2] \in mem)
  BY NoWeightsTyped DEF Covers
<1>1. CASE k \in DOMAIN w
  BY <1>1, LabelOfKey
<1>2. CASE k \notin DOMAIN w
  <2>1. Increase(t, w)[k] = Plus(t[k], Zero)
    BY <1>2 DEF Increase, At
  <2>2. t[k] # Zero
    BY <2>1, PlusZero
  <2>3. QED
    BY <2>2 DEF Covers
<1>3. QED
  BY <1>1, <1>2

\* A step of node n leaves the other nodes alone.
Others(n) ==
    \A m \in Node \ {n} :
        /\ tbl'[m] = tbl[m] /\ diff'[m] = diff[m] /\ version'[m] = version[m]
        /\ labels'[m] = labels[m] /\ memory'[m] = memory[m] /\ lost'[m] = lost[m]

LEMMA OthersCovered ==
    ASSUME Covered, NEW n \in Node, Others(n), UNCHANGED settings,
           Covers(tbl'[n], diff'[n], labels'[n], memory'[n])
    PROVE  Covered'
  BY DEF Covered, Covers, Others, HasUnlearner, settings

\* What a step does that gives up labels and nothing else, at node n.
GivesUp(n) ==
    \E r :
        /\ After(memory[n], r)
        /\ memory'[n] = r.memory
        /\ r.gone \subseteq lost'[n] /\ lost[n] \subseteq lost'[n]
        /\ tbl'[n] = Unlearned(tbl[n], r.gone)
        /\ diff'[n] = WithoutLabels(diff[n], r.gone)
        /\ labels[n] \ r.gone \subseteq labels'[n]
        /\ version'[n] = version[n]

LEMMA RegisterLabelGivesUp ==
    ASSUME TypeInv, NEW n \in Node, NEW l \in Label, RegisterLabel(n, l)
    PROVE  /\ Others(n) /\ GivesUp(n)
           /\ UNCHANGED <<settings, used, mixerVars>>
<1>1. PICK r :
         /\ After(memory[n], r)
         /\ memory' = [memory EXCEPT ![n] = r.memory]
         /\ lost' = [lost EXCEPT ![n] = @ \cup r.gone]
         /\ tbl' = [tbl EXCEPT ![n] = Unlearned(@, r.gone)]
         /\ diff' = [diff EXCEPT ![n] = WithoutLabels(@, r.gone)]
         /\ labels' = [labels EXCEPT ![n] = (@ \cup {l}) \ r.gone]
  BY RegisterLabelDoes
<1>2. UNCHANGED <<version, settings, used, mixerVars>>
  BY DEF RegisterLabel
<1>3. Others(n)
  BY <1>1, <1>2 DEF Others, TypeInv, TypeOK
<1>4. /\ memory'[n] = r.memory /\ lost'[n] = lost[n] \cup r.gone
      /\ tbl'[n] = Unlearned(tbl[n], r.gone) /\ diff'[n] = WithoutLabels(diff[n], r.gone)
      /\ labels'[n] = (labels[n] \cup {l}) \ r.gone /\ version'[n] = version[n]
  BY <1>1, <1>2 DEF TypeInv, TypeOK
<1>5. GivesUp(n)
  BY <1>1, <1>4 DEF GivesUp
<1>6. QED
  BY <1>2, <1>3, <1>5

LEMMA DeleteLabelGivesUp ==
    ASSUME TypeInv, NEW n \in Node, NEW l \in Label, DeleteLabel(n, l)
    PROVE  /\ Others(n) /\ GivesUp(n)
           /\ UNCHANGED <<settings, used, mixerVars>>
<1>1. PICK x \in SUBSET {l} :
         /\ After(memory[n], Outcome(memory[n] \ x, {l}))
         /\ memory' = [memory EXCEPT ![n] = memory[n] \ x]
  BY DeleteLabelDoes
<1>2. PICK r : r = Outcome(memory[n] \ x, {l})
  OBVIOUS
<1>3. After(memory[n], r) /\ r.memory = memory[n] \ x /\ r.gone = {l}
  BY <1>1, <1>2 DEF Outcome
<1>4. /\ tbl' = [tbl EXCEPT ![n] = Unlearned(@, {l})]
      /\ diff' = [diff EXCEPT ![n] = WithoutLabels(diff[n], {l})]
      /\ labels' = [labels EXCEPT ![n] = @ \ {l}]
      /\ lost' = [lost EXCEPT ![n] = @ \cup {l}]
      /\ UNCHANGED <<version, settings, used, mixerVars>>
  BY DEF DeleteLabel, Forget
<1>5. Others(n)
  BY <1>1, <1>4 DEF Others, TypeInv, TypeOK
<1>6. /\ memory'[n] = r.memory /\ lost'[n] = lost[n] \cup {l}
      /\ tbl'[n] = Unlearned(tbl[n], r.gone) /\ diff'[n] = WithoutLabels(diff[n], r.gone)
      /\ labels'[n] = labels[n] \ r.gone /\ version'[n] = version[n]
  BY <1>1, <1>3, <1>4 DEF TypeInv, TypeOK
<1>7. GivesUp(n)
  BY <1>3, <1>6 DEF GivesUp
<1>8. QED
  BY <1>4, <1>5, <1>7

\* A put takes what it keeps of the fold, or only gives labels up.
Takes(n) ==
    \E r :
        /\ After(memory[n], r)
        /\ memory'[n] = r.memory
        /\ r.gone \cup Dropped(r.memory) \subseteq lost'[n] /\ lost[n] \subseteq lost'[n]
        /\ tbl'[n] = Increase(Unlearned(tbl[n], r.gone), KeepKnown(r.memory).weights)
        /\ diff'[n] = NoWeights
        /\ labels'[n] = (labels[n] \ r.gone) \cup LabelsOf(KeepKnown(r.memory).weights)
        /\ version'[n] = version[n] + 1

LEMMA PutTakes ==
    ASSUME TypeInv, NEW n \in Node, Put(n)
    PROVE  /\ Others(n)
           /\ UNCHANGED <<settings, used, phase, mixed, gathered>> /\ phase = "put"
           /\ mixed.expect = version[n] => Takes(n)
           /\ mixed.expect # version[n] => GivesUp(n)
<1>1. PICK r \in Touches(memory[n], DOMAIN mixed.weights) :
         /\ After(memory[n], r)
         /\ memory' = [memory EXCEPT ![n] = r.memory]
         /\ lost' = [lost EXCEPT ![n] = @ \cup r.gone \cup Dropped(r.memory)]
         /\ SetAverage(n, KeepKnown(r.memory), r.gone)
  BY PutDoes
<1>2. UNCHANGED <<settings, used, phase, mixed, gathered>> /\ phase = "put"
  BY DEF Put
<1>3. KeepKnown(r.memory).expect = mixed.expect
  BY KeptTyped DEF TypeInv
<1>4. /\ memory'[n] = r.memory
      /\ r.gone \cup Dropped(r.memory) \subseteq lost'[n] /\ lost[n] \subseteq lost'[n]
      /\ \A m \in Node \ {n} : memory'[m] = memory[m] /\ lost'[m] = lost[m]
  BY <1>1 DEF TypeInv, TypeOK
<1>5. CASE mixed.expect = version[n]
  <2>1. TakeAverage(n, KeepKnown(r.memory), r.gone, NoWeights)
    BY <1>1, <1>3, <1>5 DEF SetAverage
  <2>2. PICK w : w = KeepKnown(r.memory).weights
    OBVIOUS
  <2>3. /\ tbl' = [tbl EXCEPT ![n] = Increase(Unlearned(@, r.gone), w)]
        /\ diff' = [diff EXCEPT ![n] = NoWeights]
        /\ labels' = [labels EXCEPT ![n] = (@ \ r.gone) \cup LabelsOf(w)]
        /\ version' = [version EXCEPT ![n] = @ + 1]
    BY <2>1, <2>2 DEF TakeAverage
  <2>4. /\ tbl'[n] = Increase(Unlearned(tbl[n], r.gone), w) /\ diff'[n] = NoWeights
        /\ labels'[n] = (labels[n] \ r.gone) \cup LabelsOf(w)
        /\ version'[n] = version[n] + 1
        /\ \A m \in Node \ {n} : /\ tbl'[m] = tbl[m] /\ diff'[m] = diff[m]
                                 /\ labels'[m] = labels[m] /\ version'[m] = version[m]
    BY <2>3 DEF TypeInv, TypeOK
  <2>5. Takes(n)
    BY <1>1, <1>4, <2>2, <2>4 DEF Takes
  <2>6. QED
    BY <1>2, <1>4, <1>5, <2>4, <2>5 DEF Others
<1>6. CASE mixed.expect # version[n]
  <2>1. TakeNothing(n, r.gone)
    BY <1>1, <1>3, <1>6 DEF SetAverage
  <2>2. /\ tbl'[n] = Unlearned(tbl[n], r.gone) /\ diff'[n] = WithoutLabels(diff[n], r.gone)
        /\ labels'[n] = labels[n] \ r.gone /\ version'[n] = version[n]
        /\ \A m \in Node \ {n} : /\ tbl'[m] = tbl[m] /\ diff'[m] = diff[m]
                                 /\ labels'[m] = labels[m] /\ version'[m] = version[m]
    BY <2>1 DEF TakeNothing, TypeInv, TypeOK
  <2>3. GivesUp(n)
    BY <1>1, <1>4, <2>2 DEF GivesUp
  <2>4. QED
    BY <1>2, <1>4, <1>6, <2>2, <2>3 DEF Others
<1>7. QED
  BY <1>5, <1>6

LEMMA GivesUpCovers ==
    ASSUME TypeInv, Covered, NEW n \in Node, Others(n), GivesUp(n), UNCHANGED settings
    PROVE  Covered'
<1>1. PICK r :
        /\ After(memory[n], r)
        /\ memory'[n] = r.memory
        /\ tbl'[n] = Unlearned(tbl[n], r.gone)
        /\ diff'[n] = WithoutLabels(diff[n], r.gone)
        /\ labels[n] \ r.gone \subseteq labels'[n]
  BY DEF GivesUp
<1>2. Covers(tbl[n], diff[n], labels[n], memory[n]) /\ IsPartialTable(diff[n])
  BY DEF Covered, TypeInv, TypeOK
<1>3. Covers(tbl'[n], diff'[n], labels[n] \ r.gone, memory'[n])
  BY <1>1, <1>2, UnlearnCovers
<1>4. Covers(tbl'[n], diff'[n], labels'[n], memory'[n])
  BY <1>1, <1>3 DEF Covers
<1>5. QED
  BY <1>4, OthersCovered

LEMMA TakesCovers ==
    ASSUME TypeInv, Covered, NEW n \in Node, Others(n), Takes(n), UNCHANGED settings
    PROVE  Covered'
<1>1. PICK r :
        /\ After(memory[n], r)
        /\ memory'[n] = r.memory
        /\ tbl'[n] = Increase(Unlearned(tbl[n], r.gone), KeepKnown(r.memory).weights)
        /\ diff'[n] = NoWeights
        /\ labels'[n] = (labels[n] \ r.gone) \cup LabelsOf(KeepKnown(r.memory).weights)
  BY DEF Takes
<1>2. /\ Covers(tbl[n], diff[n], labels[n], memory[n])
      /\ IsPartialTable(diff[n]) /\ tbl[n] \in [Key -> Weight] /\ TypeOK
  BY DEF Covered, TypeInv, TypeOK
<1>3. PICK t : t = Unlearned(tbl[n], r.gone)
  OBVIOUS
<1>4. PICK w : w = KeepKnown(r.memory).weights
  OBVIOUS
<1>5. PICK d : d = WithoutLabels(diff[n], r.gone)
  OBVIOUS
<1>6. PICK l : l = labels[n] \ r.gone
  OBVIOUS
<1>7. Covers(t, d, l, memory'[n])
  BY <1>1, <1>2, <1>3, <1>5, <1>6, UnlearnCovers
<1>8. t \in [Key -> Weight] /\ IsPartialTable(w)
  BY <1>2, <1>3, <1>4, UnlearnedTyped, KeptTyped
<1>9. HasUnlearner => LabelsOf(w) \subseteq memory'[n]
  <2>1. DOMAIN w = {k \in DOMAIN mixed.weights : HasUnlearner => k[2] \in r.memory}
    BY <1>2, <1>4, KeptTyped
  <2>2. QED
    BY <1>1, <2>1 DEF LabelsOf
<1>10. Covers(Increase(t, w), NoWeights, l \cup LabelsOf(w), memory'[n])
  BY <1>7, <1>8, <1>9, TakeAverageCovers
<1>11. Covers(tbl'[n], diff'[n], labels'[n], memory'[n])
  BY <1>1, <1>3, <1>4, <1>6, <1>10
<1>12. QED
  BY <1>11, OthersCovered

LEMMA TrainCovers ==
    ASSUME TypeInv, Covered,
           NEW n \in Node, NEW u \in Update, NEW f \in Feature,
           NEW inc \in Label, NEW dec \in Label \cup {NoLabel},
           Train(n, u, f, inc, dec)
    PROVE  Covered'
<1>1. PICK delta : delta = Delta(u, f, inc, dec)
  OBVIOUS
<1>2. PICK r \in Touch(Outcome(memory[n], {}), inc) :
         /\ memory' = [memory EXCEPT ![n] = r.memory]
         /\ lost' = [lost EXCEPT ![n] = @ \cup r.gone]
         /\ tbl' = [tbl EXCEPT ![n] = Unlearned(@, r.gone)]
         /\ diff' = [diff EXCEPT ![n] = WithoutLabels(Summed(@, delta), r.gone)]
         /\ labels' = [labels EXCEPT ![n] = (@ \cup LabelsOf(delta)) \ r.gone]
  BY <1>1 DEF Train
<1>3. UNCHANGED <<version, settings>>
  BY DEF Train
<1>4. After(memory[n], r)
  BY TouchOnce
<1>5. /\ Covers(tbl[n], diff[n], labels[n], memory[n])
      /\ IsPartialTable(diff[n]) /\ IsPartialTable(delta)
  BY <1>1, DeltaTyped DEF Covered, TypeInv, TypeOK
<1>6. PICK d : d = Summed(diff[n], delta)
  OBVIOUS
<1>7. IsPartialTable(d) /\ DOMAIN d = DOMAIN diff[n] \cup DOMAIN delta
  BY <1>5, <1>6, SummedTyped
<1>8. PICK l : l = labels[n] \cup LabelsOf(delta)
  OBVIOUS
<1>9. Covers(tbl[n], d, l, memory[n])
  BY <1>5, <1>7, <1>8, LabelOfKey DEF Covers
<1>10. Covers(Unlearned(tbl[n], r.gone), WithoutLabels(d, r.gone), l \ r.gone, r.memory)
  BY <1>4, <1>7, <1>9, UnlearnCovers
<1>11. /\ tbl'[n] = Unlearned(tbl[n], r.gone) /\ diff'[n] = WithoutLabels(d, r.gone)
       /\ labels'[n] = l \ r.gone /\ memory'[n] = r.memory
  BY <1>2, <1>6, <1>8 DEF TypeInv, TypeOK
<1>12. Covers(tbl'[n], diff'[n], labels'[n], memory'[n])
  BY <1>10, <1>11
<1>13. Others(n)
  BY <1>2, <1>3 DEF Others, TypeInv, TypeOK
<1>14. QED
  BY <1>3, <1>12, <1>13, OthersCovered

LEMMA EmptyCovers ==
    ASSUME NEW n \in Node, TypeInv, Covered,
           tbl' = [tbl EXCEPT ![n] = EmptyTable],
           diff' = [diff EXCEPT ![n] = NoWeights],
           labels' = [labels EXCEPT ![n] = {}],
           memory' = [memory EXCEPT ![n] = {}], UNCHANGED settings
    PROVE  Covered'
<1>1. /\ tbl'[n] = EmptyTable /\ diff'[n] = NoWeights
      /\ \A m \in Node \ {n} : /\ tbl'[m] = tbl[m] /\ diff'[m] = diff[m]
                               /\ labels'[m] = labels[m] /\ memory'[m] = memory[m]
  BY DEF TypeInv, TypeOK
<1>2. QED
  BY <1>1, NoWeightsTyped DEF Covered, Covers, EmptyTable, HasUnlearner, settings

LEMMA NextCovers ==
    ASSUME TypeInv, Covered, [Next]_vars PROVE Covered'
<1>1. ASSUME UNCHANGED <<tbl, diff, labels, memory, settings>> PROVE Covered'
  BY <1>1 DEF Covered, Covers, HasUnlearner, settings
<1>2. ASSUME NEW n \in Node, Restart(n) PROVE Covered'
  BY <1>2, EmptyCovers DEF Restart
<1>3. ASSUME NEW n \in Node, NEW m \in Node, Load(n, m) PROVE Covered'
  <2>1. UNCHANGED settings
    BY <1>3 DEF Load
  <2>2. \A i \in Node : \E j \in Node :
           /\ tbl'[i] = tbl[j] /\ diff'[i] = diff[j]
           /\ labels'[i] = labels[j] /\ memory'[i] = memory[j]
    BY <1>3 DEF Load, TypeInv, TypeOK
  <2>3. QED
    BY <2>1, <2>2 DEF Covered, Covers, HasUnlearner, settings
<1>4. ASSUME NEW n \in Node, NEW l \in Label, RegisterLabel(n, l) PROVE Covered'
  BY <1>4, RegisterLabelGivesUp, GivesUpCovers
<1>5. ASSUME NEW n \in Node, Clear(n) PROVE Covered'
  BY <1>5, EmptyCovers DEF Clear
<1>6. ASSUME NEW n \in Node, NEW l \in Label, DeleteLabel(n, l) PROVE Covered'
  BY <1>6, DeleteLabelGivesUp, GivesUpCovers
<1>7. ASSUME NEW n \in Node, Put(n) PROVE Covered'
  BY <1>7, PutTakes, GivesUpCovers, TakesCovers
<1>8. CASE UNCHANGED vars
  BY <1>1, <1>8 DEF vars, settings
<1>9. CASE StartRound \/ StartPut \/ EndRound
  BY <1>1, <1>9 DEF StartRound, StartPut, EndRound, modelVars
<1>10. ASSUME NEW n \in Node, Gather(n) \/ LosePut(n) PROVE Covered'
  BY <1>1, <1>10 DEF Gather, LosePut, modelVars
<1>11. QED
  BY <1>2, <1>3, <1>4, <1>5, <1>6, <1>7, <1>8, <1>9, <1>10, TrainCovers DEF Next

\* A weight is stored under a registered label only, whenever labels are
\* deleted, given up by the unlearner and models cleared: put_diff registers
\* what it brings back, and brings back only what the unlearner has in memory,
\* which is never more than max_size labels.
THEOREM LabelsHold == Spec => []WeightsAreLabelled
<1>1. Init => TypeInv /\ Covered
  BY InitTyped, NoWeightsTyped DEF Init, Covered, Covers, EmptyTable
<1>2. TypeInv /\ Covered /\ [Next]_vars => TypeInv' /\ Covered'
  BY NextTyped, NextCovers
<1>3. TypeInv /\ Covered => WeightsAreLabelled
  BY DEF TypeInv, TypeOK, IsPartialTable, Covered, Covers, WeightsAreLabelled
<1>4. QED
  BY <1>1, <1>2, <1>3, PTL DEF Spec

---------------------------------------------------------------------------
(* Every update is mixed in once.                                          *)

\* How much of update u the partial table w holds under key k.
Coef(w, k, u) == At(w, k)[u]

Bounded(x) == x \in -Unit..Unit

\* What is anywhere was trained once, with one Unit.
Trained ==
    \A k \in Key, u \in Update :
        /\ Bounded(Coef(mixed.weights, k, u))
        /\ Coef(mixed.weights, k, u) # 0 => u \in used
        /\ \A n \in Node :
              /\ Bounded(tbl[n][k][u]) /\ Bounded(Coef(diff[n], k, u))
              /\ tbl[n][k][u] # 0 \/ Coef(diff[n], k, u) # 0 => u \in used

\* An update in a difference is in no master of that version or an older one,
\* and the other differences that hold it expect the same version.
DiffIsNew ==
    \A n, m \in Node, k \in Key, u \in Update :
        Coef(diff[m], k, u) # 0 =>
            /\ version[n] <= version[m] => tbl[n][k][u] = 0
            /\ Coef(diff[n], k, u) # 0 => version[n] = version[m]

\* The same of the fold.
FoldIsNew ==
    /\ phase = "idle" => mixed = NoDiff
    /\ \A n \in Node, k \in Key, u \in Update :
          Coef(mixed.weights, k, u) # 0 =>
              /\ version[n] <= mixed.expect => tbl[n][k][u] = 0
              /\ Coef(diff[n], k, u) # 0 => version[n] = mixed.expect

OnceInv == TypeInv /\ Trained /\ DiffIsNew /\ FoldIsNew

---------------------------------------------------------------------------
LEMMA CoefInt ==
    ASSUME NEW w, IsPartialTable(w), NEW k, NEW u \in Update PROVE Coef(w, k, u) \in Int
  BY AtTyped DEF Coef, Weight

LEMMA CoefNone ==
    ASSUME NEW k, NEW u \in Update
    PROVE  Coef(NoWeights, k, u) = 0 /\ Coef(NoDiff.weights, k, u) = 0
<1>1. Coef(NoWeights, k, u) = 0
  BY NoWeightsTyped DEF Coef, At, Zero
<1>2. NoDiff.weights = NoWeights
  BY DEF NoDiff, Diffv
<1>3. QED
  BY <1>1, <1>2

LEMMA ZeroBounded == Bounded(0) /\ \A k \in Key, u \in Update : EmptyTable[k][u] = 0
  BY UnitAssumption DEF Bounded, EmptyTable, Zero

LEMMA CoefIncrease ==
    ASSUME NEW t, NEW w, NEW k \in Key, NEW u \in Update
    PROVE  Increase(t, w)[k][u] = t[k][u] + Coef(w, k, u)
  BY DEF Increase, Plus, Coef

LEMMA CoefSum ==
    ASSUME NEW d, IsPartialTable(d), NEW e, IsPartialTable(e),
           NEW k, NEW u \in Update
    PROVE  Coef(Summed(d, e), k, u) = Coef(d, k, u) + Coef(e, k, u)
<1> DEFINE S == DOMAIN d \cup DOMAIN e
           w == [j \in S |-> Plus(At(d, j), At(e, j))]
<1>0. Summed(d, e) = w
  BY DEF Summed
<1>1. CASE k \in S
  <2>1. At(w, k) = Plus(At(d, k), At(e, k))
    BY <1>1 DEF At
  <2>2. QED
    BY <1>0, <2>1 DEF Coef, Plus
<1>2. CASE k \notin S
  <2>1. At(w, k) = Zero /\ At(d, k) = Zero /\ At(e, k) = Zero
    BY <1>2 DEF At
  <2>2. QED
    BY <1>0, <2>1 DEF Coef, Zero
<1>3. QED
  BY <1>1, <1>2

\* One update adds at most one Unit of itself.
LEMMA CoefDelta ==
    ASSUME NEW v \in Update, NEW f \in Feature, NEW inc \in Label,
           NEW dec \in Label \cup {NoLabel}, NEW k, NEW u \in Update
    PROVE  /\ Bounded(Coef(Delta(v, f, inc, dec), k, u))
           /\ u # v => Coef(Delta(v, f, inc, dec), k, u) = 0
<1> DEFINE d == Delta(v, f, inc, dec)
<1>1. CASE k \in DOMAIN d
  <2>1. PICK s \in {1, -1} : At(d, k) = Once(v, s)
    BY <1>1 DEF At, Delta
  <2>2. Once(v, s)[u] = IF u = v THEN s * Unit ELSE 0
    BY DEF Once
  <2>3. s * Unit \in -Unit..Unit /\ 0 \in -Unit..Unit
    BY <2>1, UnitAssumption
  <2>4. QED
    BY <2>1, <2>2, <2>3 DEF Coef, Bounded
<1>2. CASE k \notin DOMAIN d
  BY <1>2, ZeroBounded DEF Coef, At, Zero
<1>3. QED
  BY <1>1, <1>2

\* The average of two bounded numbers is bounded, and of two zeros zero.
LEMMA AverageBounded ==
    ASSUME NEW a \in Int, NEW b \in Int, Bounded(a), Bounded(b),
           NEW c \in Nat, NEW d \in Nat, c >= 1, d >= 1
    PROVE  /\ Bounded((c * a + d * b) \div (c + d))
           /\ a = 0 /\ b = 0 => (c * a + d * b) \div (c + d) = 0
<1> DEFINE q == (c * a + d * b) \div (c + d)
           s == c + d
<1>0. Unit \in Int /\ s \in Int /\ s >= 1
  BY UnitAssumption
<1>1. c * a <= c * Unit /\ d * b <= d * Unit /\ -(c * Unit) <= c * a /\ -(d * Unit) <= d * b
  BY <1>0 DEF Bounded
<1>2. c * Unit + d * Unit = s * Unit
  BY <1>0
<1>3. c * a + d * b \in Int /\ c * a + d * b <= s * Unit /\ -(s * Unit) <= c * a + d * b
  BY <1>0, <1>1, <1>2
<1>4. \A x \in Int : x <= s * Unit /\ -(s * Unit) <= x => x \div s \in -Unit..Unit
  BY <1>0
<1>5. Bounded(q)
  BY <1>3, <1>4 DEF Bounded
<1>6. 0 \div s = 0
  BY <1>0
<1>7. a = 0 /\ b = 0 => q = 0
  BY <1>6
<1>8. QED
  BY <1>5, <1>7

\* What the average holds, where either side holds it.
LEMMA CoefOfMerge ==
    ASSUME NEW l, NEW r, IsDiffv(l), IsDiffv(r), l.count + r.count >= 1, NEW c,
           NEW k, NEW u \in Update
    PROVE  Coef(Merge(l, r, c).weights, k, u) =
               (l.count * Coef(l.weights, k, u) + r.count * Coef(r.weights, k, u))
                   \div (l.count + r.count)
<1> DEFINE S == DOMAIN l.weights \cup DOMAIN r.weights
           w == Merge(l, r, c).weights
<1>1. /\ IsPartialTable(l.weights) /\ IsPartialTable(r.weights)
      /\ l.count \in Nat /\ r.count \in Nat
  BY DEF IsDiffv
<1>2. w = [j \in S |-> MixVal(l.count, At(l.weights, j), r.count, At(r.weights, j))]
  BY DEF Merge, Diffv
<1>3. CASE k \in S
  BY <1>2, <1>3 DEF Coef, At, MixVal
<1>4. CASE k \notin S
  <2>1. Coef(w, k, u) = 0 /\ Coef(l.weights, k, u) = 0 /\ Coef(r.weights, k, u) = 0
    BY <1>2, <1>4 DEF Coef, At, Zero
  <2>2. PICK p \in Nat, q \in Nat : p = l.count /\ q = r.count
    BY <1>1
  <2>3. (p * 0 + q * 0) \div (p + q) = 0
    BY <2>2
  <2>4. QED
    BY <2>1, <2>2, <2>3
<1>5. QED
  BY <1>3, <1>4

LEMMA CoefMerge ==
    ASSUME NEW l, NEW r, IsDiffv(l), IsDiffv(r), l.count >= 1, r.count >= 1, NEW c,
           NEW k, NEW u \in Update,
           Bounded(Coef(l.weights, k, u)), Bounded(Coef(r.weights, k, u))
    PROVE  LET x == Coef(Merge(l, r, c).weights, k, u)
           IN /\ Bounded(x)
              /\ Coef(l.weights, k, u) = 0 /\ Coef(r.weights, k, u) = 0 => x = 0
<1> DEFINE S == DOMAIN l.weights \cup DOMAIN r.weights
           w == Merge(l, r, c).weights
           a == Coef(l.weights, k, u)
           b == Coef(r.weights, k, u)
<1>1. /\ IsPartialTable(l.weights) /\ IsPartialTable(r.weights)
      /\ l.count \in Nat /\ r.count \in Nat
  BY DEF IsDiffv
<1>2. w = [j \in S |-> MixVal(l.count, At(l.weights, j), r.count, At(r.weights, j))]
  BY DEF Merge, Diffv
<1>3. CASE k \in S
  <2>1. Coef(w, k, u) = (l.count * a + r.count * b) \div (l.count + r.count)
    BY <1>2, <1>3 DEF Coef, At, MixVal
  <2>2. a \in Int /\ b \in Int
    BY <1>1, CoefInt
  <2>3. QED
    BY <1>1, <2>1, <2>2, AverageBounded
<1>4. CASE k \notin S
  BY <1>2, <1>4, ZeroBounded DEF Coef, At, Zero
<1>5. QED
  BY <1>3, <1>4

LEMMA CoefWithout ==
    ASSUME NEW w, IsPartialTable(w), NEW ls, NEW k, NEW u \in Update
    PROVE  Coef(WithoutLabels(w, ls), k, u) \in {0, Coef(w, k, u)}
<1>1. CASE k \in DOMAIN WithoutLabels(w, ls)
  <2>1. k \in DOMAIN w
    BY <1>1, WithoutTyped
  <2>2. WithoutLabels(w, ls)[k] = w[k]
    BY <1>1 DEF WithoutLabels, Restrict
  <2>3. QED
    BY <1>1, <2>1, <2>2 DEF Coef, At
<1>2. CASE k \notin DOMAIN WithoutLabels(w, ls)
  BY <1>2 DEF Coef, At, Zero
<1>3. QED
  BY <1>1, <1>2

LEMMA CoefUnlearned ==
    ASSUME NEW t, NEW ls, NEW k \in Key, NEW u \in Update
    PROVE  Unlearned(t, ls)[k][u] \in {0, t[k][u]}
  BY DEF Unlearned, Zero

---------------------------------------------------------------------------
LEMMA OnceTypes ==
    ASSUME TypeInv
    PROVE  /\ \A n \in Node : version[n] \in Nat /\ IsPartialTable(diff[n])
           /\ IsPartialTable(mixed.weights) /\ mixed.expect \in Int
           /\ \A n \in Node, k \in Key, u \in Update :
                 tbl[n][k][u] \in Int /\ Coef(diff[n], k, u) \in Int
           /\ \A k \in Key, u \in Update : Coef(mixed.weights, k, u) \in Int
<1>1. /\ \A n \in Node : version[n] \in Nat /\ IsPartialTable(diff[n])
      /\ IsPartialTable(mixed.weights) /\ mixed.expect \in Int
  BY DEF TypeInv, TypeOK, IsDiffv
<1>2. \A n \in Node, k \in Key, u \in Update : tbl[n][k][u] \in Int
  BY DEF TypeInv, TypeOK, Weight
<1>3. QED
  BY <1>1, <1>2, CoefInt

LEMMA InitOnce == Init => OnceInv
<1> SUFFICES ASSUME Init PROVE OnceInv
  OBVIOUS
<1>1. TypeInv
  BY InitTyped
<1>2. /\ mixed = NoDiff /\ \A n \in Node : diff[n] = NoWeights /\ tbl[n] = EmptyTable
  BY DEF Init
<1>3. /\ Bounded(0)
      /\ \A k \in Key, u \in Update :
            /\ Coef(mixed.weights, k, u) = 0
            /\ \A n \in Node : tbl[n][k][u] = 0 /\ Coef(diff[n], k, u) = 0
  BY <1>2, CoefNone, ZeroBounded
<1>4. Trained
  BY <1>3 DEF Trained
<1>5. DiffIsNew
  BY <1>3 DEF DiffIsNew
<1>6. FoldIsNew
  BY <1>2, <1>3 DEF FoldIsNew
<1>7. QED
  BY <1>1, <1>4, <1>5, <1>6 DEF OnceInv

\* What training does to its node: the update is added, then labels go.
Trains(n, v, delta) ==
    /\ IsPartialTable(delta)
    /\ \A k \in Key : Bounded(Coef(delta, k, v))
    /\ \A k \in Key, u \in Update : u # v => Coef(delta, k, u) = 0
    /\ v \notin used /\ used' = used \cup {v}
    /\ UNCHANGED <<version, mixerVars, settings>>
    /\ Others(n)
    /\ \A k \in Key, u \in Update :
          /\ tbl'[n][k][u] \in {0, tbl[n][k][u]}
          /\ Coef(diff'[n], k, u) \in {0, Coef(diff[n], k, u) + Coef(delta, k, u)}

LEMMA TrainTrains ==
    ASSUME TypeInv, NEW n \in Node, NEW v \in Update, NEW f \in Feature,
           NEW inc \in Label, NEW dec \in Label \cup {NoLabel},
           Train(n, v, f, inc, dec)
    PROVE  Trains(n, v, Delta(v, f, inc, dec))
<1>1. PICK delta : delta = Delta(v, f, inc, dec)
  OBVIOUS
<1>2. PICK r :
         /\ memory' = [memory EXCEPT ![n] = r.memory]
         /\ lost' = [lost EXCEPT ![n] = @ \cup r.gone]
         /\ tbl' = [tbl EXCEPT ![n] = Unlearned(@, r.gone)]
         /\ diff' = [diff EXCEPT ![n] = WithoutLabels(Summed(@, delta), r.gone)]
         /\ labels' = [labels EXCEPT ![n] = (@ \cup LabelsOf(delta)) \ r.gone]
  BY <1>1 DEF Train
<1>3. /\ UNCHANGED <<version, settings, mixerVars>>
      /\ v \notin used /\ used' = used \cup {v}
  BY DEF Train
<1>4. IsPartialTable(delta) /\ IsPartialTable(diff[n])
  BY <1>1, DeltaTyped DEF TypeInv, TypeOK
<1>5. /\ \A k \in Key : Bounded(Coef(delta, k, v))
      /\ \A k \in Key, u \in Update : u # v => Coef(delta, k, u) = 0
  BY <1>1, CoefDelta
<1>6. Others(n)
  BY <1>2, <1>3 DEF Others, TypeInv, TypeOK
<1>7. PICK d : d = Summed(diff[n], delta)
  OBVIOUS
<1>8. tbl'[n] = Unlearned(tbl[n], r.gone) /\ diff'[n] = WithoutLabels(d, r.gone)
  BY <1>2, <1>7 DEF TypeInv, TypeOK
<1>9. IsPartialTable(d)
  BY <1>4, <1>7, SummedTyped
<1>10. ASSUME NEW k \in Key, NEW u \in Update
       PROVE  /\ tbl'[n][k][u] \in {0, tbl[n][k][u]}
              /\ Coef(diff'[n], k, u) \in {0, Coef(diff[n], k, u) + Coef(delta, k, u)}
  <2>1. tbl'[n][k][u] \in {0, tbl[n][k][u]}
    BY <1>8, CoefUnlearned
  <2>2. Coef(diff'[n], k, u) \in {0, Coef(d, k, u)}
    BY <1>8, <1>9, CoefWithout
  <2>3. Coef(d, k, u) = Coef(diff[n], k, u) + Coef(delta, k, u)
    BY <1>4, <1>7, CoefSum
  <2>4. QED
    BY <2>1, <2>2, <2>3
<1>11. QED
  BY <1>1, <1>3, <1>4, <1>5, <1>6, <1>10 DEF Trains

\* Only the coefficients of the one fresh update grow, from zero.
LEMMA TrainOnce ==
    ASSUME OnceInv, TypeInv', NEW n \in Node, NEW v \in Update, NEW delta,
           Trains(n, v, delta)
    PROVE  OnceInv'
<1>1. TypeInv
  BY DEF OnceInv
<1>2. /\ UNCHANGED <<version, phase, mixed>>
      /\ used' = used \cup {v} /\ v \notin used
      /\ \A m \in Node \ {n} : diff'[m] = diff[m] /\ tbl'[m] = tbl[m]
      /\ IsPartialTable(delta)
  BY DEF Trains, Others, mixerVars
<1>3. ASSUME NEW k \in Key, NEW u \in Update
      PROVE  /\ u # v => Coef(diff'[n], k, u) \in {0, Coef(diff[n], k, u)}
             /\ u = v => Bounded(Coef(diff'[n], k, u))
  <2>1. IsPartialTable(diff[n])
    BY <1>1, OnceTypes
  <2>2. Coef(diff'[n], k, u) \in {0, Coef(diff[n], k, u) + Coef(delta, k, u)}
    BY DEF Trains
  <2>3. (u = v => Bounded(Coef(delta, k, u))) /\ (u # v => Coef(delta, k, u) = 0)
    BY DEF Trains
  <2>4. Coef(diff[n], k, u) \in Int /\ Coef(delta, k, u) \in Int
    BY <1>2, <2>1, CoefInt
  <2>5. u = v => Coef(diff[n], k, u) = 0
    BY <1>2 DEF OnceInv, Trained
  <2>6. QED
    BY <2>2, <2>3, <2>4, <2>5, ZeroBounded
<1>4. \A m \in Node, k \in Key, u \in Update :
          /\ u # v => Coef(diff'[m], k, u) \in {0, Coef(diff[m], k, u)}
          /\ tbl'[m][k][u] \in {0, tbl[m][k][u]}
  BY <1>2, <1>3 DEF Trains
<1>5. \A m \in Node \ {n}, k \in Key : Coef(diff'[m], k, v) = 0
  BY <1>2 DEF OnceInv, Trained
<1>6. \A m \in Node, k \in Key : tbl'[m][k][v] = 0 /\ Coef(mixed.weights, k, v) = 0
  BY <1>2, <1>4 DEF OnceInv, Trained
<1>7. Trained'
  <2> SUFFICES ASSUME NEW k \in Key, NEW u \in Update
               PROVE  /\ Bounded(Coef(mixed'.weights, k, u))
                      /\ Coef(mixed'.weights, k, u) # 0 => u \in used'
                      /\ \A m \in Node :
                            /\ Bounded(tbl'[m][k][u]) /\ Bounded(Coef(diff'[m], k, u))
                            /\ tbl'[m][k][u] # 0 \/ Coef(diff'[m], k, u) # 0 => u \in used'
    BY DEF Trained, Bounded
  <2>1. CASE u # v
    BY <1>2, <1>4, <2>1, ZeroBounded DEF OnceInv, Trained
  <2>2. CASE u = v
    BY <1>2, <1>3, <1>5, <1>6, <2>2, ZeroBounded DEF OnceInv, Trained
  <2>3. QED
    BY <2>1, <2>2
<1>8. DiffIsNew'
  <2> SUFFICES ASSUME NEW i \in Node, NEW m \in Node, NEW k \in Key, NEW u \in Update,
                      Coef(diff'[m], k, u) # 0
               PROVE  /\ version[i] <= version[m] => tbl'[i][k][u] = 0
                      /\ Coef(diff'[i], k, u) # 0 => version[i] = version[m]
    BY <1>2 DEF DiffIsNew
  <2>1. CASE u # v
    BY <1>4, <2>1 DEF OnceInv, DiffIsNew
  <2>2. CASE u = v
    BY <1>5, <1>6, <2>2
  <2>3. QED
    BY <2>1, <2>2
<1>9. FoldIsNew'
  <2> SUFFICES ASSUME NEW m \in Node, NEW k \in Key, NEW u \in Update,
                      Coef(mixed.weights, k, u) # 0
               PROVE  /\ version[m] <= mixed.expect => tbl'[m][k][u] = 0
                      /\ Coef(diff'[m], k, u) # 0 => version[m] = mixed.expect
    BY <1>2 DEF OnceInv, FoldIsNew
  <2>1. u # v
    BY <1>6
  <2>2. QED
    BY <1>4, <2>1 DEF OnceInv, FoldIsNew
<1>10. QED
  BY <1>7, <1>8, <1>9 DEF OnceInv

\* A node that loses weights and keeps its version, or loses them all.
LEMMA LossOnce ==
    ASSUME OnceInv, TypeInv', NEW n \in Node,
           UNCHANGED <<used, phase, mixed>>,
           \A m \in Node \ {n} :
              tbl'[m] = tbl[m] /\ diff'[m] = diff[m] /\ version'[m] = version[m],
           \A k \in Key, u \in Update :
              /\ tbl'[n][k][u] \in {0, tbl[n][k][u]}
              /\ Coef(diff'[n], k, u) \in {0, Coef(diff[n], k, u)}
              /\ version'[n] = version[n]
                   \/ (tbl'[n][k][u] = 0 /\ Coef(diff'[n], k, u) = 0)
    PROVE  OnceInv'
<1>1. \A m \in Node, k \in Key, u \in Update :
          /\ tbl'[m][k][u] = 0 \/ (tbl'[m][k][u] = tbl[m][k][u] /\ version'[m] = version[m])
          /\ \/ Coef(diff'[m], k, u) = 0
             \/ Coef(diff'[m], k, u) = Coef(diff[m], k, u) /\ version'[m] = version[m]
  OBVIOUS
<1>2. Trained'
  <2>1. \A m \in Node, k \in Key, u \in Update :
           /\ Bounded(tbl'[m][k][u]) /\ Bounded(Coef(diff'[m], k, u))
           /\ tbl'[m][k][u] # 0 \/ Coef(diff'[m], k, u) # 0 => u \in used
    BY <1>1, ZeroBounded DEF OnceInv, Trained
  <2>2. QED
    BY <2>1 DEF OnceInv, Trained, Bounded
<1>3. DiffIsNew'
  BY <1>1 DEF OnceInv, DiffIsNew
<1>4. FoldIsNew'
  BY <1>1 DEF OnceInv, FoldIsNew
<1>5. QED
  BY <1>2, <1>3, <1>4 DEF OnceInv

LEMMA LoadOnce ==
    ASSUME OnceInv, NEW n \in Node, NEW m \in Node, Load(n, m) PROVE OnceInv'
<1>1. TypeInv'
  BY LoadTyped DEF OnceInv
<1>2. /\ UNCHANGED <<used, phase, mixed>> /\ mixed = NoDiff
      /\ \A i \in Node \ {n} :
            tbl'[i] = tbl[i] /\ diff'[i] = diff[i] /\ version'[i] = version[i]
      /\ tbl'[n] = tbl[m] /\ diff'[n] = diff[m] /\ version'[n] = version[m]
  BY DEF Load, mixerVars, OnceInv, TypeInv, TypeOK, FoldIsNew
<1>3. \A i \in Node : \E j \in Node :
          tbl'[i] = tbl[j] /\ diff'[i] = diff[j] /\ version'[i] = version[j]
  BY <1>2
<1>4. Trained'
  BY <1>2, <1>3 DEF OnceInv, Trained, Bounded
<1>5. DiffIsNew'
  BY <1>3 DEF OnceInv, DiffIsNew
<1>6. FoldIsNew'
  BY <1>2, CoefNone DEF FoldIsNew
<1>7. QED
  BY <1>1, <1>4, <1>5, <1>6 DEF OnceInv

LEMMA GatherOnce ==
    ASSUME OnceInv, NEW n \in Node, Gather(n) PROVE OnceInv'
<1> DEFINE d == GetDiff(n)
<1>1. TypeInv /\ TypeInv'
  BY GatherTyped DEF OnceInv
<1>2. /\ UNCHANGED <<tbl, diff, version, used, phase>> /\ phase = "gather"
      /\ mixed' = IF mixed = NoDiff THEN d ELSE Mix(d, mixed)
  BY DEF Gather, modelVars
<1>3. d.expect = version[n] /\ d.weights = diff[n] /\ d.count = 1 /\ IsDiffv(d)
  BY <1>1, ShareTyped DEF GetDiff, Diffv, TypeInv
\* What the new fold holds, one of the two it is made of holds at its version.
<1>4. ASSUME NEW k \in Key, NEW u \in Update
      PROVE  /\ Bounded(Coef(mixed'.weights, k, u))
             /\ Coef(mixed'.weights, k, u) # 0 =>
                   \/ Coef(diff[n], k, u) # 0 /\ mixed'.expect = version[n]
                   \/ Coef(mixed.weights, k, u) # 0 /\ mixed'.expect = mixed.expect
  <2>1. Bounded(Coef(d.weights, k, u)) /\ Bounded(Coef(mixed.weights, k, u))
    BY <1>3 DEF OnceInv, Trained
  <2>2. CASE mixed = NoDiff
    BY <1>2, <1>3, <2>1, <2>2
  <2>3. CASE mixed # NoDiff /\ d.expect # mixed.expect
    BY <1>2, <1>3, <2>1, <2>3 DEF Mix
  <2>4. CASE mixed # NoDiff /\ d.expect = mixed.expect
    <3>1. mixed' = Merge(d, mixed, d.count + mixed.count)
      BY <1>2, <2>4 DEF Mix
    <3>2. IsDiffv(mixed) /\ mixed.count >= 1
      BY <1>1, <2>4 DEF TypeInv, TypeOK
    <3>3. /\ Bounded(Coef(mixed'.weights, k, u))
          /\ Coef(d.weights, k, u) = 0 /\ Coef(mixed.weights, k, u) = 0
                => Coef(mixed'.weights, k, u) = 0
      BY <1>3, <2>1, <3>1, <3>2, CoefMerge
    <3>4. mixed'.expect = mixed.expect
      BY <3>1 DEF Merge, Diffv
    <3>5. QED
      BY <1>3, <2>4, <3>3, <3>4
  <2>5. QED
    BY <2>2, <2>3, <2>4
<1>5. Trained'
  <2>1. \A k \in Key, u \in Update :
            /\ Bounded(Coef(mixed'.weights, k, u))
            /\ Coef(mixed'.weights, k, u) # 0 => u \in used
    BY <1>4 DEF OnceInv, Trained
  <2>2. QED
    BY <1>2, <2>1 DEF OnceInv, Trained, Bounded
<1>6. DiffIsNew'
  BY <1>2 DEF OnceInv, DiffIsNew
<1>7. FoldIsNew'
  <2>1. ASSUME NEW m \in Node, NEW k \in Key, NEW u \in Update,
               Coef(mixed'.weights, k, u) # 0
        PROVE  /\ version[m] <= mixed'.expect => tbl[m][k][u] = 0
               /\ Coef(diff[m], k, u) # 0 => version[m] = mixed'.expect
    BY <1>4, <2>1 DEF OnceInv, DiffIsNew, FoldIsNew
  <2>2. QED
    BY <1>2, <2>1 DEF FoldIsNew
<1>8. QED
  BY <1>1, <1>5, <1>6, <1>7 DEF OnceInv

\* A step that only gives up labels.
LEMMA GivesUpOnce ==
    ASSUME OnceInv, TypeInv', NEW n \in Node, Others(n), GivesUp(n),
           UNCHANGED <<used, phase, mixed>>
    PROVE  OnceInv'
<1>1. PICK r :
         /\ tbl'[n] = Unlearned(tbl[n], r.gone)
         /\ diff'[n] = WithoutLabels(diff[n], r.gone)
         /\ version'[n] = version[n]
  BY DEF GivesUp
<1>2. IsPartialTable(diff[n])
  BY OnceTypes DEF OnceInv
<1>3. \A k \in Key, u \in Update :
          /\ tbl'[n][k][u] \in {0, tbl[n][k][u]}
          /\ Coef(diff'[n], k, u) \in {0, Coef(diff[n], k, u)}
  BY <1>1, <1>2, CoefWithout, CoefUnlearned
<1>4. \A m \in Node \ {n} :
          tbl'[m] = tbl[m] /\ diff'[m] = diff[m] /\ version'[m] = version[m]
  BY DEF Others
<1>5. QED
  BY <1>1, <1>3, <1>4, LossOnce

\* What a put that is taken leaves under a key: what the master had there, or
\* nothing, and what the fold has, or nothing; all of both if the label is not
\* lost, and what the fold has if the label is in memory.
LEMMA TakesAt ==
    ASSUME TypeInv, NEW n \in Node, Takes(n), UNCHANGED settings, NEW k \in Key
    PROVE  \E t \in {Zero, tbl[n][k]}, x \in {Zero, At(mixed.weights, k)} :
              /\ tbl'[n][k] = Plus(t, x)
              /\ k[2] \notin lost'[n] => t = tbl[n][k] /\ x = At(mixed.weights, k)
              /\ (HasUnlearner => k[2] \in memory'[n]) => x = At(mixed.weights, k)
<1>1. PICK r :
         /\ memory'[n] = r.memory
         /\ r.gone \cup Dropped(r.memory) \subseteq lost'[n]
         /\ tbl'[n] = Increase(Unlearned(tbl[n], r.gone), KeepKnown(r.memory).weights)
  BY DEF Takes
<1>2. PICK w : w = KeepKnown(r.memory).weights
  OBVIOUS
<1>3. /\ DOMAIN w = {j \in DOMAIN mixed.weights : HasUnlearner => j[2] \in r.memory}
      /\ \A j \in DOMAIN w : w[j] = mixed.weights[j]
  BY <1>2, KeptTyped DEF TypeInv
<1>4. PICK t : t = Unlearned(tbl[n], r.gone)[k]
  OBVIOUS
<1>5. PICK x : x = At(w, k)
  OBVIOUS
<1>6. tbl'[n][k] = Plus(t, x)
  BY <1>1, <1>2, <1>4, <1>5 DEF Increase
<1>7. t \in {Zero, tbl[n][k]} /\ (k[2] \notin r.gone => t = tbl[n][k])
  BY <1>4 DEF Unlearned
<1>8. x \in {Zero, At(mixed.weights, k)}
  BY <1>3, <1>5 DEF At
<1>9. (HasUnlearner => k[2] \in r.memory) => x = At(mixed.weights, k)
  BY <1>3, <1>5 DEF At
<1>10. k[2] \notin Dropped(r.memory) => x = At(mixed.weights, k)
  <2>1. CASE k \in DOMAIN mixed.weights
    <3>1. SUFFICES ASSUME k[2] \notin Dropped(r.memory) PROVE k \in DOMAIN w
      BY <1>3, <1>5, <2>1 DEF At
    <3>2. k[2] \in LabelsOf(mixed.weights)
      BY <2>1, LabelOfKey
    <3>3. k[2] \in LabelsOf(w)
      BY <1>2, <3>1, <3>2 DEF Dropped
    <3>4. PICK j \in DOMAIN w : k[2] = j[2]
      BY <3>3 DEF LabelsOf
    <3>5. QED
      BY <1>3, <2>1, <3>4
  <2>2. CASE k \notin DOMAIN mixed.weights
    BY <1>3, <1>5, <2>2 DEF At
  <2>3. QED
    BY <2>1, <2>2
<1>11. k[2] \notin lost'[n] => k[2] \notin r.gone /\ k[2] \notin Dropped(r.memory)
  BY <1>1
<1>12. k[2] \notin lost'[n] => t = tbl[n][k] /\ x = At(mixed.weights, k)
  BY <1>7, <1>10, <1>11
<1>13. (HasUnlearner => k[2] \in memory'[n]) => x = At(mixed.weights, k)
  BY <1>1, <1>9
<1>14. QED
  BY ONLY <1>6, <1>7, <1>8, <1>12, <1>13, Zenon

LEMMA PutOnce ==
    ASSUME OnceInv, NEW n \in Node, Put(n) PROVE OnceInv'
<1>1. TypeInv /\ TypeInv'
  BY PutTyped DEF OnceInv
<1>2. /\ UNCHANGED <<used, phase, mixed, settings>> /\ phase = "put" /\ Others(n)
      /\ mixed.expect = version[n] => Takes(n)
      /\ mixed.expect # version[n] => GivesUp(n)
  BY <1>1, PutTakes
<1>3. CASE mixed.expect # version[n]
  BY <1>1, <1>2, <1>3, GivesUpOnce
<1>4. CASE mixed.expect = version[n]
  <2>1. /\ diff'[n] = NoWeights /\ version'[n] = version[n] + 1
        /\ \A m \in Node \ {n} :
              tbl'[m] = tbl[m] /\ diff'[m] = diff[m] /\ version'[m] = version[m]
    BY <1>2, <1>4 DEF Takes, Others
  \* The master had none of what it takes.
  <2>2. ASSUME NEW k \in Key, NEW u \in Update
        PROVE  /\ Coef(diff'[n], k, u) = 0
               /\ \/ tbl'[n][k][u] = 0
                  \/ tbl'[n][k][u] = tbl[n][k][u]
                  \/ tbl'[n][k][u] = Coef(mixed.weights, k, u)
               /\ Coef(mixed.weights, k, u) = 0 => tbl'[n][k][u] \in {0, tbl[n][k][u]}
    <3>1. PICK t \in {Zero, tbl[n][k]}, x \in {Zero, At(mixed.weights, k)} :
             tbl'[n][k] = Plus(t, x)
      BY <1>1, <1>2, <1>4, TakesAt
    <3>2. tbl[n][k][u] \in Int /\ Coef(mixed.weights, k, u) \in Int /\ version[n] \in Nat
      BY <1>1, OnceTypes
    <3>3. Coef(mixed.weights, k, u) # 0 => tbl[n][k][u] = 0
      BY <1>4, <3>2 DEF OnceInv, FoldIsNew
    <3>4. tbl'[n][k][u] = t[u] + x[u]
      BY <3>1 DEF Plus
    <3>5. t[u] \in {0, tbl[n][k][u]} /\ x[u] \in {0, Coef(mixed.weights, k, u)}
      BY <3>1 DEF Zero, Coef
    <3>6. QED
      BY <2>1, <3>2, <3>3, <3>4, <3>5, CoefNone
  <2>3. Trained'
    <3>1. \A m \in Node, k \in Key, u \in Update :
             /\ Bounded(tbl'[m][k][u]) /\ Bounded(Coef(diff'[m], k, u))
             /\ tbl'[m][k][u] # 0 \/ Coef(diff'[m], k, u) # 0 => u \in used
      BY <2>1, <2>2, ZeroBounded DEF OnceInv, Trained
    <3>2. QED
      BY <1>2, <3>1 DEF OnceInv, Trained, Bounded
  <2>4. DiffIsNew'
    <3> SUFFICES ASSUME NEW i \in Node, NEW m \in Node, NEW k \in Key, NEW u \in Update,
                        Coef(diff'[m], k, u) # 0
                 PROVE  /\ version'[i] <= version'[m] => tbl'[i][k][u] = 0
                        /\ Coef(diff'[i], k, u) # 0 => version'[i] = version'[m]
      BY DEF DiffIsNew
    <3>1. m # n /\ diff'[m] = diff[m] /\ version'[m] = version[m]
      BY <2>1, <2>2
    <3>2. CASE i # n
      BY <2>1, <3>1, <3>2 DEF OnceInv, DiffIsNew
    <3>3. CASE i = n
      <4>1. Coef(diff'[n], k, u) = 0
        BY <2>2
      <4>2. version[n] \in Nat /\ version[m] \in Nat
        BY <1>1, OnceTypes
      <4>3. ASSUME version[n] + 1 <= version[m] PROVE tbl'[n][k][u] = 0
        <5>1. tbl[n][k][u] = 0
          BY <3>1, <4>2, <4>3 DEF OnceInv, DiffIsNew
        <5>2. Coef(mixed.weights, k, u) = 0
          BY <1>4, <3>1, <4>2, <4>3 DEF OnceInv, FoldIsNew
        <5>3. QED
          BY <2>2, <5>1, <5>2
      <4>4. QED
        BY <2>1, <3>1, <3>3, <4>1, <4>3
    <3>4. QED
      BY <3>2, <3>3
  <2>5. FoldIsNew'
    <3> SUFFICES ASSUME NEW m \in Node, NEW k \in Key, NEW u \in Update,
                        Coef(mixed.weights, k, u) # 0
                 PROVE  /\ version'[m] <= mixed.expect => tbl'[m][k][u] = 0
                        /\ Coef(diff'[m], k, u) # 0 => version'[m] = mixed.expect
      BY <1>2 DEF FoldIsNew
    <3>1. CASE m # n
      BY <2>1, <3>1 DEF OnceInv, FoldIsNew
    <3>2. CASE m = n
      <4>1. version[n] \in Nat
        BY <1>1, OnceTypes
      <4>2. QED
        BY <1>4, <2>1, <2>2, <3>2, <4>1
    <3>3. QED
      BY <3>1, <3>2
  <2>6. QED
    BY <1>1, <2>3, <2>4, <2>5 DEF OnceInv
<1>5. QED
  BY <1>3, <1>4

\* A node that is emptied, by a restart or by clear.
LEMMA EmptyOnce ==
    ASSUME OnceInv, TypeInv', NEW n \in Node, UNCHANGED <<used, phase, mixed>>,
           tbl' = [tbl EXCEPT ![n] = EmptyTable], diff' = [diff EXCEPT ![n] = NoWeights],
           \A m \in Node \ {n} : version'[m] = version[m]
    PROVE  OnceInv'
<1>1. /\ \A m \in Node \ {n} : tbl'[m] = tbl[m] /\ diff'[m] = diff[m]
      /\ tbl'[n] = EmptyTable /\ diff'[n] = NoWeights
  BY DEF OnceInv, TypeInv, TypeOK
<1>2. \A k \in Key, u \in Update : tbl'[n][k][u] = 0 /\ Coef(diff'[n], k, u) = 0
  BY <1>1, ZeroBounded, CoefNone
<1>3. QED
  BY <1>1, <1>2, LossOnce

LEMMA RestartOnce ==
    ASSUME OnceInv, NEW n \in Node, Restart(n) PROVE OnceInv'
<1>1. TypeInv'
  BY RestartTyped DEF OnceInv
<1>2. UNCHANGED <<used, phase, mixed>> /\ \A m \in Node \ {n} : version'[m] = version[m]
  BY DEF Restart, OnceInv, TypeInv, TypeOK, mixerVars
<1>3. QED
  BY <1>1, <1>2, EmptyOnce DEF Restart

LEMMA ClearOnce ==
    ASSUME OnceInv, NEW n \in Node, Clear(n) PROVE OnceInv'
<1>1. TypeInv'
  BY ClearTyped DEF OnceInv
<1>2. UNCHANGED <<used, phase, mixed>> /\ \A m \in Node \ {n} : version'[m] = version[m]
  BY DEF Clear, mixerVars
<1>3. QED
  BY <1>1, <1>2, EmptyOnce DEF Clear

LEMMA DeleteLabelOnce ==
    ASSUME OnceInv, NEW n \in Node, NEW l \in Label, DeleteLabel(n, l) PROVE OnceInv'
<1>1. TypeInv /\ TypeInv'
  BY DeleteLabelTyped DEF OnceInv
<1>2. Others(n) /\ GivesUp(n) /\ UNCHANGED <<used, phase, mixed>>
  BY <1>1, DeleteLabelGivesUp DEF mixerVars
<1>3. QED
  BY <1>1, <1>2, GivesUpOnce

LEMMA RegisterLabelOnce ==
    ASSUME OnceInv, NEW n \in Node, NEW l \in Label, RegisterLabel(n, l) PROVE OnceInv'
<1>1. TypeInv /\ TypeInv'
  BY RegisterLabelTyped DEF OnceInv
<1>2. Others(n) /\ GivesUp(n) /\ UNCHANGED <<used, phase, mixed>>
  BY <1>1, RegisterLabelGivesUp DEF mixerVars
<1>3. QED
  BY <1>1, <1>2, GivesUpOnce

\* A round begins, turns to putting, ends or loses a put.
LEMMA MixerOnce ==
    ASSUME OnceInv, TypeInv', UNCHANGED <<tbl, diff, version, used>>,
           \/ phase' = "idle" /\ mixed' = NoDiff
           \/ phase' # "idle" /\ (mixed' = mixed \/ mixed' = NoDiff)
    PROVE  OnceInv'
<1>1. \A k \in Key, u \in Update :
          Coef(mixed'.weights, k, u) # 0 => mixed' = mixed
  BY CoefNone
<1>2. \A k \in Key, u \in Update : Bounded(Coef(mixed'.weights, k, u))
  BY CoefNone, ZeroBounded DEF OnceInv, Trained
<1>3. Trained'
  BY <1>1, <1>2 DEF OnceInv, Trained, Bounded
<1>4. DiffIsNew'
  BY DEF OnceInv, DiffIsNew
<1>5. FoldIsNew'
  BY <1>1 DEF OnceInv, FoldIsNew
<1>6. QED
  BY <1>3, <1>4, <1>5 DEF OnceInv

LEMMA NextOnce == ASSUME OnceInv, [Next]_vars PROVE OnceInv'
<1>1. TypeInv /\ TypeInv'
  BY NextTyped DEF OnceInv
<1>2. ASSUME UNCHANGED <<modelVars, used, phase, mixed>> PROVE OnceInv'
  <2>1. phase = "idle" => mixed = NoDiff
    BY DEF OnceInv, FoldIsNew
  <2>2. QED
    BY <1>1, <1>2, <2>1, MixerOnce DEF modelVars
<1>3. CASE StartRound
  BY <1>1, <1>3, MixerOnce DEF StartRound, modelVars
<1>4. CASE StartPut
  BY <1>1, <1>4, MixerOnce DEF StartPut, modelVars
<1>5. CASE EndRound
  BY <1>1, <1>5, MixerOnce DEF EndRound, modelVars
<1>6. ASSUME NEW n \in Node, LosePut(n) PROVE OnceInv'
  BY <1>2, <1>6 DEF LosePut
<1>7. ASSUME NEW n \in Node, NEW v \in Update, NEW f \in Feature, NEW inc \in Label,
             NEW dec \in Label \cup {NoLabel}, Train(n, v, f, inc, dec)
      PROVE  OnceInv'
  BY <1>1, <1>7, TrainTrains, TrainOnce
<1>8. CASE UNCHANGED vars
  BY <1>2, <1>8 DEF vars, modelVars
<1>9. QED
  BY <1>3, <1>4, <1>5, <1>6, <1>7, <1>8, RestartOnce, LoadOnce, GatherOnce,
     PutOnce, RegisterLabelOnce, DeleteLabelOnce, ClearOnce DEF Next

\* No update is mixed into a master twice, for any nodes and updates, whatever
\* puts are lost, models loaded with their differences, labels deleted and
\* nodes restarted: what a node has in its master, it does not give again.
THEOREM CountedOnceHolds == Spec => []CountedOnce
<1>1. Init => OnceInv
  BY InitOnce
<1>2. OnceInv /\ [Next]_vars => OnceInv'
  BY NextOnce
<1>3. OnceInv => CountedOnce
  <2> SUFFICES ASSUME OnceInv, NEW n \in Node, NEW k \in Key, NEW u \in Update
               PROVE  /\ tbl[n][k][u] \in -Unit..Unit
                      /\ tbl[n][k][u] = 0 \/ At(diff[n], k)[u] = 0
    BY DEF CountedOnce
  <2>1. version[n] <= version[n]
    BY OnceTypes DEF OnceInv
  <2>2. QED
    BY <2>1 DEF OnceInv, Trained, Bounded, DiffIsNew, Coef
<1>4. QED
  BY <1>1, <1>2, <1>3, PTL DEF Spec

---------------------------------------------------------------------------
(* What a node gave to a round comes back to it.                           *)

\* Nobody gave a newer difference than the fold is made of.
Asked ==
    \A m \in Node :
        /\ gathered[m].expect <= mixed.expect
        /\ gathered[m] = NoDiff \/ gathered[m].expect >= 0

\* Node m gave some of update u, and at the version of the fold.
Gives(m, k, u) == gathered[m].expect = mixed.expect /\ Coef(gathered[m].weights, k, u) # 0

\* All that there is of an update under a key has one sign s; and the sum that
\* the fold is the average of is made of whole Units, at least one if somebody
\* gave one.
OfDiffs(s, k, u) == \A n \in Node : Coef(diff[n], k, u) \in {0, s * Unit}
OfFold(s, k, u) ==
    \E j \in 0..mixed.count :
        /\ mixed.count * Coef(mixed.weights, k, u) = j * (s * Unit)
        /\ (\E m \in Node : Gives(m, k, u)) => j >= 1
Shares(s, k, u) == OfDiffs(s, k, u) /\ OfFold(s, k, u)

KeepInv ==
    /\ Asked
    /\ phase = "gather" => mixed.count <= Cardinality(Node \ todo)
    /\ \A m \in Node, k \in Key, u \in Update : Coef(gathered[m].weights, k, u) # 0 => u \in used
    /\ \A k \in Key, u \in Update : \E s \in {1, -1} : Shares(s, k, u)

---------------------------------------------------------------------------
\* Asking one more node.
LEMMA AskedGrows ==
    ASSUME NEW S \in SUBSET Node, NEW n \in S
    PROVE  /\ Cardinality(Node \ (S \ {n})) = Cardinality(Node \ S) + 1
           /\ Cardinality(Node \ S) \in Nat /\ Cardinality(Node) \in Nat
           /\ Cardinality(Node \ (S \ {n})) <= Cardinality(Node)
<1>1. IsFiniteSet(Node) /\ IsFiniteSet(Node \ S) /\ IsFiniteSet(Node \ (S \ {n}))
  BY NodeAssumption, FS_Subset
<1>2. Node \ (S \ {n}) = (Node \ S) \cup {n} /\ n \notin Node \ S
  OBVIOUS
<1>3. Cardinality((Node \ S) \cup {n}) = Cardinality(Node \ S) + 1
  BY <1>1, <1>2, FS_AddElement
<1>4. Cardinality(Node \ (S \ {n})) <= Cardinality(Node)
  BY <1>1, FS_Subset
<1>5. QED
  BY <1>1, <1>2, <1>3, <1>4, FS_CardinalityType

\* One more share of whole Units makes a whole number of them again.
LEMMA ExactAverage ==
    ASSUME NEW c \in Nat, c + 1 <= Cardinality(Node), Cardinality(Node) \in Nat,
           NEW s \in {1, -1}, NEW i \in {0, 1}, NEW j \in 0..c,
           NEW b \in Int, c * b = j * (s * Unit)
    PROVE  /\ (c + 1) * ((1 * (i * (s * Unit)) + c * b) \div (1 + c)) = (i + j) * (s * Unit)
           /\ i + j \in 0..(c + 1)
<1>1. Unit \in Nat /\ Unit % (c + 1) = 0 /\ c + 1 \in Nat \ {0}
  BY UnitAssumption
<1>2. PICK q \in Int : Unit = (c + 1) * q
  <2>1. Unit = (c + 1) * (Unit \div (c + 1)) + (Unit % (c + 1)) /\ Unit \div (c + 1) \in Int
    BY <1>1
  <2>2. Unit = (c + 1) * (Unit \div (c + 1))
    BY <1>1, <2>1
  <2>3. QED
    BY <2>1, <2>2
<1>3. PICK p \in Int : p = (i + j) * (s * q)
  OBVIOUS
<1>4. s * Unit = (c + 1) * (s * q)
  BY <1>1, <1>2
<1>5. 1 * (i * (s * Unit)) + c * b = (i + j) * (s * Unit)
  BY <1>1
<1>6. (i + j) * (s * Unit) = (c + 1) * p
  BY <1>1, <1>2, <1>3, <1>4
<1>7. ((c + 1) * p) \div (1 + c) = p
  BY <1>1, <1>3
<1>8. 1 * (i * (s * Unit)) + c * b = (c + 1) * p
  BY <1>5, <1>6
<1>9. (1 * (i * (s * Unit)) + c * b) \div (1 + c) = p
  BY <1>7, <1>8
<1>10. i + j \in 0..(c + 1)
  OBVIOUS
<1>11. QED
  BY <1>6, <1>9, <1>10

\* Nothing is given when nothing was gathered.
LEMMA NoneGiven ==
    ASSUME \A m \in Node : gathered'[m] = NoDiff
    PROVE  \A m \in Node, k \in Key, u \in Update : Coef(gathered'[m].weights, k, u) = 0
  BY CoefNone

LEMMA UnitSigns == \A s \in {1, -1} : s * Unit \in Int /\ s * Unit # 0
  BY UnitAssumption

LEMMA InitKeeps == Init => KeepInv
<1> SUFFICES ASSUME Init PROVE KeepInv
  OBVIOUS
<1>1. /\ mixed = NoDiff /\ phase = "idle" /\ \A m \in Node : gathered[m] = NoDiff /\ diff[m] = NoWeights
  BY DEF Init
<1>2. NoDiff.expect = -1 /\ NoDiff.count = 0
  BY DEF NoDiff, Diffv
<1>3. \A m \in Node, k \in Key, u \in Update :
         Coef(gathered[m].weights, k, u) = 0 /\ Coef(diff[m], k, u) = 0
  BY <1>1, CoefNone
<1>4. \A k \in Key, u \in Update : Coef(mixed.weights, k, u) = 0
  BY <1>1, CoefNone
<1>5. Asked
  BY <1>1, <1>2 DEF Asked
<1>6. ASSUME NEW k \in Key, NEW u \in Update PROVE Shares(1, k, u)
  <2>1. OfDiffs(1, k, u)
    BY <1>3 DEF OfDiffs
  <2>2. 0 \in 0..mixed.count /\ mixed.count * Coef(mixed.weights, k, u) = 0 * (1 * Unit)
    BY <1>1, <1>2, <1>4, UnitAssumption
  <2>3. ~ \E m \in Node : Gives(m, k, u)
    BY <1>3 DEF Gives
  <2>4. QED
    BY <2>1, <2>2, <2>3 DEF Shares, OfFold
<1>7. QED
  BY <1>1, <1>3, <1>5, <1>6 DEF KeepInv

\* A step that leaves the mixer alone, or ends or begins a round, and makes no
\* difference hold what it did not.
LEMMA StayKeeps ==
    ASSUME OnceInv, KeepInv, used' = used \/ used \subseteq used',
           \A n \in Node, k \in Key, u \in Update :
               Coef(diff'[n], k, u) # 0 => \E m \in Node : Coef(diff'[n], k, u) = Coef(diff[m], k, u),
           \/ UNCHANGED mixerVars
           \/ UNCHANGED <<mixed, gathered>> /\ phase' # "gather"
           \/ mixed' = NoDiff /\ \A m \in Node : gathered'[m] = NoDiff
    PROVE  KeepInv'
<1>1. NoDiff.expect = -1 /\ NoDiff.count = 0 /\ NoDiff.expect <= NoDiff.expect
  BY DEF NoDiff, Diffv
<1>2. ASSUME NEW s \in {1, -1}, NEW k \in Key, NEW u \in Update, OfDiffs(s, k, u)
      PROVE  OfDiffs(s, k, u)'
  BY <1>2 DEF OfDiffs
<1>3. CASE UNCHANGED <<mixed, gathered>>
  <2>1. Asked'
    BY <1>3 DEF KeepInv, Asked
  <2>2. phase' = "gather" => mixed'.count <= Cardinality(Node \ todo')
    <3>1. UNCHANGED mixerVars \/ phase' # "gather" \/ mixed' = NoDiff
      OBVIOUS
    <3>2. CASE UNCHANGED mixerVars
      BY <3>2 DEF KeepInv, mixerVars
    <3>3. CASE mixed' = NoDiff
      <4>1. IsFiniteSet(Node \ todo')
        BY NodeAssumption, FS_Subset
      <4>2. Cardinality(Node \ todo') \in Nat
        BY <4>1, FS_CardinalityType
      <4>3. QED
        BY <1>1, <3>3, <4>2
    <3>4. QED
      BY <3>1, <3>2, <3>3
  <2>3. \A m \in Node, k \in Key, u \in Update : Coef(gathered'[m].weights, k, u) # 0 => u \in used'
    BY <1>3 DEF KeepInv
  <2>4. ASSUME NEW k \in Key, NEW u \in Update PROVE \E s \in {1, -1} : Shares(s, k, u)'
    <3>1. PICK s \in {1, -1} : Shares(s, k, u)
      BY DEF KeepInv
    <3>2. OfFold(s, k, u)'
      BY <1>3, <3>1 DEF Shares, OfFold, Gives
    <3>3. QED
      BY <1>2, <3>1, <3>2 DEF Shares
  <2>5. QED
    BY <2>1, <2>2, <2>3, <2>4 DEF KeepInv
<1>4. CASE mixed' = NoDiff /\ \A m \in Node : gathered'[m] = NoDiff
  <2>1. Asked'
    BY <1>1, <1>4 DEF Asked
  <2>2. mixed'.count <= Cardinality(Node \ todo')
    <3>1. IsFiniteSet(Node \ todo')
      BY NodeAssumption, FS_Subset
    <3>2. Cardinality(Node \ todo') \in Nat
      BY <3>1, FS_CardinalityType
    <3>3. QED
      BY <1>1, <1>4, <3>2
  <2>3. \A m \in Node, k \in Key, u \in Update : Coef(gathered'[m].weights, k, u) = 0
    BY <1>4, NoneGiven
  <2>4. ASSUME NEW k \in Key, NEW u \in Update PROVE \E s \in {1, -1} : Shares(s, k, u)'
    <3>1. PICK s \in {1, -1} : Shares(s, k, u)
      BY DEF KeepInv
    <3>2. Coef(mixed'.weights, k, u) = 0 /\ mixed'.count = 0
      BY <1>1, <1>4, CoefNone
    <3>3. 0 \in 0..mixed'.count /\ mixed'.count * Coef(mixed'.weights, k, u) = 0 * (s * Unit)
      BY <3>2, UnitSigns
    <3>4. ~ \E m \in Node : Gives(m, k, u)'
      BY <2>3 DEF Gives
    <3>5. OfFold(s, k, u)'
      BY <3>3, <3>4 DEF OfFold
    <3>6. QED
      BY <1>2, <3>1, <3>5 DEF Shares
  <2>5. QED
    BY <2>1, <2>2, <2>3, <2>4 DEF KeepInv
<1>5. QED
  BY <1>3, <1>4 DEF mixerVars

\* One update adds one Unit of itself to a key, or takes one.
LEMMA DeltaShares ==
    ASSUME NEW v \in Update, NEW f \in Feature, NEW inc \in Label,
           NEW dec \in Label \cup {NoLabel}, NEW k \in Key
    PROVE  \E s \in {1, -1} : Coef(Delta(v, f, inc, dec), k, v) \in {0, s * Unit}
<1> DEFINE d == Delta(v, f, inc, dec)
<1>1. CASE k \in DOMAIN d
  <2>1. PICK s \in {1, -1} : At(d, k) = Once(v, s)
    BY <1>1 DEF At, Delta
  <2>2. Coef(d, k, v) = s * Unit
    BY <2>1 DEF Once, Coef
  <2>3. QED
    BY <2>2
<1>2. CASE k \notin DOMAIN d
  BY <1>2 DEF Coef, At, Zero
<1>3. QED
  BY <1>1, <1>2

LEMMA TrainKeeps ==
    ASSUME OnceInv, KeepInv, NEW n \in Node, NEW v \in Update, NEW delta,
           Trains(n, v, delta),
           \A k \in Key : \E s \in {1, -1} : Coef(delta, k, v) \in {0, s * Unit}
    PROVE  KeepInv'
<1>1. /\ UNCHANGED <<phase, todo, mixed, gathered>>
      /\ used' = used \cup {v} /\ v \notin used
      /\ \A m \in Node \ {n} : diff'[m] = diff[m]
      /\ IsPartialTable(delta) /\ IsPartialTable(diff[n])
  BY OnceTypes DEF Trains, Others, OnceInv, mixerVars
<1>2. \A k \in Key, u \in Update :
         Coef(diff'[n], k, u) \in {0, Coef(diff[n], k, u) + Coef(delta, k, u)}
  BY DEF Trains
<1>3. \A m \in Node, k \in Key :
         /\ Coef(diff[m], k, v) = 0 /\ Coef(mixed.weights, k, v) = 0
         /\ Coef(gathered[m].weights, k, v) = 0
  BY <1>1 DEF OnceInv, Trained, KeepInv
<1>4. \A k \in Key, u \in Update : Coef(delta, k, u) \in Int /\ Coef(diff[n], k, u) \in Int
  BY <1>1, CoefInt
<1>5. ASSUME NEW k \in Key, NEW u \in Update PROVE \E s \in {1, -1} : Shares(s, k, u)'
  <2>1. CASE u = v
    <3>1. PICK s \in {1, -1} : Coef(delta, k, v) \in {0, s * Unit}
      OBVIOUS
    <3>2. OfDiffs(s, k, v)'
      <4>1. Coef(diff'[n], k, v) \in {0, Coef(delta, k, v)}
        <5>1. Coef(diff'[n], k, v) \in {0, Coef(diff[n], k, v) + Coef(delta, k, v)}
          BY <1>2
        <5>2. QED
          BY <1>3, <1>4, <5>1
      <4>2. ASSUME NEW m \in Node PROVE Coef(diff'[m], k, v) \in {0, s * Unit}
        BY <1>1, <1>3, <3>1, <4>1
      <4>3. QED
        BY <4>2 DEF OfDiffs
    <3>3. mixed.count \in Nat
      BY DEF OnceInv, TypeInv, TypeOK, IsDiffv
    <3>4. 0 \in 0..mixed.count /\ mixed.count * Coef(mixed.weights, k, v) = 0 * (s * Unit)
      BY <1>3, <3>3, UnitSigns
    <3>5. ~ \E m \in Node : Gives(m, k, v)
      BY <1>3 DEF Gives
    <3>6. OfFold(s, k, v)'
      BY <1>1, <3>4, <3>5 DEF OfFold, Gives
    <3>7. QED
      BY <2>1, <3>2, <3>6 DEF Shares
  <2>2. CASE u # v
    <3>1. PICK s \in {1, -1} : Shares(s, k, u)
      BY DEF KeepInv
    <3>2. Coef(diff'[n], k, u) \in {0, Coef(diff[n], k, u)}
      <4>1. Coef(delta, k, u) = 0
        BY <2>2 DEF Trains
      <4>2. QED
        BY <1>2, <1>4, <4>1
    <3>3. OfDiffs(s, k, u)'
      BY <1>1, <3>1, <3>2 DEF Shares, OfDiffs
    <3>4. OfFold(s, k, u)'
      BY <1>1, <3>1 DEF Shares, OfFold, Gives
    <3>5. QED
      BY <3>3, <3>4 DEF Shares
  <2>3. QED
    BY <2>1, <2>2
<1>6. QED
  BY <1>1, <1>5 DEF KeepInv, Asked

LEMMA GatherKeeps ==
    ASSUME OnceInv, KeepInv, NEW n \in Node, Gather(n) PROVE KeepInv'
<1> DEFINE d == GetDiff(n)
<1>1. /\ UNCHANGED <<diff, used, phase>> /\ phase = "gather"
      /\ n \in todo /\ todo' = todo \ {n} /\ todo \in SUBSET Node
      /\ mixed' = IF mixed = NoDiff THEN d ELSE Mix(d, mixed)
      /\ gathered'[n] = d
      /\ \A m \in Node \ {n} : gathered'[m] = gathered[m]
  BY DEF Gather, modelVars, OnceInv, TypeInv, TypeOK
<1>2. /\ d.expect = version[n] /\ d.weights = diff[n] /\ d.count = 1 /\ IsDiffv(d)
      /\ version[n] \in Nat
  BY ShareTyped, OnceTypes DEF GetDiff, Diffv, OnceInv, TypeInv
<1>3. IsDiffv(mixed) /\ mixed.count \in Nat /\ mixed.expect \in Int
  BY DEF OnceInv, TypeInv, TypeOK, IsDiffv
<1>4. NoDiff.expect = -1 /\ NoDiff.count = 0
  BY DEF NoDiff, Diffv
<1>5. /\ Cardinality(Node \ todo') = Cardinality(Node \ todo) + 1
      /\ Cardinality(Node \ todo) \in Nat /\ Cardinality(Node) \in Nat
      /\ Cardinality(Node \ todo') <= Cardinality(Node)
  BY <1>1, AskedGrows
<1>6. mixed.count <= Cardinality(Node \ todo)
  BY <1>1 DEF KeepInv
<1>7. \A m \in Node : gathered[m].expect \in Int
  BY DEF OnceInv, TypeInv, TypeOK, IsDiffv
\* The fold becomes the share, the average of both, or stays.
<1>8. \/ mixed' = d /\ mixed.expect < d.expect
      \/ mixed' = Merge(d, mixed, 1 + mixed.count) /\ mixed.expect = d.expect /\ mixed.count >= 1
      \/ mixed' = mixed /\ mixed.expect > d.expect
  <2>1. CASE mixed = NoDiff
    BY <1>1, <1>2, <1>4, <2>1
  <2>2. CASE mixed # NoDiff
    <3>1. mixed.count >= 1
      BY <2>2 DEF OnceInv, TypeInv
    <3>2. QED
      BY <1>1, <1>2, <1>3, <2>2, <3>1 DEF Mix
  <2>3. QED
    BY <2>1, <2>2
<1>9. /\ mixed'.expect \in Int /\ mixed'.expect >= mixed.expect /\ mixed'.expect >= d.expect
      /\ mixed'.count \in Nat /\ mixed'.count <= 1 + mixed.count
  <2>1. CASE mixed' = d /\ mixed.expect < d.expect
    BY <1>2, <1>3, <2>1
  <2>2. CASE mixed' = Merge(d, mixed, 1 + mixed.count) /\ mixed.expect = d.expect
    <3>1. mixed'.expect = mixed.expect /\ mixed'.count = 1 + mixed.count
      BY <2>2 DEF Merge, Diffv
    <3>2. QED
      BY <1>3, <2>2, <3>1
  <2>3. CASE mixed' = mixed /\ mixed.expect > d.expect
    BY <1>2, <1>3, <2>3
  <2>4. QED
    BY <1>8, <2>1, <2>2, <2>3
<1>10. Asked'
  <2>1. ASSUME NEW m \in Node
        PROVE  /\ gathered'[m].expect <= mixed'.expect
               /\ gathered'[m] = NoDiff \/ gathered'[m].expect >= 0
    <3>1. CASE m = n
      BY <1>1, <1>2, <1>9, <3>1
    <3>2. CASE m # n
      <4>1. gathered'[m] = gathered[m] /\ gathered[m].expect <= mixed.expect
        BY <1>1, <3>2 DEF KeepInv, Asked
      <4>2. QED
        BY <1>3, <1>7, <1>9, <4>1 DEF KeepInv, Asked
    <3>3. QED
      BY <3>1, <3>2
  <2>2. QED
    BY <2>1 DEF Asked
<1>11. mixed'.count <= Cardinality(Node \ todo')
  BY <1>3, <1>5, <1>6, <1>9
<1>12. \A m \in Node, k \in Key, u \in Update : Coef(gathered'[m].weights, k, u) # 0 => u \in used'
  BY <1>1, <1>2 DEF KeepInv, OnceInv, Trained
<1>13. ASSUME NEW k \in Key, NEW u \in Update PROVE \E s \in {1, -1} : Shares(s, k, u)'
  <2>1. PICK s \in {1, -1} : OfDiffs(s, k, u) /\ OfFold(s, k, u)
    BY DEF KeepInv, Shares
  <2>2. PICK j \in 0..mixed.count :
           /\ mixed.count * Coef(mixed.weights, k, u) = j * (s * Unit)
           /\ (\E m \in Node : Gives(m, k, u)) => j >= 1
    BY <2>1 DEF OfFold
  <2>3. PICK i \in {0, 1} : Coef(d.weights, k, u) = i * (s * Unit)
    <3>1. Coef(d.weights, k, u) \in {0, s * Unit}
      BY <1>2, <2>1 DEF OfDiffs
    <3>2. 0 = 0 * (s * Unit) /\ s * Unit = 1 * (s * Unit)
      BY UnitSigns
    <3>3. QED
      BY <3>1, <3>2
  <2>4. Gives(n, k, u)' => i = 1
    <3>1. i = 0 => Coef(d.weights, k, u) = 0
      BY <2>3, UnitSigns
    <3>2. QED
      BY <1>1, <3>1 DEF Gives
  <2>5. OfFold(s, k, u)'
    <3>1. CASE mixed' = d /\ mixed.expect < d.expect
      <4>1. ASSUME NEW m \in Node, Gives(m, k, u)' PROVE m = n
        BY <1>1, <1>2, <1>3, <1>7, <3>1, <4>1 DEF Gives, KeepInv, Asked
      <4>2. mixed'.count * Coef(mixed'.weights, k, u) = i * (s * Unit)
        BY <1>2, <2>3, <3>1, UnitSigns
      <4>3. i \in 0..mixed'.count
        BY <1>2, <3>1
      <4>4. (\E m \in Node : Gives(m, k, u)') => i >= 1
        BY <2>4, <4>1
      <4>5. QED
        BY <4>2, <4>3, <4>4 DEF OfFold
    <3>2. CASE /\ mixed' = Merge(d, mixed, 1 + mixed.count) /\ mixed.expect = d.expect
               /\ mixed.count >= 1
      <4>1. Coef(mixed'.weights, k, u) =
                (1 * Coef(d.weights, k, u) + mixed.count * Coef(mixed.weights, k, u)) \div (1 + mixed.count)
        <5>1. PICK x : x = 1 + mixed.count
          OBVIOUS
        <5>2. d.count + mixed.count >= 1
          BY <1>2, <1>3
        <5>3. Coef(Merge(d, mixed, x).weights, k, u) =
                  (d.count * Coef(d.weights, k, u) + mixed.count * Coef(mixed.weights, k, u))
                      \div (d.count + mixed.count)
          <6> HIDE DEF d
          <6>1. QED
            BY <1>2, <1>3, <5>2, CoefOfMerge
        <5>4. mixed' = Merge(d, mixed, x) /\ d.count = 1
          BY <1>2, <3>2, <5>1
        <5>5. QED
          BY <5>3, <5>4
      <4>2. PICK b \in Int : b = Coef(mixed.weights, k, u)
        BY OnceTypes DEF OnceInv
      <4>3. PICK c \in Nat : c = mixed.count
        BY <1>3
      <4>4. c + 1 <= Cardinality(Node)
        BY <1>5, <1>6, <4>3
      <4>5. /\ (c + 1) * ((1 * (i * (s * Unit)) + c * b) \div (1 + c)) = (i + j) * (s * Unit)
            /\ i + j \in 0..(c + 1)
        BY <1>5, <2>2, <4>2, <4>3, <4>4, ExactAverage
      <4>6. mixed'.count = c + 1 /\ mixed'.expect = mixed.expect
        BY <1>3, <3>2, <4>3 DEF Merge, Diffv
      <4>7. mixed'.count * Coef(mixed'.weights, k, u) = (i + j) * (s * Unit)
        BY <2>3, <4>1, <4>2, <4>3, <4>5, <4>6
      <4>8. ASSUME NEW m \in Node, Gives(m, k, u)' PROVE i + j >= 1
        <5>1. CASE m = n
          BY <2>4, <4>8, <5>1
        <5>2. CASE m # n
          <6>1. Gives(m, k, u)
            BY <1>1, <4>6, <4>8, <5>2 DEF Gives
          <6>2. QED
            BY <2>2, <6>1
        <5>3. QED
          BY <5>1, <5>2
      <4>9. i + j \in 0..mixed'.count
        BY <4>5, <4>6
      <4>10. QED
        BY <4>7, <4>8, <4>9 DEF OfFold
    <3>3. CASE mixed' = mixed /\ mixed.expect > d.expect
      <4>1. ASSUME NEW m \in Node, Gives(m, k, u)' PROVE Gives(m, k, u)
        BY <1>1, <1>2, <1>3, <3>3, <4>1 DEF Gives
      <4>2. QED
        BY <2>2, <3>3, <4>1 DEF OfFold
    <3>4. QED
      BY <1>8, <3>1, <3>2, <3>3
  <2>6. OfDiffs(s, k, u)'
    BY <1>1, <2>1 DEF OfDiffs
  <2>7. QED
    BY <2>5, <2>6 DEF Shares
<1>14. QED
  BY <1>10, <1>11, <1>12, <1>13 DEF KeepInv

LEMMA NextKeeps ==
    ASSUME OnceInv, KeepInv, [Next]_vars PROVE KeepInv'
<1> DEFINE Less == \A n \in Node, k \in Key, u \in Update :
                      Coef(diff'[n], k, u) # 0 =>
                          \E m \in Node : Coef(diff'[n], k, u) = Coef(diff[m], k, u)
<1>1. ASSUME NEW n \in Node, Restart(n) \/ Clear(n) PROVE KeepInv'
  <2>1. /\ UNCHANGED <<used, mixerVars>>
        /\ \A m \in Node : diff'[m] = diff[m] \/ diff'[m] = NoWeights
    BY <1>1 DEF Restart, Clear, OnceInv, TypeInv, TypeOK
  <2>2. Less
    BY <2>1, CoefNone
  <2>3. QED
    BY <2>1, <2>2, StayKeeps
<1>2. ASSUME NEW n \in Node, NEW i \in Node, Load(n, i) PROVE KeepInv'
  <2>1. /\ UNCHANGED <<used, mixerVars>>
        /\ \A m \in Node : diff'[m] = diff[m] \/ diff'[m] = diff[i]
    BY <1>2 DEF Load, OnceInv, TypeInv, TypeOK
  <2>2. Less
    BY <2>1
  <2>3. QED
    BY <2>1, <2>2, StayKeeps
<1>3. ASSUME NEW n \in Node, Others(n), GivesUp(n) PROVE Less
  <2>1. \A m \in Node \ {n} : diff'[m] = diff[m]
    BY <1>3 DEF Others
  <2>2. PICK r : diff'[n] = WithoutLabels(diff[n], r.gone)
    BY <1>3 DEF GivesUp
  <2>3. IsPartialTable(diff[n])
    BY OnceTypes DEF OnceInv
  <2>4. \A k \in Key, u \in Update : Coef(diff'[n], k, u) \in {0, Coef(diff[n], k, u)}
    BY <2>2, <2>3, CoefWithout
  <2>5. QED
    BY <2>1, <2>4
<1>4. ASSUME NEW n \in Node, NEW l \in Label, DeleteLabel(n, l) \/ RegisterLabel(n, l)
      PROVE  KeepInv'
  <2>1. Others(n) /\ GivesUp(n) /\ UNCHANGED <<used, mixerVars>>
    BY <1>4, DeleteLabelGivesUp, RegisterLabelGivesUp DEF OnceInv
  <2>2. Less
    BY <1>3, <2>1
  <2>3. QED
    BY <2>1, <2>2, StayKeeps
<1>5. ASSUME NEW n \in Node, Put(n) PROVE KeepInv'
  <2>1. /\ UNCHANGED <<used, mixed, gathered>> /\ phase' # "gather" /\ Others(n)
        /\ mixed.expect = version[n] => Takes(n)
        /\ mixed.expect # version[n] => GivesUp(n)
    BY <1>5, PutTakes DEF OnceInv
  <2>2. CASE mixed.expect = version[n]
    <3>1. \A m \in Node : diff'[m] = diff[m] \/ diff'[m] = NoWeights
      BY <2>1, <2>2 DEF Takes, Others
    <3>2. Less
      BY <3>1, CoefNone
    <3>3. QED
      BY <2>1, <3>2, StayKeeps
  <2>3. CASE mixed.expect # version[n]
    <3>1. Less
      BY <1>3, <2>1, <2>3
    <3>2. QED
      BY <2>1, <3>1, StayKeeps
  <2>4. QED
    BY <2>2, <2>3
<1>6. ASSUME NEW n \in Node, LosePut(n) PROVE KeepInv'
  <2>1. UNCHANGED <<used, diff, mixed, gathered>> /\ phase' # "gather" /\ Less
    BY <1>6 DEF LosePut, modelVars
  <2>2. QED
    BY <2>1, StayKeeps
<1>7. CASE StartPut
  <2>1. UNCHANGED <<used, diff, mixed, gathered>> /\ phase' # "gather" /\ Less
    BY <1>7 DEF StartPut, modelVars
  <2>2. QED
    BY <2>1, StayKeeps
<1>8. CASE StartRound \/ EndRound
  <2>1. /\ UNCHANGED <<used, diff>> /\ Less
        /\ mixed' = NoDiff /\ \A m \in Node : gathered'[m] = NoDiff
    BY <1>8 DEF StartRound, EndRound, modelVars
  <2>2. QED
    BY <2>1, StayKeeps
<1>9. CASE UNCHANGED vars
  <2>1. UNCHANGED <<used, diff, mixerVars>> /\ Less
    BY <1>9 DEF vars, mixerVars
  <2>2. QED
    BY <2>1, StayKeeps
<1>10. ASSUME NEW n \in Node, NEW v \in Update, NEW f \in Feature, NEW inc \in Label,
              NEW dec \in Label \cup {NoLabel}, Train(n, v, f, inc, dec)
       PROVE  KeepInv'
  <2>1. PICK delta : delta = Delta(v, f, inc, dec)
    OBVIOUS
  <2>2. Trains(n, v, delta)
    BY <1>10, <2>1, TrainTrains DEF OnceInv
  <2>3. \A k \in Key : \E s \in {1, -1} : Coef(delta, k, v) \in {0, s * Unit}
    BY <2>1, DeltaShares
  <2>4. QED
    BY <2>2, <2>3, TrainKeeps
<1>11. QED
  BY <1>1, <1>2, <1>4, <1>5, <1>6, <1>7, <1>8, <1>9, <1>10, GatherKeeps DEF Next

\* Whatever a node gave to a round, the put it takes at that version brings
\* back a share of it, under every label its unlearner has in memory after the
\* put: the average of updates of one sign does not vanish, the master had none
\* of them, and the filter of put_diff drops no label that is in memory.
THEOREM GatheredSurvivesHere == Spec => GatheredSurvives
<1> DEFINE Survives ==
        \A n \in Node :
            Put(n) /\ mixed.expect = version[n] /\ gathered[n].expect = version[n] =>
                \A k \in DOMAIN gathered[n].weights, u \in Update :
                    /\ gathered[n].weights[k][u] # 0
                    /\ HasUnlearner => k[2] \in memory'[n]
                    => tbl'[n][k][u] # 0
<1>1. Init => OnceInv /\ KeepInv
  BY InitOnce, InitKeeps
<1>2. OnceInv /\ KeepInv /\ [Next]_vars => (OnceInv /\ KeepInv)'
  BY NextOnce, NextKeeps
<1>3. OnceInv /\ KeepInv => Survives
  <2> SUFFICES ASSUME OnceInv, KeepInv, NEW n \in Node,
                      Put(n), mixed.expect = version[n], gathered[n].expect = version[n],
                      NEW k \in DOMAIN gathered[n].weights, NEW u \in Update,
                      gathered[n].weights[k][u] # 0,
                      HasUnlearner => k[2] \in memory'[n]
               PROVE  tbl'[n][k][u] # 0
    OBVIOUS
  <2>1. k \in Key
    BY DEF OnceInv, TypeInv, TypeOK, IsDiffv, IsPartialTable
  <2>2. Gives(n, k, u)
    BY DEF Gives, Coef, At
  <2>3. PICK s \in {1, -1}, j \in 0..mixed.count :
           mixed.count * Coef(mixed.weights, k, u) = j * (s * Unit) /\ j >= 1
    BY <2>1, <2>2 DEF KeepInv, Shares, OfFold
  <2>4. mixed.count \in Nat /\ Coef(mixed.weights, k, u) \in Int /\ version[n] \in Nat
    BY <2>1, OnceTypes DEF OnceInv, TypeInv, TypeOK, IsDiffv
  <2>5. Coef(mixed.weights, k, u) # 0
    <3>1. j * (s * Unit) # 0
      BY <2>3, <2>4, UnitAssumption
    <3>2. QED
      BY <2>3, <2>4, <3>1
  <2>6. tbl[n][k][u] = 0
    BY <2>1, <2>4, <2>5 DEF OnceInv, FoldIsNew
  <2>7. TypeInv /\ Takes(n) /\ UNCHANGED settings
    BY PutTakes DEF OnceInv
  <2>8. PICK t \in {Zero, tbl[n][k]}, x \in {Zero, At(mixed.weights, k)} :
           tbl'[n][k] = Plus(t, x) /\ x = At(mixed.weights, k)
    BY <2>1, <2>7, TakesAt
  <2>9. tbl'[n][k][u] = t[u] + Coef(mixed.weights, k, u)
    BY <2>8 DEF Plus, Coef
  <2>10. t[u] = 0
    BY <2>6, <2>8 DEF Zero
  <2>11. QED
    BY <2>4, <2>5, <2>9, <2>10
<1>4. QED
  BY <1>1, <1>2, <1>3, PTL DEF Spec, GatheredSurvives

---------------------------------------------------------------------------
(* The fold is the plain average of the newest differences.                *)

\* The nodes the fold is made of, and what each of them gave of an update.
Givers == {m \in Node : gathered[m] # NoDiff /\ gathered[m].expect = mixed.expect}
Given(k, u) == [m \in Node |-> Coef(gathered[m].weights, k, u)]

AverageInv ==
    /\ phase = "gather" => \A m \in todo : gathered[m] = NoDiff
    /\ \A m \in Node, k \in Key, u \in Update : Coef(gathered[m].weights, k, u) \in Int
    /\ mixed.count = Cardinality(Givers)
    /\ \A k \in Key, u \in Update :
          mixed.count * Coef(mixed.weights, k, u) = SumFunctionOnSet(Given(k, u), Givers)

LEMMA GiversFinite == IsFiniteSet(Givers) /\ Givers \in SUBSET Node
<1>1. Givers \in SUBSET Node
  BY DEF Givers
<1>2. QED
  BY <1>1, NodeAssumption, FS_Subset

\* Nobody was asked: an average of nothing.
LEMMA NobodyAverages ==
    ASSUME mixed' = NoDiff, todo' \subseteq Node, \A m \in Node : gathered'[m] = NoDiff
    PROVE  AverageInv'
<1>1. Givers' = {}
  BY DEF Givers
<1>2. \A m \in Node, k \in Key, u \in Update : Coef(gathered'[m].weights, k, u) = 0
  BY NoneGiven
<1>3. mixed'.count = 0 /\ \A k \in Key, u \in Update : Coef(mixed'.weights, k, u) = 0
  BY CoefNone DEF NoDiff, Diffv
<1>4. Cardinality({}) = 0
  BY FS_EmptySet
<1>5. ASSUME NEW k \in Key, NEW u \in Update
      PROVE  mixed'.count * Coef(mixed'.weights, k, u) = SumFunctionOnSet(Given(k, u)', {})
  <2>1. SumFunctionOnSet(Given(k, u)', {}) = 0
    BY SumOfNone
  <2>2. QED
    BY <1>3, <2>1
<1>6. phase' = "gather" => \A m \in todo' : gathered'[m] = NoDiff
  OBVIOUS
<1>7. QED
  BY <1>1, <1>2, <1>3, <1>4, <1>5, <1>6 DEF AverageInv

LEMMA InitAverages == Init => AverageInv
<1> SUFFICES ASSUME Init PROVE AverageInv
  OBVIOUS
<1>1. /\ mixed = NoDiff /\ phase = "idle" /\ \A m \in Node : gathered[m] = NoDiff
  BY DEF Init
<1>2. Givers = {}
  BY <1>1 DEF Givers
<1>3. \A m \in Node, k \in Key, u \in Update : Coef(gathered[m].weights, k, u) = 0
  BY <1>1, CoefNone
<1>4. mixed.count = 0 /\ \A k \in Key, u \in Update : Coef(mixed.weights, k, u) = 0
  BY <1>1, CoefNone DEF NoDiff, Diffv
<1>5. Cardinality({}) = 0
  BY FS_EmptySet
<1>6. ASSUME NEW k \in Key, NEW u \in Update
      PROVE  mixed.count * Coef(mixed.weights, k, u) = SumFunctionOnSet(Given(k, u), {})
  <2>1. SumFunctionOnSet(Given(k, u), {}) = 0
    BY SumOfNone
  <2>2. QED
    BY <1>4, <2>1
<1>7. QED
  BY <1>1, <1>2, <1>3, <1>4, <1>5, <1>6 DEF AverageInv

\* The fold becomes the new share, the average of both, or stays.
LEMMA FoldMoves ==
    ASSUME OnceInv, NEW n \in Node, Gather(n)
    PROVE  \/ mixed' = GetDiff(n) /\ mixed.expect < version[n]
           \/ /\ mixed' = Merge(GetDiff(n), mixed, 1 + mixed.count)
              /\ mixed.expect = version[n] /\ mixed.count >= 1
           \/ mixed' = mixed /\ mixed.expect > version[n]
<1> DEFINE d == GetDiff(n)
<1>1. d.expect = version[n] /\ d.count = 1 /\ version[n] \in Nat
  BY OnceTypes DEF GetDiff, Diffv, OnceInv
<1>2. mixed.count \in Nat /\ mixed.expect \in Int
  BY DEF OnceInv, TypeInv, TypeOK, IsDiffv
<1>3. mixed' = IF mixed = NoDiff THEN d ELSE Mix(d, mixed)
  BY DEF Gather
<1>4. CASE mixed = NoDiff
  BY <1>1, <1>3, <1>4 DEF NoDiff, Diffv
<1>5. CASE mixed # NoDiff
  <2>1. mixed.count >= 1
    BY <1>5 DEF OnceInv, TypeInv
  <2> HIDE DEF d
  <2>2. mixed' = IF d.expect = mixed.expect THEN Merge(d, mixed, d.count + mixed.count)
                 ELSE IF d.expect > mixed.expect THEN d ELSE mixed
    BY <1>3, <1>5 DEF Mix
  <2>3. QED
    BY <1>1, <1>2, <2>1, <2>2 DEF d
<1>6. QED
  BY <1>4, <1>5

\* The division of the average is exact: the fold and the share are made of
\* whole Units of one sign.
LEMMA AverageIsExact ==
    ASSUME OnceInv, KeepInv, NEW n \in Node, Gather(n), mixed.count >= 1,
           NEW k \in Key, NEW u \in Update
    PROVE  (1 + mixed.count) * Coef(Merge(GetDiff(n), mixed, 1 + mixed.count).weights, k, u)
               = Coef(diff[n], k, u) + mixed.count * Coef(mixed.weights, k, u)
<1> DEFINE d == GetDiff(n)
           x == 1 + mixed.count
<1>1. d.weights = diff[n] /\ d.count = 1 /\ IsDiffv(d) /\ IsDiffv(mixed) /\ mixed.count \in Nat
  BY ShareTyped DEF GetDiff, Diffv, OnceInv, TypeInv, TypeOK, IsDiffv
<1>2. /\ n \in todo /\ todo \in SUBSET Node /\ mixed.count <= Cardinality(Node \ todo)
  BY DEF Gather, KeepInv, OnceInv, TypeInv, TypeOK
<1>3. mixed.count + 1 <= Cardinality(Node) /\ Cardinality(Node) \in Nat
  <2>1. /\ Cardinality(Node \ (todo \ {n})) = Cardinality(Node \ todo) + 1
        /\ Cardinality(Node \ todo) \in Nat /\ Cardinality(Node) \in Nat
        /\ Cardinality(Node \ (todo \ {n})) <= Cardinality(Node)
    BY <1>2, AskedGrows
  <2>2. QED
    BY <1>1, <1>2, <2>1
<1>4. PICK s \in {1, -1} : OfDiffs(s, k, u) /\ OfFold(s, k, u)
  BY DEF KeepInv, Shares
<1>5. PICK j \in 0..mixed.count : mixed.count * Coef(mixed.weights, k, u) = j * (s * Unit)
  BY <1>4 DEF OfFold
<1>6. PICK i \in {0, 1} : Coef(d.weights, k, u) = i * (s * Unit)
  <2>1. Coef(d.weights, k, u) \in {0, s * Unit}
    BY <1>1, <1>4 DEF OfDiffs
  <2>2. 0 = 0 * (s * Unit) /\ s * Unit = 1 * (s * Unit)
    BY UnitSigns
  <2>3. QED
    BY <2>1, <2>2
<1>7. Coef(Merge(d, mixed, x).weights, k, u) =
          (1 * Coef(d.weights, k, u) + mixed.count * Coef(mixed.weights, k, u)) \div (1 + mixed.count)
  <2>1. d.count + mixed.count >= 1
    BY <1>1
  <2> HIDE DEF d, x
  <2>2. Coef(Merge(d, mixed, x).weights, k, u) =
            (d.count * Coef(d.weights, k, u) + mixed.count * Coef(mixed.weights, k, u))
                \div (d.count + mixed.count)
    BY <1>1, <2>1, CoefOfMerge
  <2>3. QED
    BY <1>1, <2>2
<1> HIDE DEF d
<1>8. PICK b \in Int : b = Coef(mixed.weights, k, u)
  BY OnceTypes DEF OnceInv
<1>9. PICK c \in Nat : c = mixed.count
  BY <1>1
<1>10. (c + 1) * ((1 * (i * (s * Unit)) + c * b) \div (1 + c)) = (i + j) * (s * Unit)
  BY <1>3, <1>5, <1>8, <1>9, ExactAverage
<1>11. (i + j) * (s * Unit) = i * (s * Unit) + j * (s * Unit)
  <2>1. PICK y \in Int : y = s * Unit
    BY UnitSigns
  <2>2. (i + j) * y = i * y + j * y
    BY <1>9
  <2>3. QED
    BY <2>1, <2>2
<1>12. (1 + c) * ((1 * Coef(d.weights, k, u) + c * b) \div (1 + c)) = Coef(d.weights, k, u) + c * b
  BY <1>5, <1>6, <1>8, <1>9, <1>10, <1>11
<1>13. QED
  BY <1>1, <1>7, <1>8, <1>9, <1>12 DEF d

LEMMA GatherAverages ==
    ASSUME OnceInv, KeepInv, AverageInv, NEW n \in Node, Gather(n) PROVE AverageInv'
<1> DEFINE d == GetDiff(n)
<1>1. /\ phase = "gather" /\ n \in todo /\ todo' = todo \ {n} /\ todo \in SUBSET Node
      /\ gathered[n] = NoDiff /\ gathered'[n] = d
      /\ \A m \in Node \ {n} : gathered'[m] = gathered[m]
  BY DEF Gather, AverageInv, OnceInv, TypeInv, TypeOK
<1>2. /\ d.expect = version[n] /\ d.weights = diff[n] /\ d.count = 1 /\ version[n] \in Nat
      /\ \A k \in Key, u \in Update : Coef(d.weights, k, u) \in Int
  BY OnceTypes DEF GetDiff, Diffv, OnceInv
<1>3. d # NoDiff
  BY <1>2 DEF NoDiff, Diffv
<1>4. mixed.count \in Nat /\ mixed.expect \in Int /\ \A m \in Node : gathered[m].expect \in Int
  BY DEF OnceInv, TypeInv, TypeOK, IsDiffv
<1>5. \A m \in todo' : gathered'[m] = NoDiff
  BY <1>1 DEF AverageInv
<1>6. ASSUME NEW m \in Node, NEW k \in Key, NEW u \in Update
      PROVE  Coef(gathered'[m].weights, k, u) \in Int
  BY <1>1, <1>2 DEF AverageInv
<1>7. IsFiniteSet(Givers) /\ Givers \in SUBSET Node /\ n \notin Givers
  BY <1>1, GiversFinite DEF Givers
<1>8. ASSUME NEW k \in Key, NEW u \in Update
      PROVE  /\ Given(k, u)'[n] = Coef(d.weights, k, u)
             /\ \A m \in Givers : Given(k, u)'[m] = Given(k, u)[m] /\ Given(k, u)[m] \in Int
             /\ SumFunctionOnSet(Given(k, u)', Givers) = SumFunctionOnSet(Given(k, u), Givers)
  <2>1. Given(k, u)'[n] = Coef(d.weights, k, u)
    BY <1>1 DEF Given
  <2>2. \A m \in Givers : Given(k, u)'[m] = Given(k, u)[m] /\ Given(k, u)[m] \in Int
    BY <1>1, <1>7 DEF Given, AverageInv
  <2>3. SumFunctionOnSet(Given(k, u)', Givers) = SumFunctionOnSet(Given(k, u), Givers)
    BY <1>7, <2>2, SumSame
  <2>4. QED
    BY <2>1, <2>2, <2>3
<1>9. /\ mixed'.count = Cardinality(Givers')
      /\ \A k \in Key, u \in Update :
            mixed'.count * Coef(mixed'.weights, k, u) = SumFunctionOnSet(Given(k, u)', Givers')
  <2>1. CASE mixed' = d /\ mixed.expect < version[n]
    <3>1. Givers' = {n}
      BY <1>1, <1>2, <1>3, <1>4, <2>1 DEF Givers, KeepInv, Asked
    <3>2. Cardinality({n}) = 1 /\ IsFiniteSet({n})
      BY FS_Singleton
    <3>3. ASSUME NEW k \in Key, NEW u \in Update
          PROVE  SumFunctionOnSet(Given(k, u)', {n}) = Coef(d.weights, k, u)
      <4>1. \A m \in {n} : Given(k, u)'[m] \in Int
        BY <1>2, <1>8
      <4>2. SumFunctionOnSet(Given(k, u)', {n})
              = Given(k, u)'[n] + SumFunctionOnSet(Given(k, u)', {n} \ {n})
        BY <3>2, <4>1, SumTake
      <4>3. SumFunctionOnSet(Given(k, u)', {n} \ {n}) = 0
        <5>1. {n} \ {n} = {}
          OBVIOUS
        <5>2. QED
          BY <5>1, SumOfNone
      <4>4. Given(k, u)'[n] = Coef(d.weights, k, u) /\ Coef(d.weights, k, u) \in Int
        BY <1>2, <1>8
      <4>5. QED
        BY <4>2, <4>3, <4>4
    <3>4. ASSUME NEW k \in Key, NEW u \in Update
          PROVE  mixed'.count * Coef(mixed'.weights, k, u) = SumFunctionOnSet(Given(k, u)', Givers')
      <4>1. Coef(d.weights, k, u) \in Int
        BY <1>2
      <4>2. SumFunctionOnSet(Given(k, u)', Givers') = Coef(d.weights, k, u)
        BY <3>1, <3>3
      <4> HIDE DEF d
      <4>3. QED
        BY <1>2, <2>1, <4>1, <4>2
    <3>5. QED
      BY <1>2, <2>1, <3>1, <3>2, <3>4
  <2>2. CASE /\ mixed' = Merge(d, mixed, 1 + mixed.count)
             /\ mixed.expect = version[n] /\ mixed.count >= 1
    <3>1. mixed'.expect = mixed.expect /\ mixed'.count = 1 + mixed.count
      BY <2>2 DEF Merge, Diffv
    <3>2. Givers' = Givers \cup {n}
      BY <1>1, <1>2, <1>3, <2>2, <3>1 DEF Givers
    <3>3. Cardinality(Givers \cup {n}) = Cardinality(Givers) + 1
      BY <1>7, FS_AddElement
    <3>4. mixed'.count = Cardinality(Givers')
      BY <1>4, <3>1, <3>2, <3>3 DEF AverageInv
    <3>5. ASSUME NEW k \in Key, NEW u \in Update
          PROVE  mixed'.count * Coef(mixed'.weights, k, u) = SumFunctionOnSet(Given(k, u)', Givers')
      <4>1. \A m \in Givers \cup {n} : Given(k, u)'[m] \in Int
        BY <1>2, <1>8
      <4>2. SumFunctionOnSet(Given(k, u)', Givers \cup {n})
              = Given(k, u)'[n] + SumFunctionOnSet(Given(k, u)', Givers)
        BY <1>7, <4>1, SumPut
      <4>3. mixed'.count * Coef(mixed'.weights, k, u)
              = Coef(d.weights, k, u) + mixed.count * Coef(mixed.weights, k, u)
        BY <1>2, <2>2, <3>1, AverageIsExact
      <4>4. mixed.count * Coef(mixed.weights, k, u) = SumFunctionOnSet(Given(k, u), Givers)
        BY DEF AverageInv
      <4>5. QED
        BY <1>8, <3>2, <4>2, <4>3, <4>4
    <3>6. QED
      BY <3>4, <3>5
  <2>3. CASE mixed' = mixed /\ mixed.expect > version[n]
    <3>1. Givers' = Givers
      BY <1>1, <1>2, <1>3, <1>4, <2>3 DEF Givers
    <3>2. QED
      BY <1>8, <2>3, <3>1 DEF AverageInv
  <2>4. QED
    BY <2>1, <2>2, <2>3, FoldMoves
<1>10. QED
  BY <1>5, <1>6, <1>9 DEF AverageInv

LEMMA NextAverages ==
    ASSUME OnceInv, KeepInv, AverageInv, [Next]_vars PROVE AverageInv'
\* The other steps leave the fold alone, or begin or end a round.
<1>1. ASSUME UNCHANGED <<mixed, gathered>>,
             phase' # "gather" \/ (phase' = phase /\ todo' = todo)
      PROVE  AverageInv'
  <2>1. Givers' = Givers
    BY <1>1 DEF Givers
  <2>2. ASSUME NEW k \in Key, NEW u \in Update PROVE Given(k, u)' = Given(k, u)
    BY <1>1 DEF Given
  <2>3. QED
    BY <1>1, <2>1, <2>2 DEF AverageInv
<1>2. ASSUME NEW n \in Node, NEW l \in Label, NEW m \in Node,
             \/ Restart(n) \/ Clear(n) \/ Load(n, m)
             \/ DeleteLabel(n, l) \/ RegisterLabel(n, l)
      PROVE  AverageInv'
  <2>1. UNCHANGED mixerVars
    BY <1>2, DeleteLabelGivesUp, RegisterLabelGivesUp DEF Restart, Clear, Load, OnceInv
  <2>2. QED
    BY <1>1, <2>1 DEF mixerVars
<1>3. ASSUME NEW n \in Node, NEW u \in Update, NEW f \in Feature, NEW inc \in Label,
             NEW dec \in Label \cup {NoLabel}, Train(n, u, f, inc, dec)
      PROVE  AverageInv'
  BY <1>1, <1>3 DEF Train, mixerVars
<1>4. ASSUME NEW n \in Node, Put(n) \/ LosePut(n) PROVE AverageInv'
  BY <1>1, <1>4 DEF Put, LosePut
<1>5. CASE StartPut
  BY <1>1, <1>5 DEF StartPut
<1>6. CASE StartRound \/ EndRound
  BY <1>6, NobodyAverages DEF StartRound, EndRound
<1>7. CASE UNCHANGED vars
  BY <1>1, <1>7 DEF vars
<1>8. QED
  <2>1. ASSUME NEW n \in Node, Restart(n) \/ Clear(n) PROVE AverageInv'
    BY <1>1, <2>1 DEF Restart, Clear, mixerVars
  <2>2. ASSUME NEW n \in Node, NEW m \in Node, Load(n, m) PROVE AverageInv'
    BY <1>1, <2>2 DEF Load, mixerVars
  <2>3. QED
    BY <1>2, <1>3, <1>4, <1>5, <1>6, <1>7, <2>1, <2>2, GatherAverages DEF Next

\* In whatever order the mixer calls the nodes, the fold is the plain average
\* over the nodes at the newest version gathered.
THEOREM FoldIsAverageHere == Spec => []FoldIsAverage
<1>1. Init => OnceInv /\ KeepInv /\ AverageInv
  BY InitOnce, InitKeeps, InitAverages
<1>2. OnceInv /\ KeepInv /\ AverageInv /\ [Next]_vars => OnceInv' /\ KeepInv' /\ AverageInv'
  BY NextOnce, NextKeeps, NextAverages
<1>3. OnceInv /\ KeepInv /\ AverageInv => FoldIsAverage
  <2> SUFFICES ASSUME OnceInv, KeepInv, AverageInv, mixed # NoDiff
               PROVE  /\ mixed.count = Cardinality(Newest)
                      /\ \A n \in Newest : mixed.expect = gathered[n].expect
                      /\ \A k \in Key, u \in Update :
                            mixed.count * At(mixed.weights, k)[u] =
                                SumFunctionOnSet([n \in Newest |-> At(gathered[n].weights, k)[u]], Newest)
    BY DEF FoldIsAverage
  <2>1. mixed.count >= 1 /\ mixed.expect \in Int /\ \A m \in Node : gathered[m].expect \in Int
    BY DEF OnceInv, TypeInv, TypeOK, IsDiffv
  <2>2. IsFiniteSet(Givers) /\ Givers \in SUBSET Node /\ mixed.count = Cardinality(Givers)
    BY GiversFinite DEF AverageInv
  <2>3. PICK g \in Givers : TRUE
    <3>1. Cardinality({}) = 0
      BY FS_EmptySet
    <3>2. QED
      BY <2>1, <2>2, <3>1
  <2>4. Newest = Givers
    BY <2>1, <2>3 DEF Newest, Givers, KeepInv, Asked
  <2>5. ASSUME NEW k \in Key, NEW u \in Update
        PROVE  mixed.count * At(mixed.weights, k)[u] =
                   SumFunctionOnSet([n \in Givers |-> At(gathered[n].weights, k)[u]], Givers)
    <3> DEFINE h == [n \in Givers |-> At(gathered[n].weights, k)[u]]
    <3>1. \A m \in Givers : Given(k, u)[m] = h[m]
      BY <2>2 DEF Given, Coef
    <3> HIDE DEF h
    <3>2. SumFunctionOnSet(Given(k, u), Givers) = SumFunctionOnSet(h, Givers)
      BY <2>2, <3>1, SumSame
    <3>3. QED
      BY <3>2 DEF h, AverageInv, Coef
  <2>6. QED
    BY <2>2, <2>4, <2>5 DEF Givers
<1>4. QED
  BY <1>1, <1>2, <1>3, PTL DEF Spec

---------------------------------------------------------------------------
(* Agreement.                                                              *)

\* What the argument needs to know of the types: weights stay opaque.
Shape ==
    /\ version \in [Node -> Nat]
    /\ todo \subseteq Node
    /\ mixed.expect \in Int

\* Agreement, spelled out.
Agreed ==
    \A n, m \in Node, k \in Key :
        version[n] = version[m] /\ k[2] \notin lost[n] /\ k[2] \notin lost[m] =>
            tbl[n][k] = tbl[m][k]

\* Version 0 is the empty model: nobody reaches it by a put.
FreshMaster == \A n \in Node : version[n] = 0 => \A k \in Key : tbl[n][k] = Zero

\* While gathering, the fold expects at least the version of every node
\* already asked.
FoldIsNewest ==
    phase = "gather" =>
        /\ mixed = NoDiff => todo = Node
        /\ \A n \in Node \ todo : version[n] <= mixed.expect

\* While putting, nobody is past the round's version, and whoever took the
\* put is exactly the fold ahead of whoever has not, under every label neither
\* of them gave up; and ahead of a node at version 0, which may come back.
RoundIsOneStep ==
    phase = "put" =>
        /\ mixed.expect >= 0
        /\ \A n \in Node : version[n] <= mixed.expect + 1
        /\ \A n, m \in Node, k \in Key :
              /\ version[n] = mixed.expect + 1 /\ version[m] = mixed.expect
              /\ k[2] \notin lost[n] /\ k[2] \notin lost[m]
              => tbl[n][k] = Plus(tbl[m][k], At(mixed.weights, k))
        /\ \A n \in Node, k \in Key :
              version[n] = 1 /\ mixed.expect = 0 /\ k[2] \notin lost[n] =>
                  tbl[n][k] = Plus(Zero, At(mixed.weights, k))

Agreeing == Shape /\ Agreed /\ FreshMaster /\ FoldIsNewest /\ RoundIsOneStep

\* mix keeps the larger of the two expected versions.
LEMMA MixExpectsNewest ==
    ASSUME NEW l, NEW r, l.expect \in Int, r.expect \in Int
    PROVE  /\ Mix(l, r).expect \in Int
           /\ Mix(l, r).expect >= l.expect
           /\ Mix(l, r).expect >= r.expect
  BY DEF Mix, Merge, Diffv

LEMMA InitAgrees == Init => Agreeing
  BY DEF Init, Agreeing, Shape, Agreed, FreshMaster, FoldIsNewest,
         RoundIsOneStep, NoDiff, Diffv, EmptyTable

\* A node that only gives up labels, however it came to that.
Forgets(n) ==
    /\ lost[n] \subseteq lost'[n]
    /\ version'[n] = version[n]
    /\ \A k \in Key : tbl'[n][k] = tbl[n][k] \/ (tbl'[n][k] = Zero /\ k[2] \in lost'[n])

Elsewhere(n) ==
    \A m \in Node \ {n} : tbl'[m] = tbl[m] /\ version'[m] = version[m] /\ lost'[m] = lost[m]

LEMMA ForgetAgrees ==
    ASSUME Agreeing, Shape', NEW n \in Node, Forgets(n), Elsewhere(n),
           UNCHANGED <<phase, mixed>>, phase = "gather" => todo' = todo
    PROVE  Agreeing'
<1>1. ASSUME NEW m \in Node
      PROVE  /\ version'[m] = version[m] /\ lost[m] \subseteq lost'[m]
             /\ \A k \in Key : /\ k[2] \notin lost'[m] => tbl'[m][k] = tbl[m][k]
                               /\ tbl'[m][k] = tbl[m][k] \/ tbl'[m][k] = Zero
  BY DEF Forgets, Elsewhere
<1>2. Agreed'
  BY <1>1 DEF Agreeing, Agreed
<1>3. FreshMaster'
  BY <1>1 DEF Agreeing, FreshMaster
<1>4. FoldIsNewest'
  BY <1>1 DEF Agreeing, FoldIsNewest
<1>5. RoundIsOneStep'
  BY <1>1 DEF Agreeing, RoundIsOneStep
<1>6. QED
  BY <1>2, <1>3, <1>4, <1>5 DEF Agreeing

LEMMA GivesUpAgrees ==
    ASSUME Agreeing, Shape', NEW n \in Node, Others(n), GivesUp(n),
           UNCHANGED <<phase, mixed>>, phase = "gather" => todo' = todo
    PROVE  Agreeing'
<1>1. PICK r :
         /\ r.gone \subseteq lost'[n] /\ lost[n] \subseteq lost'[n]
         /\ tbl'[n] = Unlearned(tbl[n], r.gone) /\ version'[n] = version[n]
  BY DEF GivesUp
<1>2. Forgets(n)
  BY <1>1 DEF Forgets, Unlearned
<1>3. Elsewhere(n)
  BY DEF Others, Elsewhere
<1>4. QED
  BY <1>2, <1>3, ForgetAgrees

LEMMA TrainAgrees ==
    ASSUME TypeInv, Agreeing, Shape', NEW n \in Node, NEW u \in Update, NEW f \in Feature,
           NEW inc \in Label, NEW dec \in Label \cup {NoLabel}, Train(n, u, f, inc, dec)
    PROVE  Agreeing'
<1>1. PICK r :
         /\ lost' = [lost EXCEPT ![n] = @ \cup r.gone]
         /\ tbl' = [tbl EXCEPT ![n] = Unlearned(@, r.gone)]
  BY DEF Train
<1>2. UNCHANGED <<version, phase, todo, mixed>>
  BY DEF Train, mixerVars
<1>3. /\ lost'[n] = lost[n] \cup r.gone /\ tbl'[n] = Unlearned(tbl[n], r.gone)
      /\ \A m \in Node \ {n} : tbl'[m] = tbl[m] /\ lost'[m] = lost[m]
  BY <1>1 DEF TypeInv, TypeOK
<1>4. Forgets(n)
  BY <1>2, <1>3 DEF Forgets, Unlearned
<1>5. Elsewhere(n)
  BY <1>2, <1>3 DEF Elsewhere
<1>6. QED
  BY <1>2, <1>4, <1>5, ForgetAgrees

LEMMA ClearAgrees ==
    ASSUME TypeInv, Agreeing, Shape', NEW n \in Node, Clear(n) PROVE Agreeing'
<1>1. UNCHANGED <<version, phase, todo, mixed>>
  BY DEF Clear, mixerVars
<1>2. /\ lost'[n] = Label /\ tbl'[n] = EmptyTable /\ lost[n] \subseteq Label
      /\ \A m \in Node \ {n} : tbl'[m] = tbl[m] /\ lost'[m] = lost[m]
  BY DEF Clear, TypeInv, TypeOK
<1>3. Forgets(n)
  BY <1>1, <1>2 DEF Forgets, EmptyTable, Key
<1>4. Elsewhere(n)
  BY <1>1, <1>2 DEF Elsewhere
<1>5. QED
  BY <1>1, <1>3, <1>4, ForgetAgrees

LEMMA RestartAgrees ==
    ASSUME TypeInv, Agreeing, Shape', NEW n \in Node, Restart(n) PROVE Agreeing'
<1>1. UNCHANGED <<phase, todo, mixed>>
  BY DEF Restart, mixerVars
<1>2. /\ version'[n] = 0 /\ \A k \in Key : tbl'[n][k] = Zero
      /\ \A m \in Node \ {n} :
            tbl'[m] = tbl[m] /\ lost'[m] = lost[m] /\ version'[m] = version[m]
  BY DEF Restart, TypeInv, TypeOK, EmptyTable
<1>3. Agreed'
  BY <1>2 DEF Agreeing, Agreed, FreshMaster
<1>4. FreshMaster'
  BY <1>2 DEF Agreeing, FreshMaster
<1>5. FoldIsNewest'
  BY <1>1, <1>2 DEF Agreeing, Shape, FoldIsNewest
<1>6. RoundIsOneStep'
  BY <1>1, <1>2 DEF Agreeing, Shape, RoundIsOneStep, FreshMaster
<1>7. QED
  BY <1>3, <1>4, <1>5, <1>6 DEF Agreeing

LEMMA LoadAgrees ==
    ASSUME TypeInv, Agreeing, Shape', NEW n \in Node, NEW m \in Node, Load(n, m)
    PROVE  Agreeing'
<1>1. phase' = "idle"
  BY DEF Load, mixerVars
<1>2. \A i \in Node : \E j \in Node :
         tbl'[i] = tbl[j] /\ lost'[i] = lost[j] /\ version'[i] = version[j]
  BY DEF Load, TypeInv, TypeOK
<1>3. Agreed'
  BY <1>2 DEF Agreeing, Agreed
<1>4. FreshMaster'
  BY <1>2 DEF Agreeing, FreshMaster
<1>5. QED
  BY <1>1, <1>3, <1>4 DEF Agreeing, FoldIsNewest, RoundIsOneStep

LEMMA GatherAgrees ==
    ASSUME Agreeing, NEW n \in Node, Gather(n) PROVE Agreeing'
<1>1. /\ UNCHANGED <<tbl, version, lost, phase>>
      /\ phase = "gather"
      /\ n \in todo
      /\ todo' = todo \ {n}
  BY DEF Gather, modelVars
<1>2. GetDiff(n).expect = version[n] /\ GetDiff(n).expect \in Int
  BY DEF GetDiff, Diffv, Agreeing, Shape
<1>3. /\ mixed'.expect \in Int
      /\ mixed'.expect >= version[n]
      /\ mixed # NoDiff => mixed'.expect >= mixed.expect
      /\ mixed' # NoDiff
  <2>1. CASE mixed = NoDiff
    <3>1. mixed' = GetDiff(n)
      BY <2>1 DEF Gather
    <3>2. QED
      BY <2>1, <3>1, <1>2 DEF Agreeing, Shape, NoDiff, Diffv
  <2>2. CASE mixed # NoDiff
    <3>1. mixed' = Mix(GetDiff(n), mixed)
      BY <2>2 DEF Gather
    <3>2. mixed.expect \in Int
      BY DEF Agreeing, Shape
    <3>3. /\ mixed'.expect \in Int
          /\ mixed'.expect >= version[n]
          /\ mixed'.expect >= mixed.expect
      BY <3>1, <3>2, <1>2, MixExpectsNewest
    <3>4. mixed' # NoDiff
      BY <3>3 DEF NoDiff, Diffv, Agreeing, Shape
    <3>5. QED
      BY <3>3, <3>4
  <2>3. QED
    BY <2>1, <2>2
<1>4. FoldIsNewest'
  <2>1. ASSUME NEW m \in Node, m \notin todo'
        PROVE  version'[m] <= mixed'.expect
    <3>1. CASE m = n
      BY <3>1, <1>1, <1>3 DEF Agreeing, Shape
    <3>2. CASE m # n
      <4>1. m \notin todo /\ mixed # NoDiff
        BY <3>2, <2>1, <1>1 DEF Agreeing, FoldIsNewest
      <4>2. version[m] <= mixed.expect
        BY <4>1, <1>1 DEF Agreeing, FoldIsNewest
      <4>3. QED
        BY <4>1, <4>2, <1>1, <1>3 DEF Agreeing, Shape
    <3>3. QED
      BY <3>1, <3>2
  <2>2. QED
    BY <2>1, <1>3 DEF FoldIsNewest
<1>5. Shape' /\ Agreed' /\ FreshMaster' /\ RoundIsOneStep'
  BY <1>1, <1>3 DEF Agreeing, Shape, Agreed, FreshMaster, RoundIsOneStep
<1>6. QED
  BY <1>4, <1>5 DEF Agreeing

LEMMA StartPutAgrees ==
    ASSUME Agreeing, StartPut PROVE Agreeing'
<1>1. /\ UNCHANGED <<tbl, version, lost, mixed>>
      /\ phase = "gather" /\ phase' = "put"
      /\ todo = {} /\ todo' = Node
  BY DEF StartPut, modelVars
<1>2. \A n \in Node : version[n] <= mixed.expect
  BY <1>1 DEF Agreeing, FoldIsNewest
<1>3. mixed.expect >= 0
  BY <1>2, NodeAssumption DEF Agreeing, Shape
<1>4. QED
  BY <1>1, <1>2, <1>3
     DEF Agreeing, Shape, Agreed, FreshMaster, FoldIsNewest, RoundIsOneStep

\* The heart of the argument: a put that is taken moves its node from one
\* side of RoundIsOneStep to the other, under the labels it keeps.
LEMMA PutAgrees ==
    ASSUME TypeInv, Agreeing, Shape', NEW n \in Node, Put(n) PROVE Agreeing'
<1>1. /\ UNCHANGED <<phase, mixed, settings>> /\ phase = "put" /\ Others(n)
      /\ mixed.expect = version[n] => Takes(n)
      /\ mixed.expect # version[n] => GivesUp(n)
  BY PutTakes
<1>2. CASE mixed.expect # version[n]
  BY <1>1, <1>2, GivesUpAgrees
<1>3. CASE mixed.expect = version[n]
  <2>1. /\ version'[n] = mixed.expect + 1 /\ lost[n] \subseteq lost'[n]
        /\ \A m \in Node \ {n} :
              tbl'[m] = tbl[m] /\ version'[m] = version[m] /\ lost'[m] = lost[m]
    BY <1>1, <1>3 DEF Takes, Others
  <2>2. ASSUME NEW k \in Key, k[2] \notin lost'[n]
        PROVE  k[2] \notin lost[n] /\ tbl'[n][k] = Plus(tbl[n][k], At(mixed.weights, k))
    <3>1. Takes(n) /\ UNCHANGED settings
      BY <1>1, <1>3
    <3>2. PICK t \in {Zero, tbl[n][k]}, x \in {Zero, At(mixed.weights, k)} :
              tbl'[n][k] = Plus(t, x) /\ t = tbl[n][k] /\ x = At(mixed.weights, k)
      BY <2>2, <3>1, TakesAt
    <3>3. QED
      BY <2>1, <2>2, <3>2
  <2>3. Agreed'
    <3>1. ASSUME NEW m \in Node, m # n, version[m] = mixed.expect + 1,
                 NEW k \in Key, k[2] \notin lost'[n], k[2] \notin lost[m]
          PROVE  tbl[m][k] = tbl'[n][k]
      BY <2>2, <3>1, <1>1, <1>3 DEF Agreeing, RoundIsOneStep
    <3>2. QED
      BY <2>1, <3>1 DEF Agreeing, Agreed
  <2>4. FreshMaster'
    BY <2>1, <1>1, <1>3 DEF Agreeing, Shape, FreshMaster, RoundIsOneStep
  <2>5. RoundIsOneStep'
    <3>1. ASSUME NEW m \in Node, m # n, version[m] = mixed.expect,
                 NEW k \in Key, k[2] \notin lost'[n], k[2] \notin lost[m]
          PROVE  tbl'[n][k] = Plus(tbl[m][k], At(mixed.weights, k))
      <4>1. tbl[m][k] = tbl[n][k]
        BY <2>2, <3>1, <1>3 DEF Agreeing, Agreed
      <4>2. QED
        BY <2>2, <3>1, <4>1
    <3>2. mixed.expect = 0 => \A k \in Key : tbl[n][k] = Zero
      BY <1>3 DEF Agreeing, FreshMaster
    <3>3. \A m \in Node : version'[m] = mixed.expect => m # n
      BY <2>1 DEF Agreeing, Shape
    <3>4. ASSUME NEW i \in Node, NEW m \in Node, NEW k \in Key,
                 version'[i] = mixed.expect + 1, version'[m] = mixed.expect,
                 k[2] \notin lost'[i], k[2] \notin lost'[m]
          PROVE  tbl'[i][k] = Plus(tbl'[m][k], At(mixed.weights, k))
      <4>1. m # n /\ version[m] = mixed.expect /\ tbl'[m] = tbl[m] /\ lost'[m] = lost[m]
        BY <2>1, <3>3, <3>4
      <4>2. CASE i = n
        BY <3>1, <3>4, <4>1, <4>2
      <4>3. CASE i # n
        BY <1>1, <2>1, <3>4, <4>1, <4>3 DEF Agreeing, RoundIsOneStep
      <4>4. QED
        BY <4>2, <4>3
    <3>5. ASSUME NEW i \in Node, NEW k \in Key,
                 version'[i] = 1, mixed.expect = 0, k[2] \notin lost'[i]
          PROVE  tbl'[i][k] = Plus(Zero, At(mixed.weights, k))
      <4>1. CASE i = n
        BY <2>2, <3>2, <3>5, <4>1
      <4>2. CASE i # n
        BY <1>1, <2>1, <3>5, <4>2 DEF Agreeing, RoundIsOneStep
      <4>3. QED
        BY <4>1, <4>2
    <3>6. \A m \in Node : version'[m] <= mixed.expect + 1
      BY <1>1, <2>1 DEF Agreeing, Shape, RoundIsOneStep
    <3>7. mixed.expect >= 0
      BY <1>1 DEF Agreeing, RoundIsOneStep
    <3>8. QED
      BY <1>1, <3>4, <3>5, <3>6, <3>7 DEF RoundIsOneStep
  <2>6. FoldIsNewest'
    BY <1>1 DEF FoldIsNewest
  <2>7. QED
    BY <2>3, <2>4, <2>5, <2>6 DEF Agreeing
<1>4. QED
  BY <1>2, <1>3

LEMMA NextAgrees ==
    ASSUME TypeInv, Agreeing, [Next]_vars PROVE Agreeing'
<1>0. Shape'
  <2>1. TypeInv'
    BY NextTyped
  <2>2. QED
    BY <2>1 DEF TypeInv, TypeOK, IsDiffv, Shape
<1>1. CASE StartRound
  BY <1>0, <1>1 DEF Agreeing, Agreed, FreshMaster, FoldIsNewest,
              RoundIsOneStep, StartRound, modelVars, NoDiff, Diffv
<1>2. ASSUME NEW n \in Node, LosePut(n) PROVE Agreeing'
  BY <1>0, <1>2 DEF Agreeing, Agreed, FreshMaster, FoldIsNewest,
              RoundIsOneStep, LosePut, modelVars
<1>3. CASE EndRound
  BY <1>0, <1>3 DEF Agreeing, Agreed, FreshMaster, FoldIsNewest,
              RoundIsOneStep, EndRound, modelVars, NoDiff, Diffv
<1>4. CASE UNCHANGED vars
  BY <1>0, <1>4 DEF Agreeing, Agreed, FreshMaster, FoldIsNewest, RoundIsOneStep, vars
<1>5. ASSUME NEW n \in Node, NEW l \in Label, DeleteLabel(n, l) \/ RegisterLabel(n, l)
      PROVE  Agreeing'
  <2>1. Others(n) /\ GivesUp(n) /\ UNCHANGED <<phase, mixed, todo>>
    BY <1>5, DeleteLabelGivesUp, RegisterLabelGivesUp DEF mixerVars
  <2>2. QED
    BY <1>0, <2>1, GivesUpAgrees
<1>6. QED
  BY <1>0, <1>1, <1>2, <1>3, <1>4, <1>5, TrainAgrees, RestartAgrees, LoadAgrees, GatherAgrees,
     StartPutAgrees, PutAgrees, ClearAgrees DEF Next

\* Two nodes at the same model version hold the same master weights of every
\* label neither of them gave up: the version check of
\* set_average_and_clear_diff and the newest-version rule of
\* linear_function_mixer::mix suffice, however many puts are lost, whichever
\* nodes restart, and whichever other labels the touches of put_diff unlearn
\* and its filter drops.
THEOREM AgreementHolds == Spec => []Agreement
<1>1. Init => TypeInv /\ Agreeing
  BY InitTyped, InitAgrees
<1>2. TypeInv /\ Agreeing /\ [Next]_vars => TypeInv' /\ Agreeing'
  BY NextTyped, NextAgrees
<1>3. Agreeing => Agreement
  BY DEF Agreeing, Agreed, Agreement
<1>4. QED
  BY <1>1, <1>2, <1>3, PTL DEF Spec
=============================================================================
