-------------------------- MODULE Mixables_proofs --------------------------
(***************************************************************************)
(* Every row a node of the bit index shows is one its unlearner knows, the *)
(* masters agree between rounds, and two quiet rounds make all nodes show  *)
(* the same rows; rows of the lsh index are found in the buckets of their  *)
(* hashes; and, in the composition the run checks, bursts: results are in  *)
(* order and fit, and every window counts exactly the documents of its     *)
(* batches, whatever windows are opened, flushed, dropped or mixed.        *)
(***************************************************************************)
EXTENDS MCMixables, SumTheorems, SequenceTheorems


\* What TypeOK says, of functions of known domain and range.
Tables(V) == UNION {[D -> V] : D \in SUBSET RowId}

TypeInv ==
    /\ bitvals \in [Node -> Tables(Value)]
    /\ diff \in [Node -> Tables(Value \cup {Gone})]
    /\ orig \in [Node -> SUBSET RowId]
    /\ memory \in [Node -> SUBSET RowId]
    /\ \A n \in Node : IsFiniteSet(memory[n]) /\ Cardinality(memory[n]) <= MaxSize
    /\ phase \in {"idle", "gather", "put"}
    /\ todo \in SUBSET Node /\ busy \in SUBSET Node
    /\ mixed \in Tables(Value \cup {Gone})
    /\ rest \in [Node -> SUBSET RowId]
    /\ quiet \in 0..2

\* A put is what makes nodes busy, and only a busy node has rows to apply.
RoundInv ==
    /\ phase = "idle" => todo = {}
    /\ phase # "put" => busy = {}
    /\ busy \cap todo = {}
    /\ \A n \in Node \ busy : rest[n] = {}
    /\ \A n \in Node : rest[n] \subseteq DOMAIN mixed

\* A row of the master that the unlearner does not know is removed in the
\* difference, whatever a put has done so far; one the mixed difference
\* removes has left the master as soon as it is applied.
Applied(n, r) == phase = "put" /\ n \notin todo /\ r \in DOMAIN mixed \ rest[n]

Tracked(n) ==
    /\ \A r \in DOMAIN bitvals[n] \ memory[n] : r \in DOMAIN diff[n] /\ diff[n][r] = Gone
    /\ n \notin busy => \A r \in DOMAIN diff[n] \ memory[n] : diff[n][r] = Gone
    /\ n \in busy =>
           \A r \in DOMAIN mixed \ rest[n] : mixed[r] = Gone => r \notin DOMAIN bitvals[n]

TrackInv == \A n \in Node : Tracked(n)

\* What a table says of a row.
At(t, r) == IF r \in DOMAIN t THEN t[r] ELSE Gone

\* The masters agree on every row which a put has, or has not, applied to both.
AgreeInv ==
    "refused" \notin full =>
        \A n, m \in Node, r \in RowId :
            /\ Applied(n, r) => At(bitvals[n], r) = mixed[r]
            /\ ~Applied(n, r) /\ ~Applied(m, r) => At(bitvals[n], r) = At(bitvals[m], r)

\* The first quiet round leaves nothing but removals in the differences, the
\* second nothing at all.
OnlyGone(d) == \A r \in DOMAIN d : d[r] = Gone
PutDone(n) == phase = "put" /\ n \notin todo /\ n \notin busy
Gathered(n) == IF phase = "gather" THEN n \notin todo ELSE phase = "put" /\ ~PutDone(n)

Quieted(n) ==
    /\ quiet = 1 /\ (phase = "idle" \/ PutDone(n)) => OnlyGone(diff[n])
    /\ quiet = 2 => OnlyGone(diff[n]) /\ OnlyGone(mixed)
    /\ quiet = 2 /\ Gathered(n) => DOMAIN diff[n] \subseteq DOMAIN mixed
    /\ quiet = 2 /\ (phase = "idle" \/ PutDone(n)) => DOMAIN diff[n] = {}

QuietInv == full = {} => \A n \in Node : Quieted(n)

IInv == TypeInv /\ RoundInv /\ TrackInv /\ AgreeInv /\ QuietInv
---------------------------------------------------------------------------
(* Tables of rows.                                                         *)

LEMMA TableIs ==
    ASSUME NEW V, NEW t \in Tables(V)
    PROVE  DOMAIN t \in SUBSET RowId /\ \A r \in DOMAIN t : t[r] \in V
BY DEF Tables

LEMMA TableFrom ==
    ASSUME NEW V, NEW D \in SUBSET RowId, NEW t \in [D -> V]
    PROVE  t \in Tables(V)
BY DEF Tables

LEMMA SameTables ==
    ASSUME NEW V, NEW t \in Tables(V), NEW u \in Tables(V), DOMAIN t = DOMAIN u,
           \A r \in DOMAIN t : t[r] = u[r]
    PROVE  t = u
<1>1. PICK D \in SUBSET RowId : t \in [D -> V]
  BY DEF Tables
<1>2. PICK E \in SUBSET RowId : u \in [E -> V]
  BY DEF Tables
<1>3. D = DOMAIN t /\ E = DOMAIN t
  BY <1>1, <1>2
<1>4. t = [r \in D |-> t[r]] /\ u = [r \in D |-> u[r]]
  BY <1>1, <1>2, <1>3
<1>5. [r \in D |-> t[r]] = [r \in D |-> u[r]]
  BY <1>3
<1>6. QED
  BY <1>4, <1>5

LEMMA WithType ==
    ASSUME NEW V, NEW t \in Tables(V), NEW r \in RowId, NEW v \in V
    PROVE  With(t, r, v) \in Tables(V)
<1>1. With(t, r, v) \in [DOMAIN t \cup {r} -> V]
  BY TableIs DEF With
<1>2. DOMAIN t \cup {r} \in SUBSET RowId
  BY TableIs
<1>3. QED
  BY <1>1, <1>2 DEF Tables

LEMMA WithoutIs ==
    ASSUME NEW V, NEW t \in Tables(V), NEW R
    PROVE  /\ Without(t, R) \in Tables(V)
           /\ DOMAIN Without(t, R) = DOMAIN t \ R
           /\ \A i \in DOMAIN t \ R : Without(t, R)[i] = t[i]
<1>1. Without(t, R) \in [DOMAIN t \ R -> V]
  BY TableIs DEF Without, Restrict
<1>2. DOMAIN t \ R \in SUBSET RowId
  BY TableIs
<1>3. Without(t, R) \in Tables(V)
  BY <1>1, <1>2 DEF Tables
<1>4. QED
  BY <1>3 DEF Without, Restrict

LEMMA OverIs ==
    ASSUME NEW V, NEW t \in Tables(V), NEW u \in Tables(V)
    PROVE  /\ Over(t, u) \in Tables(V)
           /\ DOMAIN Over(t, u) = DOMAIN t \cup DOMAIN u
           /\ \A i \in DOMAIN t \cup DOMAIN u : Over(t, u)[i] = IF i \in DOMAIN t THEN t[i] ELSE u[i]
<1>1. Over(t, u) \in [DOMAIN t \cup DOMAIN u -> V]
  BY TableIs DEF Over
<1>2. DOMAIN t \cup DOMAIN u \in SUBSET RowId
  BY TableIs
<1>3. Over(t, u) \in Tables(V)
  BY <1>1, <1>2 DEF Tables
<1>4. QED
  BY <1>3 DEF Over

\* The tables a node may have.
Masters == Tables(Value)
Diffs == Tables(Value \cup {Gone})

LEMMA WithDiff ==
    ASSUME NEW d \in Diffs, NEW r \in RowId, NEW v \in Value \cup {Gone}
    PROVE  With(d, r, v) \in Diffs
BY WithType DEF Diffs

LEMMA WithoutRowIs ==
    ASSUME NEW t \in Masters, NEW d \in Diffs, NEW r \in RowId
    PROVE  /\ WithoutRow(t, d, r) \in Diffs
           /\ \A i : i # r => /\ i \in DOMAIN WithoutRow(t, d, r) <=> i \in DOMAIN d
                              /\ i \in DOMAIN d => WithoutRow(t, d, r)[i] = d[i]
           /\ r \in DOMAIN t => r \in DOMAIN WithoutRow(t, d, r) /\ WithoutRow(t, d, r)[r] = Gone
           /\ r \notin DOMAIN t => r \notin DOMAIN WithoutRow(t, d, r)
<1> DEFINE V == Value \cup {Gone}
<1>1. d \in Tables(V) /\ Gone \in V
  BY DEF Diffs
<1>2. CASE r \in DOMAIN t
  <2>1. WithoutRow(t, d, r) = With(d, r, Gone)
    BY <1>2 DEF WithoutRow
  <2>2. \A i : i # r /\ i \in DOMAIN d => i \in DOMAIN d \ {r}
    OBVIOUS
  <2>3. With(d, r, Gone) \in Diffs
    BY WithDiff
  <2>4. DOMAIN With(d, r, Gone) = DOMAIN d \cup {r}
    BY DEF With
  <2>5. \A i \in DOMAIN d \cup {r} : With(d, r, Gone)[i] = IF i = r THEN Gone ELSE d[i]
    BY DEF With
  <2>6. QED
    BY <1>2, <2>1, <2>2, <2>3, <2>4, <2>5
<1>3. CASE r \notin DOMAIN t
  <2> HIDE DEF V
  <2>1. /\ Without(d, {r}) \in Tables(V) /\ DOMAIN Without(d, {r}) = DOMAIN d \ {r}
        /\ \A i \in DOMAIN d \ {r} : Without(d, {r})[i] = d[i]
    BY <1>1, WithoutIs
  <2>2. WithoutRow(t, d, r) = Without(d, {r})
    BY <1>3 DEF WithoutRow
  <2>3. \A i : i # r /\ i \in DOMAIN d => i \in DOMAIN d \ {r}
    OBVIOUS
  <2>4. QED
    BY <1>3, <2>1, <2>2, <2>3 DEF Diffs, V
<1>4. QED
  BY <1>2, <1>3

---------------------------------------------------------------------------
(* The unlearner.                                                          *)

\* A set within the bound that loses the victims and gains the touched id.
LEMMA VictimsFit ==
    ASSUME NEW mem \in SUBSET RowId, IsFiniteSet(mem), Cardinality(mem) <= MaxSize,
           NEW r \in RowId, NEW old \in Victims(mem, r)
    PROVE  /\ old \subseteq mem \ {r}
           /\ old = {} \/ \E o \in mem \ {r} : old = {o}
           /\ IsFiniteSet((mem \ old) \cup {r}) /\ Cardinality((mem \ old) \cup {r}) <= MaxSize
<1>1. Cardinality(mem) \in Nat /\ MaxSize \in Nat
  BY FS_CardinalityType, BoundAssumption
<1>2. CASE r \in mem
  <2>1. old = {} /\ (mem \ old) \cup {r} = mem
    BY <1>2 DEF Victims
  <2>2. QED
    BY <2>1
<1>3. CASE r \notin mem /\ Cardinality(mem) < MaxSize
  <2>1. old = {}
    BY <1>3 DEF Victims
  <2>2. IsFiniteSet(mem \cup {r}) /\ Cardinality(mem \cup {r}) = Cardinality(mem) + 1
    BY <1>3, FS_AddElement
  <2>3. (mem \ old) \cup {r} = mem \cup {r}
    BY <2>1
  <2>4. QED
    BY <1>1, <1>3, <2>1, <2>2, <2>3
<1>4. CASE r \notin mem /\ ~(Cardinality(mem) < MaxSize)
  <2>1. PICK o \in mem \ Sticky : old = {o}
    BY <1>4 DEF Victims
  <2>2. IsFiniteSet(mem \ {o}) /\ Cardinality(mem \ {o}) = Cardinality(mem) - 1
    BY <2>1, FS_RemoveElement
  <2>3. /\ IsFiniteSet((mem \ {o}) \cup {r})
        /\ Cardinality((mem \ {o}) \cup {r}) = Cardinality(mem \ {o}) + 1
    BY <1>4, <2>2, FS_AddElement
  <2>4. QED
    BY <1>1, <1>4, <2>1, <2>2, <2>3
<1>5. QED
  BY <1>2, <1>3, <1>4

\* What touching a row does: the victims leave memory, the row enters it; the
\* victims' entries of the difference are removals, or are dropped.
LEMMA TouchDoes ==
    ASSUME TypeInv, NEW n \in Node, NEW r \in RowId, NEW master \in Masters, NEW d \in Diffs,
           NEW own \in SUBSET RowId, Touch(n, r, master, d, own)
    PROVE  /\ \A m \in Node \ {n} : /\ bitvals'[m] = bitvals[m] /\ diff'[m] = diff[m]
                                    /\ memory'[m] = memory[m]
           /\ bitvals'[n] = master
           /\ r \in memory'[n]
           /\ \A i \in memory[n] \ memory'[n] :
                 /\ i \in DOMAIN bitvals[n] => i \in DOMAIN diff'[n] /\ diff'[n][i] = Gone
                 /\ i \notin DOMAIN bitvals[n] => i \notin DOMAIN diff'[n]
           /\ \A i : i \notin memory[n] \ memory'[n] =>
                 /\ i \in DOMAIN diff'[n] <=> i \in DOMAIN d
                 /\ i \in DOMAIN d => diff'[n][i] = d[i]
           /\ full \subseteq full'
           /\ full' = {} => diff'[n] = d
           /\ /\ bitvals' \in [Node -> Masters]
              /\ diff' \in [Node -> Diffs]
              /\ orig' \in [Node -> SUBSET RowId]
              /\ memory' \in [Node -> SUBSET RowId]
              /\ \A m \in Node : IsFiniteSet(memory'[m]) /\ Cardinality(memory'[m]) <= MaxSize
<1> DEFINE Left(old) == IF old = {} THEN d ELSE WithoutRow(bitvals[n], d, CHOOSE o \in old : TRUE)
<1>1. PICK old \in Victims(memory[n], r) :
         /\ memory' = [memory EXCEPT ![n] = (@ \ old) \cup {r}]
         /\ orig' = [orig EXCEPT ![n] = own \ old]
         /\ diff' = [diff EXCEPT ![n] = Left(old)]
         /\ bitvals' = [bitvals EXCEPT ![n] = master]
         /\ full' = IF old = {} THEN full ELSE full \cup {"unlearned"}
  BY DEF Touch
<1>2. /\ bitvals \in [Node -> Masters] /\ diff \in [Node -> Diffs] /\ orig \in [Node -> SUBSET RowId]
      /\ memory \in [Node -> SUBSET RowId] /\ memory[n] \in SUBSET RowId
      /\ \A m \in Node : IsFiniteSet(memory[m]) /\ Cardinality(memory[m]) <= MaxSize
  BY DEF TypeInv, Masters, Diffs
<1>3. /\ old \subseteq memory[n] \ {r}
      /\ old = {} \/ \E o \in memory[n] \ {r} : old = {o}
      /\ IsFiniteSet((memory[n] \ old) \cup {r}) /\ Cardinality((memory[n] \ old) \cup {r}) <= MaxSize
  BY <1>1, <1>2, VictimsFit
<1>4. memory[n] \ memory'[n] = old
  BY <1>1, <1>2, <1>3
<1>5. /\ Left(old) \in Diffs
      /\ \A i \in old : /\ i \in DOMAIN bitvals[n] => i \in DOMAIN Left(old) /\ Left(old)[i] = Gone
                        /\ i \notin DOMAIN bitvals[n] => i \notin DOMAIN Left(old)
      /\ \A i : i \notin old => /\ i \in DOMAIN Left(old) <=> i \in DOMAIN d
                                /\ i \in DOMAIN d => Left(old)[i] = d[i]
  <2>1. CASE old = {}
    BY <2>1
  <2>2. ASSUME NEW o \in memory[n] \ {r}, old = {o}
        PROVE  <1>5!:
    <3>1. Left(old) = WithoutRow(bitvals[n], d, o)
      BY <2>2
    <3>2. bitvals[n] \in Masters /\ o \in RowId
      BY <1>2
    <3>3. /\ WithoutRow(bitvals[n], d, o) \in Diffs
          /\ \A i : i # o => /\ i \in DOMAIN WithoutRow(bitvals[n], d, o) <=> i \in DOMAIN d
                             /\ i \in DOMAIN d => WithoutRow(bitvals[n], d, o)[i] = d[i]
          /\ o \in DOMAIN bitvals[n] => /\ o \in DOMAIN WithoutRow(bitvals[n], d, o)
                                        /\ WithoutRow(bitvals[n], d, o)[o] = Gone
          /\ o \notin DOMAIN bitvals[n] => o \notin DOMAIN WithoutRow(bitvals[n], d, o)
      BY <3>2, WithoutRowIs
    <3> HIDE DEF Left
    <3>4. QED
      BY <2>2, <3>1, <3>3
  <2>3. QED
    BY <1>3, <2>1, <2>2
<1> HIDE DEF Left
<1>6. diff'[n] = Left(old) /\ bitvals'[n] = master /\ memory'[n] = (memory[n] \ old) \cup {r}
  BY <1>1, <1>2
<1>7. \A m \in Node \ {n} : bitvals'[m] = bitvals[m] /\ diff'[m] = diff[m] /\ memory'[m] = memory[m]
  BY <1>1, <1>2
<1>8. full \subseteq full' /\ (full' = {} => diff'[n] = d)
  <2>1. full' = {} => old = {}
    BY <1>1
  <2>2. old = {} => Left(old) = d
    BY DEF Left
  <2>3. QED
    BY <1>1, <1>6, <2>1, <2>2
<1>9. /\ bitvals' \in [Node -> Masters] /\ diff' \in [Node -> Diffs]
      /\ orig' \in [Node -> SUBSET RowId] /\ memory' \in [Node -> SUBSET RowId]
  BY <1>1, <1>2, <1>5
<1>10. \A m \in Node : IsFiniteSet(memory'[m]) /\ Cardinality(memory'[m]) <= MaxSize
  BY <1>2, <1>3, <1>6, <1>7
<1>11. QED
  BY <1>3, <1>4, <1>5, <1>6, <1>7, <1>8, <1>9, <1>10

---------------------------------------------------------------------------
(* What the actions on a row do.                                           *)

Models == /\ bitvals \in [Node -> Masters] /\ diff \in [Node -> Diffs]
          /\ orig \in [Node -> SUBSET RowId] /\ memory \in [Node -> SUBSET RowId]
          /\ \A m \in Node : IsFiniteSet(memory[m]) /\ Cardinality(memory[m]) <= MaxSize

LEMMA TypeHasModels == TypeInv => Models
BY DEF TypeInv, Models, Masters, Diffs

\* Nothing but node n changed, and not the round.
Elsewhere(n) == \A m \in Node \ {n} : /\ bitvals'[m] = bitvals[m] /\ diff'[m] = diff[m]
                                      /\ memory'[m] = memory[m]

LEMMA UpdateDoes ==
    ASSUME TypeInv, NEW n \in Node, NEW r \in RowId, NEW v \in Value, Update(n, r, v)
    PROVE  /\ Models' /\ Elsewhere(n) /\ bitvals' = bitvals /\ full \subseteq full'
           /\ n \notin busy /\ quiet' = 0 /\ UNCHANGED mixerVars
           /\ r \in memory'[n] /\ r \in DOMAIN diff'[n] /\ diff'[n][r] = v
           /\ \A i \in memory[n] \ memory'[n] :
                 /\ i \in DOMAIN bitvals[n] => i \in DOMAIN diff'[n] /\ diff'[n][i] = Gone
                 /\ i \notin DOMAIN bitvals[n] => i \notin DOMAIN diff'[n]
           /\ \A i : i # r /\ i \notin memory[n] \ memory'[n] =>
                 /\ i \in DOMAIN diff'[n] <=> i \in DOMAIN diff[n]
                 /\ i \in DOMAIN diff[n] => diff'[n][i] = diff[n][i]
<1> DEFINE d == With(diff[n], r, v)
           own == orig[n] \cup {r}
<1>1. Models
  BY TypeHasModels
<1>2. bitvals[n] \in Masters /\ own \in SUBSET RowId /\ diff[n] \in Diffs
  BY <1>1 DEF Models
<1>3. d \in Diffs
  BY <1>2, WithDiff
<1>4. DOMAIN d = DOMAIN diff[n] \cup {r} /\ \A i \in DOMAIN diff[n] \ {r} : d[i] = diff[n][i]
  BY DEF With
<1>5. Touch(n, r, bitvals[n], d, own)
  BY DEF Update
<1> HIDE DEF d, own
<1>6. /\ Elsewhere(n)
      /\ bitvals'[n] = bitvals[n]
      /\ r \in memory'[n]
      /\ \A i \in memory[n] \ memory'[n] :
            /\ i \in DOMAIN bitvals[n] => i \in DOMAIN diff'[n] /\ diff'[n][i] = Gone
            /\ i \notin DOMAIN bitvals[n] => i \notin DOMAIN diff'[n]
      /\ \A i : i \notin memory[n] \ memory'[n] =>
            /\ i \in DOMAIN diff'[n] <=> i \in DOMAIN d
            /\ i \in DOMAIN d => diff'[n][i] = d[i]
      /\ full \subseteq full'
      /\ Models'
  BY <1>2, <1>3, <1>5, TouchDoes DEF Elsewhere, Models
<1>7. bitvals' = bitvals
  <2>1. \A m \in Node : bitvals'[m] = bitvals[m]
    BY <1>6 DEF Elsewhere
  <2>2. QED
    BY <1>1, <1>6, <2>1 DEF Models
<1>8. n \notin busy /\ quiet' = 0 /\ UNCHANGED mixerVars
  BY DEF Update
<1>9. \A i : i # r /\ i \notin memory[n] \ memory'[n] =>
          /\ i \in DOMAIN diff'[n] <=> i \in DOMAIN diff[n]
          /\ i \in DOMAIN diff[n] => diff'[n][i] = diff[n][i]
  BY <1>4, <1>6
<1>10. r \in DOMAIN diff'[n] /\ diff'[n][r] = v
  <2>1. r \in DOMAIN d /\ d[r] = v
    BY DEF d, With
  <2>2. QED
    BY <1>6, <2>1
<1>11. QED
  BY <1>6, <1>7, <1>8, <1>9, <1>10

LEMMA ClearRowDoes ==
    ASSUME TypeInv, NEW n \in Node, NEW r \in RowId, ClearRow(n, r)
    PROVE  /\ Models' /\ Elsewhere(n) /\ bitvals' = bitvals /\ full' = full
           /\ n \notin busy /\ quiet' = 0 /\ UNCHANGED mixerVars
           /\ memory'[n] = memory[n] \ {r}
           /\ r \in DOMAIN bitvals[n] => r \in DOMAIN diff'[n] /\ diff'[n][r] = Gone
           /\ r \notin DOMAIN bitvals[n] => r \notin DOMAIN diff'[n]
           /\ \A i : i # r => /\ i \in DOMAIN diff'[n] <=> i \in DOMAIN diff[n]
                              /\ i \in DOMAIN diff[n] => diff'[n][i] = diff[n][i]
<1> DEFINE d == WithoutRow(bitvals[n], diff[n], r)
<1>1. Models /\ bitvals[n] \in Masters /\ diff[n] \in Diffs /\ memory[n] \in SUBSET RowId
  BY TypeHasModels DEF Models
<1>2. /\ d \in Diffs
      /\ r \in DOMAIN bitvals[n] => r \in DOMAIN d /\ d[r] = Gone
      /\ r \notin DOMAIN bitvals[n] => r \notin DOMAIN d
      /\ \A i : i # r => /\ i \in DOMAIN d <=> i \in DOMAIN diff[n]
                         /\ i \in DOMAIN diff[n] => d[i] = diff[n][i]
  BY <1>1, WithoutRowIs
<1>3. /\ orig' = [orig EXCEPT ![n] = @ \ {r}]
      /\ diff' = [diff EXCEPT ![n] = d]
      /\ memory' = [memory EXCEPT ![n] = @ \ {r}]
      /\ bitvals' = bitvals /\ full' = full
      /\ n \notin busy /\ quiet' = 0 /\ UNCHANGED mixerVars
  BY DEF ClearRow
<1> HIDE DEF d
<1>4. diff'[n] = d /\ memory'[n] = memory[n] \ {r} /\ Elsewhere(n)
  BY <1>1, <1>3 DEF Models, Elsewhere
<1>5. IsFiniteSet(memory[n] \ {r}) /\ Cardinality(memory[n] \ {r}) <= MaxSize
  <2>1. IsFiniteSet(memory[n]) /\ Cardinality(memory[n]) \in Nat /\ MaxSize \in Nat
        /\ Cardinality(memory[n]) <= MaxSize
    BY <1>1, FS_CardinalityType, BoundAssumption DEF Models
  <2>2. IsFiniteSet(memory[n] \ {r}) /\ Cardinality(memory[n] \ {r}) \in Nat
        /\ Cardinality(memory[n] \ {r}) <= Cardinality(memory[n])
    BY <2>1, FS_Subset, FS_CardinalityType
  <2>3. QED
    BY <2>1, <2>2
<1>6. Models'
  <2>1. \A m \in Node : IsFiniteSet(memory'[m]) /\ Cardinality(memory'[m]) <= MaxSize
    BY <1>1, <1>4, <1>5 DEF Models, Elsewhere
  <2>2. QED
    BY <1>1, <1>2, <1>3, <2>1 DEF Models
<1>7. QED
  BY <1>2, <1>3, <1>4, <1>6

LEMMA PutRowDoes ==
    ASSUME TypeInv, RoundInv, NEW n \in Node, NEW r \in RowId, PutRow(n, r)
    PROVE  /\ Models' /\ Elsewhere(n) /\ full \subseteq full'
           /\ UNCHANGED <<phase, todo, mixed, busy, quiet>>
           /\ n \in busy /\ r \in rest[n] /\ r \in DOMAIN mixed
           /\ rest' = [rest EXCEPT ![n] = @ \ {r}]
           /\ \A i : i # r => /\ i \in DOMAIN bitvals'[n] <=> i \in DOMAIN bitvals[n]
                              /\ i \in DOMAIN bitvals[n] => bitvals'[n][i] = bitvals[n][i]
           /\ mixed[r] = Gone => r \notin DOMAIN bitvals'[n]
           /\ mixed[r] # Gone =>
                 \/ r \in memory'[n] /\ r \in DOMAIN bitvals'[n] /\ bitvals'[n][r] = mixed[r]
                 \/ "refused" \in full' /\ UNCHANGED <<bitvals, diff, memory>>
           /\ \A i \in memory[n] \ memory'[n] : i # r =>
                 /\ i \in DOMAIN bitvals[n] => i \in DOMAIN diff'[n] /\ diff'[n][i] = Gone
                 /\ i \notin DOMAIN bitvals[n] => i \notin DOMAIN diff'[n]
           /\ \A i : i \notin memory[n] \ memory'[n] =>
                 /\ i \in DOMAIN diff'[n] <=> i \in DOMAIN diff[n]
                 /\ i \in DOMAIN diff[n] => diff'[n][i] = diff[n][i]
           /\ full' = {} => diff'[n] = diff[n]
<1>1. /\ Models /\ bitvals[n] \in Masters /\ diff[n] \in Diffs /\ memory[n] \in SUBSET RowId
      /\ orig[n] \in SUBSET RowId
      /\ mixed \in Diffs /\ rest \in [Node -> SUBSET RowId]
  BY TypeHasModels DEF Models, TypeInv, Diffs
<1>2. /\ UNCHANGED <<phase, todo, mixed, busy, quiet>>
      /\ r \in rest[n] /\ rest' = [rest EXCEPT ![n] = @ \ {r}]
  BY DEF PutRow
<1>3. n \in busy /\ r \in DOMAIN mixed
  BY <1>2 DEF RoundInv
<1>4. CASE mixed[r] = Gone /\ PutRemoval(n, r)
  <2> DEFINE master == Without(bitvals[n], {r})
  <2>10. master \in Masters
    BY <1>1, WithoutIs DEF Masters
  <2>1. DOMAIN master = DOMAIN bitvals[n] \ {r} /\ \A i \in DOMAIN master : master[i] = bitvals[n][i]
    BY DEF Without, Restrict
  <2>2. /\ memory' = [memory EXCEPT ![n] = @ \ {r}] /\ bitvals' = [bitvals EXCEPT ![n] = master]
        /\ UNCHANGED <<diff, orig, full>>
    BY <1>4 DEF PutRemoval
  <2> HIDE DEF master
  <2>3. bitvals'[n] = master /\ memory'[n] = memory[n] \ {r} /\ Elsewhere(n)
    BY <1>1, <2>2 DEF Models, Elsewhere
  <2>4. IsFiniteSet(memory[n] \ {r}) /\ Cardinality(memory[n] \ {r}) <= MaxSize
    <3>1. IsFiniteSet(memory[n]) /\ Cardinality(memory[n]) \in Nat /\ MaxSize \in Nat
          /\ Cardinality(memory[n]) <= MaxSize
      BY <1>1, FS_CardinalityType, BoundAssumption DEF Models
    <3>2. IsFiniteSet(memory[n] \ {r}) /\ Cardinality(memory[n] \ {r}) \in Nat
          /\ Cardinality(memory[n] \ {r}) <= Cardinality(memory[n])
      BY <3>1, FS_Subset, FS_CardinalityType
    <3>3. QED
      BY <3>1, <3>2
  <2>5. Models'
    <3>1. \A m \in Node : IsFiniteSet(memory'[m]) /\ Cardinality(memory'[m]) <= MaxSize
      BY <1>1, <2>3, <2>4 DEF Models, Elsewhere
    <3>2. QED
      BY <1>1, <2>10, <2>2, <3>1 DEF Models
  <2>6. \A i : i # r => /\ i \in DOMAIN bitvals'[n] <=> i \in DOMAIN bitvals[n]
                        /\ i \in DOMAIN bitvals[n] => bitvals'[n][i] = bitvals[n][i]
    BY <2>1, <2>3
  <2>7. r \notin DOMAIN bitvals'[n] /\ \A i \in memory[n] \ memory'[n] : i = r
    BY <2>1, <2>3
  <2>8. full' = full /\ diff' = diff
    BY <2>2
  <2>9. QED
    BY <1>2, <1>3, <1>4, <2>3, <2>5, <2>6, <2>7, <2>8
<1>5. CASE mixed[r] # Gone /\ PutTouched(n, r)
  <2> DEFINE master == With(bitvals[n], r, mixed[r])
  <2>1. mixed[r] \in Value
    BY <1>1, <1>3, <1>5, TableIs DEF Diffs
  <2>2. master \in Masters
    BY <1>1, <2>1, WithType DEF Masters
  <2>3. DOMAIN master = DOMAIN bitvals[n] \cup {r}
    BY DEF With
  <2>4. \A i \in DOMAIN bitvals[n] \cup {r} : master[i] = IF i = r THEN mixed[r] ELSE bitvals[n][i]
    BY DEF With
  <2>5. Touch(n, r, master, diff[n], orig[n])
    BY <1>5 DEF PutTouched
  <2> HIDE DEF master
  <2>6. /\ Elsewhere(n)
        /\ bitvals'[n] = master
        /\ r \in memory'[n]
        /\ \A i \in memory[n] \ memory'[n] :
              /\ i \in DOMAIN bitvals[n] => i \in DOMAIN diff'[n] /\ diff'[n][i] = Gone
              /\ i \notin DOMAIN bitvals[n] => i \notin DOMAIN diff'[n]
        /\ \A i : i \notin memory[n] \ memory'[n] =>
              /\ i \in DOMAIN diff'[n] <=> i \in DOMAIN diff[n]
              /\ i \in DOMAIN diff[n] => diff'[n][i] = diff[n][i]
        /\ full \subseteq full'
        /\ full' = {} => diff'[n] = diff[n]
        /\ Models'
    BY <1>1, <2>2, <2>5, TouchDoes DEF Elsewhere, Models
  <2>7. r \in DOMAIN bitvals'[n] /\ bitvals'[n][r] = mixed[r]
    BY <2>3, <2>4, <2>6
  <2>8. \A i : i # r => /\ i \in DOMAIN bitvals'[n] <=> i \in DOMAIN bitvals[n]
                        /\ i \in DOMAIN bitvals[n] => bitvals'[n][i] = bitvals[n][i]
    BY <2>3, <2>4, <2>6
  <2>9. QED
    BY <1>2, <1>3, <1>5, <2>6, <2>7, <2>8
<1>6. CASE mixed[r] # Gone /\ PutUntouchable(n, r)
  <2>1. full' = full \cup {"refused"} /\ UNCHANGED <<bitvals, diff, orig, memory>>
    BY <1>6 DEF PutUntouchable, modelVars
  <2>2. Models' /\ Elsewhere(n)
    BY <1>1, <2>1 DEF Models, Elsewhere
  <2>3. QED
    BY <1>2, <1>3, <1>6, <2>1, <2>2
<1>7. QED
  BY <1>4, <1>5, <1>6 DEF PutRow

---------------------------------------------------------------------------
(* The types and the round.                                                *)

LEMMA TypeStep == TypeInv /\ RoundInv /\ [Next]_vars => TypeInv'
<1> SUFFICES ASSUME TypeInv, RoundInv, [Next]_vars PROVE TypeInv'
  OBVIOUS
<1> DEFINE Places == /\ phase \in {"idle", "gather", "put"}
                     /\ todo \in SUBSET Node /\ busy \in SUBSET Node
                     /\ mixed \in Diffs
                     /\ rest \in [Node -> SUBSET RowId]
                     /\ quiet \in 0..2
<1>1. Models /\ Places
  BY TypeHasModels DEF TypeInv, Diffs
<1>2. ASSUME Models', Places'
      PROVE  TypeInv'
  BY <1>2 DEF TypeInv, Models, Masters, Diffs
<1>3. ASSUME UNCHANGED modelVars
      PROVE  Models'
  BY <1>1, <1>3 DEF Models, modelVars
<1>4. ASSUME NEW n \in Node, NEW r \in RowId, NEW v \in Value, Update(n, r, v)
      PROVE  TypeInv'
  <2>1. Models' /\ quiet' = 0 /\ UNCHANGED mixerVars
    BY <1>4, UpdateDoes
  <2>2. Places'
    BY <1>1, <2>1 DEF mixerVars
  <2>3. QED
    BY <1>2, <2>1, <2>2
<1>5. ASSUME NEW n \in Node, NEW r \in RowId, ClearRow(n, r)
      PROVE  TypeInv'
  <2>1. Models' /\ quiet' = 0 /\ UNCHANGED mixerVars
    BY <1>5, ClearRowDoes
  <2>2. Places'
    BY <1>1, <2>1 DEF mixerVars
  <2>3. QED
    BY <1>2, <2>1, <2>2
<1>6. CASE StartRound
  <2>1. NoRows \in Diffs
    BY DEF NoRows, Diffs, Tables
  <2>2. Places'
    BY <1>1, <1>6, <2>1 DEF StartRound
  <2>3. QED
    BY <1>2, <1>3, <1>6, <2>2 DEF StartRound
<1>7. ASSUME NEW n \in Node, Gather(n)
      PROVE  TypeInv'
  <2>1. Over(diff[n], mixed) \in Diffs
    BY <1>1, OverIs DEF Models, Diffs
  <2>2. Places'
    BY <1>1, <1>7, <2>1 DEF Gather, Mix
  <2>3. QED
    BY <1>2, <1>3, <1>7, <2>2 DEF Gather
<1>8. CASE StartPut
  <2>1. Places'
    BY <1>1, <1>8 DEF StartPut
  <2>2. QED
    BY <1>2, <1>3, <1>8, <2>1 DEF StartPut
<1>9. ASSUME NEW n \in Node, Put(n)
      PROVE  TypeInv'
  <2>1. DOMAIN mixed \in SUBSET RowId
    BY <1>1, TableIs DEF Diffs
  <2>2. Places'
    BY <1>1, <1>9, <2>1 DEF Put
  <2>3. QED
    BY <1>2, <1>3, <1>9, <2>2 DEF Put
<1>10. ASSUME NEW n \in Node, NEW r \in RowId, PutRow(n, r)
       PROVE  TypeInv'
  <2>1. Models' /\ rest' = [rest EXCEPT ![n] = @ \ {r}]
        /\ UNCHANGED <<phase, todo, mixed, busy, quiet>>
    BY <1>10, PutRowDoes
  <2>2. Places'
    BY <1>1, <2>1
  <2>3. QED
    BY <1>2, <2>1, <2>2
<1>11. ASSUME NEW n \in Node, EndPut(n)
       PROVE  TypeInv'
  <2>1. Kept(diff[n]) \in SUBSET RowId
    BY <1>1, TableIs DEF Models, Diffs, Kept, Removed
  <2>2. [r \in Kept(diff[n]) |-> Gone] \in Diffs
    BY <2>1 DEF Diffs, Tables
  <2>3. diff' = [diff EXCEPT ![n] = [r \in Kept(diff[n]) |-> Gone]]
        /\ UNCHANGED <<bitvals, orig, memory>>
    BY <1>11 DEF EndPut
  <2>4. Models'
    BY <1>1, <2>2, <2>3 DEF Models
  <2>5. Places'
    BY <1>1, <1>11 DEF EndPut
  <2>6. QED
    BY <1>2, <2>4, <2>5
<1>12. CASE EndRound
  <2>1. NoRows \in Diffs
    BY DEF NoRows, Diffs, Tables
  <2>2. Places'
    BY <1>1, <1>12, <2>1 DEF EndRound
  <2>3. QED
    BY <1>2, <1>3, <1>12, <2>2 DEF EndRound
<1>13. CASE UNCHANGED vars
  BY <1>1, <1>2, <1>3, <1>13 DEF vars, mixerVars
<1>14. QED
  BY <1>4, <1>5, <1>6, <1>7, <1>8, <1>9, <1>10, <1>11, <1>12, <1>13 DEF Next

LEMMA RoundStep == TypeInv /\ RoundInv /\ [Next]_vars => RoundInv'
<1> SUFFICES ASSUME TypeInv, RoundInv, [Next]_vars PROVE RoundInv'
  OBVIOUS
<1>1. ASSUME NEW n \in Node, NEW r \in RowId, NEW v \in Value, Update(n, r, v)
      PROVE  RoundInv'
  BY <1>1 DEF Update, mixerVars, RoundInv
<1>2. ASSUME NEW n \in Node, NEW r \in RowId, ClearRow(n, r)
      PROVE  RoundInv'
  BY <1>2 DEF ClearRow, mixerVars, RoundInv
<1>3. CASE StartRound
  BY <1>3 DEF StartRound, RoundInv
<1>4. ASSUME NEW n \in Node, Gather(n)
      PROVE  RoundInv'
  BY <1>4 DEF Gather, RoundInv
<1>5. CASE StartPut
  BY <1>5 DEF StartPut, RoundInv
<1>6. ASSUME NEW n \in Node, Put(n)
      PROVE  RoundInv'
  BY <1>6 DEF Put, RoundInv, TypeInv
<1>7. ASSUME NEW n \in Node, NEW r \in RowId, PutRow(n, r)
      PROVE  RoundInv'
  BY <1>7 DEF PutRow, RoundInv, TypeInv
<1>8. ASSUME NEW n \in Node, EndPut(n)
      PROVE  RoundInv'
  BY <1>8 DEF EndPut, RoundInv
<1>9. CASE EndRound
  BY <1>9 DEF EndRound, RoundInv
<1>10. CASE UNCHANGED vars
  BY <1>10 DEF vars, mixerVars, RoundInv
<1>11. QED
  BY <1>1, <1>2, <1>3, <1>4, <1>5, <1>6, <1>7, <1>8, <1>9, <1>10 DEF Next

---------------------------------------------------------------------------
(* The rows a node shows are tracked.                                      *)

LEMMA TrackStep == TypeInv /\ RoundInv /\ TrackInv /\ [Next]_vars => TrackInv'
<1> SUFFICES ASSUME TypeInv, RoundInv, TrackInv, [Next]_vars, NEW m \in Node
             PROVE  Tracked(m)'
  BY DEF TrackInv
<1>0. Tracked(m)
  BY DEF TrackInv
<1>1. ASSUME UNCHANGED <<bitvals[m], memory[m], diff[m], mixed, rest[m], m \in busy>>
      PROVE  Tracked(m)'
  BY <1>0, <1>1 DEF Tracked
<1>2. ASSUME NEW n \in Node, NEW r \in RowId, NEW v \in Value, Update(n, r, v)
      PROVE  Tracked(m)'
  <2>1. Elsewhere(n) /\ UNCHANGED <<bitvals, mixed, rest, busy>> /\ n \notin busy
    BY <1>2, UpdateDoes DEF mixerVars
  <2>2. CASE m # n
    BY <1>1, <2>1, <2>2 DEF Elsewhere
  <2>3. CASE m = n
    <3>1. /\ r \in memory'[n]
          /\ \A i \in memory[n] \ memory'[n] :
                /\ i \in DOMAIN bitvals[n] => i \in DOMAIN diff'[n] /\ diff'[n][i] = Gone
                /\ i \notin DOMAIN bitvals[n] => i \notin DOMAIN diff'[n]
          /\ \A i : i # r /\ i \notin memory[n] \ memory'[n] =>
                /\ i \in DOMAIN diff'[n] <=> i \in DOMAIN diff[n]
                /\ i \in DOMAIN diff[n] => diff'[n][i] = diff[n][i]
      BY <1>2, UpdateDoes
    <3>2. QED
      BY <1>0, <2>1, <2>3, <3>1 DEF Tracked
  <2>4. QED
    BY <2>2, <2>3
<1>3. ASSUME NEW n \in Node, NEW r \in RowId, ClearRow(n, r)
      PROVE  Tracked(m)'
  <2>1. Elsewhere(n) /\ UNCHANGED <<bitvals, mixed, rest, busy>> /\ n \notin busy
    BY <1>3, ClearRowDoes DEF mixerVars
  <2>2. CASE m # n
    BY <1>1, <2>1, <2>2 DEF Elsewhere
  <2>3. CASE m = n
    <3>1. /\ memory'[n] = memory[n] \ {r}
          /\ r \in DOMAIN bitvals[n] => r \in DOMAIN diff'[n] /\ diff'[n][r] = Gone
          /\ r \notin DOMAIN bitvals[n] => r \notin DOMAIN diff'[n]
          /\ \A i : i # r => /\ i \in DOMAIN diff'[n] <=> i \in DOMAIN diff[n]
                             /\ i \in DOMAIN diff[n] => diff'[n][i] = diff[n][i]
      BY <1>3, ClearRowDoes
    <3>2. QED
      BY <1>0, <2>1, <2>3, <3>1 DEF Tracked
  <2>4. QED
    BY <2>2, <2>3
<1>4. ASSUME UNCHANGED modelVars, busy = {}, busy' = {}
      PROVE  Tracked(m)'
  BY <1>0, <1>4 DEF Tracked, modelVars
<1>5. CASE StartRound
  BY <1>4, <1>5 DEF StartRound, RoundInv
<1>6. ASSUME NEW n \in Node, Gather(n)
      PROVE  Tracked(m)'
  BY <1>4, <1>6 DEF Gather, RoundInv
<1>7. CASE StartPut
  BY <1>4, <1>7 DEF StartPut, RoundInv
<1>8. ASSUME NEW n \in Node, Put(n)
      PROVE  Tracked(m)'
  <2>1. UNCHANGED <<bitvals, memory, diff, mixed>> /\ busy' = busy \cup {n}
        /\ rest' = [rest EXCEPT ![n] = DOMAIN mixed]
    BY <1>8 DEF Put, modelVars
  <2>2. rest \in [Node -> SUBSET RowId]
    BY DEF TypeInv
  <2>3. CASE m # n
    BY <1>1, <2>1, <2>2, <2>3
  <2>4. CASE m = n
    BY <1>0, <2>1, <2>2, <2>4 DEF Tracked
  <2>5. QED
    BY <2>3, <2>4
<1>9. ASSUME NEW n \in Node, NEW r \in RowId, PutRow(n, r)
      PROVE  Tracked(m)'
  <2>1. /\ Elsewhere(n) /\ UNCHANGED <<mixed, busy>> /\ n \in busy
        /\ rest' = [rest EXCEPT ![n] = @ \ {r}]
    BY <1>9, PutRowDoes
  <2>2. rest \in [Node -> SUBSET RowId]
    BY DEF TypeInv
  <2>3. CASE m # n
    BY <1>1, <2>1, <2>2, <2>3 DEF Elsewhere
  <2>4. CASE m = n
    <3>1. /\ \A i : i # r => (i \in DOMAIN bitvals'[n] <=> i \in DOMAIN bitvals[n])
          /\ mixed[r] = Gone => r \notin DOMAIN bitvals'[n]
          /\ mixed[r] # Gone => r \in memory'[n] \/ UNCHANGED <<bitvals, diff, memory>>
          /\ \A i \in memory[n] \ memory'[n] : i # r =>
                (i \in DOMAIN bitvals[n] => i \in DOMAIN diff'[n] /\ diff'[n][i] = Gone)
          /\ \A i : i \notin memory[n] \ memory'[n] =>
                /\ i \in DOMAIN diff'[n] <=> i \in DOMAIN diff[n]
                /\ i \in DOMAIN diff[n] => diff'[n][i] = diff[n][i]
      BY <1>9, PutRowDoes
    <3>2. rest'[n] = rest[n] \ {r}
      BY <2>1, <2>2
    <3>3. ASSUME NEW i \in DOMAIN bitvals'[n] \ memory'[n]
          PROVE  i \in DOMAIN diff'[n] /\ diff'[n][i] = Gone
      <4>1. CASE i = r
        BY <1>0, <2>4, <3>1, <3>3, <4>1 DEF Tracked
      <4>2. CASE i # r
        BY <1>0, <2>4, <3>1, <3>3, <4>2 DEF Tracked
      <4>3. QED
        BY <4>1, <4>2
    <3>4. ASSUME NEW i \in DOMAIN mixed \ rest'[n], mixed[i] = Gone
          PROVE  i \notin DOMAIN bitvals'[n]
      BY <1>0, <2>1, <2>4, <3>1, <3>2, <3>4 DEF Tracked
    <3>5. QED
      BY <2>1, <2>4, <3>3, <3>4 DEF Tracked
  <2>5. QED
    BY <2>3, <2>4
<1>10. ASSUME NEW n \in Node, EndPut(n)
       PROVE  Tracked(m)'
  <2>1. /\ diff' = [diff EXCEPT ![n] = [r \in Kept(diff[n]) |-> Gone]]
        /\ n \in busy /\ rest[n] = {} /\ busy' = busy \ {n}
        /\ UNCHANGED <<bitvals, memory, mixed, rest>>
    BY <1>10 DEF EndPut
  <2>2. diff \in [Node -> Diffs]
    BY TypeHasModels DEF Models
  <2>3. CASE m # n
    BY <1>1, <2>1, <2>2, <2>3
  <2>4. CASE m = n
    <3>1. diff'[n] = [r \in Kept(diff[n]) |-> Gone]
      BY <2>1, <2>2
    <3>2. DOMAIN diff'[n] = Kept(diff[n]) /\ \A i \in Kept(diff[n]) : diff'[n][i] = Gone
      BY <3>1
    <3>3. ASSUME NEW i \in DOMAIN bitvals[n] \ memory[n]
          PROVE  i \in Kept(diff[n])
      BY <1>0, <2>1, <2>4, <3>3 DEF Tracked, Kept, Removed
    <3>4. QED
      BY <2>1, <2>4, <3>2, <3>3 DEF Tracked
  <2>5. QED
    BY <2>3, <2>4
<1>11. CASE EndRound
  BY <1>4, <1>11 DEF EndRound
<1>12. CASE UNCHANGED vars
  BY <1>1, <1>12 DEF vars, modelVars, mixerVars
<1>13. QED
  BY <1>2, <1>3, <1>5, <1>6, <1>7, <1>8, <1>9, <1>10, <1>11, <1>12 DEF Next

---------------------------------------------------------------------------
(* The masters agree.                                                      *)

LEMMA AgreeStep == TypeInv /\ RoundInv /\ AgreeInv /\ [Next]_vars => AgreeInv'
<1> SUFFICES ASSUME TypeInv, RoundInv, AgreeInv, [Next]_vars PROVE AgreeInv'
  OBVIOUS
<1>1. ASSUME UNCHANGED <<bitvals, phase, todo, mixed, rest>>, full \subseteq full'
      PROVE  AgreeInv'
  BY <1>1 DEF AgreeInv, Applied, At
<1>2. ASSUME NEW n \in Node, NEW r \in RowId, NEW v \in Value, Update(n, r, v)
      PROVE  AgreeInv'
  BY <1>1, <1>2, UpdateDoes DEF mixerVars
<1>3. ASSUME NEW n \in Node, NEW r \in RowId, ClearRow(n, r)
      PROVE  AgreeInv'
  BY <1>1, <1>3, ClearRowDoes DEF mixerVars
<1>4. ASSUME UNCHANGED <<bitvals, full>>, phase # "put",
             phase' # "put" \/ todo' = Node
      PROVE  AgreeInv'
  BY <1>4 DEF AgreeInv, Applied, At
<1>5. CASE StartRound
  BY <1>4, <1>5 DEF StartRound, modelVars
<1>6. ASSUME NEW n \in Node, Gather(n)
      PROVE  AgreeInv'
  BY <1>4, <1>6 DEF Gather, modelVars
<1>7. CASE StartPut
  BY <1>4, <1>7 DEF StartPut, modelVars
<1>8. ASSUME NEW n \in Node, Put(n)
      PROVE  AgreeInv'
  <2>1. /\ phase = "put" /\ n \in todo /\ todo' = todo \ {n}
        /\ rest' = [rest EXCEPT ![n] = DOMAIN mixed]
        /\ UNCHANGED <<bitvals, phase, mixed, full>>
    BY <1>8 DEF Put, modelVars
  <2>2. rest \in [Node -> SUBSET RowId]
    BY DEF TypeInv
  <2>3. ASSUME NEW k \in Node, NEW i \in RowId
        PROVE  Applied(k, i)' <=> Applied(k, i)
    BY <2>1, <2>2 DEF Applied
  <2>4. QED
    BY <2>1, <2>3 DEF AgreeInv, At
<1>9. ASSUME NEW n \in Node, NEW r \in RowId, PutRow(n, r)
      PROVE  AgreeInv'
  <2>1. /\ Elsewhere(n) /\ UNCHANGED <<phase, todo, mixed, busy>> /\ full \subseteq full'
        /\ n \in busy /\ r \in rest[n] /\ r \in DOMAIN mixed
        /\ rest' = [rest EXCEPT ![n] = @ \ {r}]
    BY <1>9, PutRowDoes
  <2>2. rest \in [Node -> SUBSET RowId] /\ n \notin todo /\ phase = "put"
    BY <2>1 DEF TypeInv, RoundInv
  <2>3. \A i \in RowId : i # r => At(bitvals'[n], i) = At(bitvals[n], i)
    <3>1. \A i : i # r => /\ i \in DOMAIN bitvals'[n] <=> i \in DOMAIN bitvals[n]
                          /\ i \in DOMAIN bitvals[n] => bitvals'[n][i] = bitvals[n][i]
      BY <1>9, PutRowDoes
    <3>2. QED
      BY <3>1 DEF At
  <2>4. "refused" \notin full' => At(bitvals'[n], r) = mixed[r]
    <3>1. /\ mixed[r] = Gone => r \notin DOMAIN bitvals'[n]
          /\ mixed[r] # Gone => \/ r \in DOMAIN bitvals'[n] /\ bitvals'[n][r] = mixed[r]
                                \/ "refused" \in full'
      BY <1>9, PutRowDoes
    <3>2. QED
      BY <3>1 DEF At
  <2>5. \A k \in Node, i \in RowId :
           /\ k # n \/ i # r => (Applied(k, i)' <=> Applied(k, i))
           /\ k # n \/ i # r => At(bitvals'[k], i) = At(bitvals[k], i)
    BY <2>1, <2>2, <2>3 DEF Applied, Elsewhere
  <2>6. Applied(n, r)'
    BY <2>1, <2>2 DEF Applied
  <2>7. ASSUME "refused" \notin full', NEW k \in Node, NEW l \in Node, NEW i \in RowId
        PROVE  /\ Applied(k, i)' => At(bitvals'[k], i) = mixed'[i]
               /\ ~Applied(k, i)' /\ ~Applied(l, i)' => At(bitvals'[k], i) = At(bitvals'[l], i)
    <3>1. /\ Applied(k, i) => At(bitvals[k], i) = mixed[i]
          /\ ~Applied(k, i) /\ ~Applied(l, i) => At(bitvals[k], i) = At(bitvals[l], i)
      BY <2>1, <2>7 DEF AgreeInv
    <3>2. QED
      BY <2>1, <2>4, <2>5, <2>6, <2>7, <3>1
  <2>8. QED
    BY <2>7 DEF AgreeInv, At
<1>10. ASSUME NEW n \in Node, EndPut(n)
       PROVE  AgreeInv'
  BY <1>1, <1>10 DEF EndPut
<1>11. CASE EndRound
  <2>1. /\ phase = "put" /\ todo = {} /\ busy = {} /\ phase' = "idle"
        /\ UNCHANGED <<bitvals, full>>
    BY <1>11 DEF EndRound, modelVars
  <2>2. \A k \in Node, i \in RowId : (Applied(k, i) <=> i \in DOMAIN mixed) /\ ~Applied(k, i)'
    BY <2>1 DEF Applied, RoundInv
  <2>3. QED
    BY <2>1, <2>2 DEF AgreeInv, At
<1>12. CASE UNCHANGED vars
  BY <1>1, <1>12 DEF vars, modelVars, mixerVars
<1>13. QED
  BY <1>2, <1>3, <1>5, <1>6, <1>7, <1>8, <1>9, <1>10, <1>11, <1>12 DEF Next

---------------------------------------------------------------------------
(* Quiet rounds.                                                           *)

LEMMA QuietStep == TypeInv /\ RoundInv /\ QuietInv /\ [Next]_vars => QuietInv'
<1> SUFFICES ASSUME TypeInv, RoundInv, QuietInv, [Next]_vars, full' = {}, NEW m \in Node
             PROVE  Quieted(m)'
  BY DEF QuietInv
<1>0. /\ full = {} => Quieted(m)
      /\ diff \in [Node -> Diffs] /\ diff[m] \in Diffs /\ mixed \in Diffs /\ quiet \in 0..2
      /\ rest \in [Node -> SUBSET RowId]
  BY TypeHasModels DEF QuietInv, Models, TypeInv, Diffs
<1>1. ASSUME UNCHANGED <<diff[m], phase, mixed, quiet, full, m \in todo, m \in busy>>
      PROVE  Quieted(m)'
  BY <1>0, <1>1 DEF Quieted, OnlyGone, PutDone, Gathered
<1>2. ASSUME quiet' = 0
      PROVE  Quieted(m)'
  BY <1>2 DEF Quieted
<1>3. ASSUME NEW n \in Node, NEW r \in RowId, NEW v \in Value, Update(n, r, v)
      PROVE  Quieted(m)'
  BY <1>2, <1>3 DEF Update
<1>4. ASSUME NEW n \in Node, NEW r \in RowId, ClearRow(n, r)
      PROVE  Quieted(m)'
  BY <1>2, <1>4 DEF ClearRow
<1>5. CASE StartRound
  <2>1. /\ phase = "idle" /\ phase' = "gather" /\ todo' = Node
        /\ UNCHANGED <<diff, full>> /\ mixed' = NoRows
        /\ quiet' = IF quiet < 2 THEN quiet + 1 ELSE 2
    BY <1>5 DEF StartRound, modelVars
  <2>2. quiet' = 2 => quiet = 1 \/ quiet = 2
    BY <1>0, <2>1
  <2>3. quiet' = 2 => OnlyGone(diff[m])
    BY <1>0, <2>1, <2>2 DEF Quieted
  <2>4. OnlyGone(mixed') /\ ~PutDone(m)' /\ ~Gathered(m)' /\ phase' # "idle"
    BY <2>1 DEF OnlyGone, NoRows, PutDone, Gathered
  <2>5. QED
    BY <2>1, <2>3, <2>4 DEF Quieted, OnlyGone
<1>6. ASSUME NEW n \in Node, Gather(n)
      PROVE  Quieted(m)'
  <2>1. /\ phase = "gather" /\ todo' = todo \ {n} /\ mixed' = Over(diff[n], mixed)
        /\ UNCHANGED <<diff, full, phase, quiet>>
    BY <1>6 DEF Gather, Mix, modelVars
  <2>2. DOMAIN mixed' = DOMAIN diff[n] \cup DOMAIN mixed
    BY <2>1 DEF Over
  <2>3. \A i \in DOMAIN mixed' : mixed'[i] = IF i \in DOMAIN diff[n] THEN diff[n][i] ELSE mixed[i]
    BY <2>1 DEF Over
  <2>4. quiet = 2 => OnlyGone(diff[n]) /\ OnlyGone(mixed)
    BY <2>1 DEF QuietInv, Quieted
  <2>5. quiet = 2 => OnlyGone(mixed')
    BY <2>2, <2>3, <2>4 DEF OnlyGone
  <2>6. quiet = 2 /\ Gathered(m)' => DOMAIN diff[m] \subseteq DOMAIN mixed'
    BY <1>0, <2>1, <2>2 DEF Quieted, Gathered
  <2>7. ~PutDone(m)' /\ phase' # "idle"
    BY <2>1 DEF PutDone
  <2>8. QED
    BY <1>0, <2>1, <2>5, <2>6, <2>7 DEF Quieted, OnlyGone
<1>7. CASE StartPut
  <2>1. /\ phase = "gather" /\ todo = {} /\ phase' = "put" /\ todo' = Node
        /\ UNCHANGED <<diff, full, mixed, quiet, busy>>
    BY <1>7 DEF StartPut, modelVars
  <2>2. Gathered(m) /\ ~PutDone(m)' /\ phase' # "idle"
    BY <2>1 DEF Gathered, PutDone
  <2>3. QED
    BY <1>0, <2>1, <2>2 DEF Quieted, OnlyGone
<1>8. ASSUME NEW n \in Node, Put(n)
      PROVE  Quieted(m)'
  <2>1. /\ phase = "put" /\ n \in todo /\ todo' = todo \ {n} /\ busy' = busy \cup {n}
        /\ UNCHANGED <<diff, full, mixed, quiet, phase>>
    BY <1>8 DEF Put, modelVars
  <2>2. (PutDone(m)' <=> PutDone(m)) /\ (Gathered(m)' <=> Gathered(m))
    BY <2>1 DEF PutDone, Gathered
  <2>3. QED
    BY <1>0, <2>1, <2>2 DEF Quieted, OnlyGone
<1>9. ASSUME NEW n \in Node, NEW r \in RowId, PutRow(n, r)
      PROVE  Quieted(m)'
  <2>1. /\ Elsewhere(n) /\ diff'[n] = diff[n] /\ full = {}
        /\ UNCHANGED <<phase, todo, mixed, busy, quiet>>
    BY <1>9, PutRowDoes
  <2>2. diff'[m] = diff[m]
    BY <2>1 DEF Elsewhere
  <2>3. QED
    BY <1>1, <2>1, <2>2
<1>10. ASSUME NEW n \in Node, EndPut(n)
       PROVE  Quieted(m)'
  <2>1. /\ n \in busy /\ busy' = busy \ {n}
        /\ diff' = [diff EXCEPT ![n] = [r \in Kept(diff[n]) |-> Gone]]
        /\ UNCHANGED <<full, phase, mixed, quiet, todo>>
    BY <1>10 DEF EndPut
  <2>2. CASE m # n
    BY <1>0, <1>1, <2>1, <2>2
  <2>3. CASE m = n
    <3>1. DOMAIN diff'[m] = Kept(diff[m]) /\ \A i \in DOMAIN diff'[m] : diff'[m][i] = Gone
      BY <1>0, <2>1, <2>3
    <3>2. Gathered(m) /\ PutDone(m)' /\ phase' # "idle"
      BY <2>1, <2>3 DEF RoundInv, TypeInv, Gathered, PutDone
    <3>3. quiet = 2 => Kept(diff[m]) = {}
      BY <1>0, <2>1, <3>2 DEF Quieted, OnlyGone, Kept, Removed
    <3>4. QED
      BY <1>0, <2>1, <3>1, <3>2, <3>3 DEF Quieted, OnlyGone
  <2>4. QED
    BY <2>2, <2>3
<1>11. CASE EndRound
  <2>1. /\ phase = "put" /\ todo = {} /\ busy = {} /\ phase' = "idle" /\ mixed' = NoRows
        /\ UNCHANGED <<diff, full, quiet>>
    BY <1>11 DEF EndRound, modelVars
  <2>2. PutDone(m) /\ ~Gathered(m)' /\ OnlyGone(mixed')
    BY <2>1 DEF PutDone, Gathered, OnlyGone, NoRows
  <2>3. QED
    BY <1>0, <2>1, <2>2 DEF Quieted, OnlyGone
<1>12. CASE UNCHANGED vars
  BY <1>1, <1>12 DEF vars, modelVars, mixerVars
<1>13. QED
  BY <1>3, <1>4, <1>5, <1>6, <1>7, <1>8, <1>9, <1>10, <1>11, <1>12 DEF Next

---------------------------------------------------------------------------
(* The inductive invariant.                                                *)

LEMMA IInvInit == Init => IInv
<1> SUFFICES ASSUME Init PROVE IInv
  OBVIOUS
<1>1. NoRows \in Masters /\ NoRows \in Diffs
  BY DEF NoRows, Masters, Diffs, Tables
<1>2. DOMAIN NoRows = {}
  BY DEF NoRows
<1>3. IsFiniteSet({}) /\ Cardinality({}) = 0 /\ MaxSize \in Nat
  BY FS_EmptySet, BoundAssumption
<1>4. TypeInv
  BY <1>1, <1>3 DEF Init, TypeInv, Masters, Diffs
<1>5. RoundInv
  BY <1>2 DEF Init, RoundInv
<1>6. TrackInv /\ AgreeInv /\ QuietInv
  BY <1>2 DEF Init, TrackInv, Tracked, AgreeInv, Applied, At, QuietInv, Quieted, Removed
<1>7. QED
  BY <1>4, <1>5, <1>6 DEF IInv

LEMMA IInvStep == IInv /\ [Next]_vars => IInv'
BY TypeStep, RoundStep, TrackStep, AgreeStep, QuietStep DEF IInv

(***************************************************************************)
(* RowsAreServed: the unlearner keeps its bound and knows every row that a *)
(* node shows, whatever MIX brings from the other nodes, what is unlearned *)
(* for it, and what users edit between get_diff and put_diff.              *)
(***************************************************************************)
THEOREM RowsAreServedHere == Spec => []RowsAreServed
<1>1. IInv => RowsAreServed
  <2> SUFFICES ASSUME IInv PROVE RowsAreServed
    OBVIOUS
  <2>1. TypeOK
    <3>1. Models /\ mixed \in Diffs
      BY TypeHasModels DEF IInv, TypeInv, Diffs
    <3>2. ASSUME NEW n \in Node
          PROVE  /\ DOMAIN bitvals[n] \subseteq RowId
                 /\ \A r \in DOMAIN bitvals[n] : bitvals[n][r] \in Value
      BY <3>1, TableIs DEF Models, Masters
    <3>3. ASSUME NEW n \in Node
          PROVE  /\ DOMAIN diff[n] \subseteq RowId
                 /\ \A r \in DOMAIN diff[n] : diff[n][r] \in Value \cup {Gone}
      BY <3>1, TableIs DEF Models, Diffs
    <3>4. DOMAIN mixed \subseteq RowId
      BY <3>1, TableIs DEF Diffs
    <3>5. QED
      BY <3>2, <3>3, <3>4 DEF IInv, TypeInv, TypeOK
  <2>2. RowsAreTracked
    BY DEF IInv, TypeInv, TrackInv, Tracked, RowsAreTracked, all_row_ids, Removed
  <2>3. QED
    BY <2>1, <2>2 DEF RowsAreServed
<1>2. QED
  BY <1>1, IInvInit, IInvStep, PTL DEF Spec

\* Every row is as good as unapplied between rounds.
LEMMA MastersAreTheSame ==
    ASSUME IInv, phase = "idle", "refused" \notin full, NEW n \in Node, NEW m \in Node
    PROVE  bitvals[n] = bitvals[m]
<1>1. bitvals[n] \in Masters /\ bitvals[m] \in Masters
  BY TypeHasModels DEF IInv, Models
<1>2. \A r \in RowId : At(bitvals[n], r) = At(bitvals[m], r)
  BY DEF IInv, AgreeInv, Applied
<1>3. /\ DOMAIN bitvals[n] \subseteq RowId /\ \A r \in DOMAIN bitvals[n] : bitvals[n][r] # Gone
      /\ DOMAIN bitvals[m] \subseteq RowId /\ \A r \in DOMAIN bitvals[m] : bitvals[m][r] # Gone
  BY <1>1, TableIs, GoneAssumption DEF Masters
<1>4. DOMAIN bitvals[n] = DOMAIN bitvals[m]
  BY <1>2, <1>3 DEF At
<1>5. \A r \in DOMAIN bitvals[n] : bitvals[n][r] = bitvals[m][r]
  BY <1>2, <1>3, <1>4 DEF At
<1>6. QED
  BY <1>1, <1>4, <1>5, SameTables DEF Masters

(***************************************************************************)
(* MastersAgree: put_diff makes equal masters of equal masters on all      *)
(* nodes, in whatever order the rows of the mixed difference are walked    *)
(* and whatever the unlearners choose, as long as none refuses a row.      *)
(***************************************************************************)
THEOREM MastersAgreeHere == Spec => []MastersAgree
<1>1. IInv => MastersAgree
  BY MastersAreTheSame DEF MastersAgree
<1>2. QED
  BY <1>1, IInvInit, IInvStep, PTL DEF Spec

(***************************************************************************)
(* QuietRoundsConverge: two rounds without an edit leave every node with   *)
(* an empty difference and the same master, so with the same rows, unless  *)
(* an unlearner was full.                                                  *)
(***************************************************************************)
THEOREM QuietRoundsConvergeHere == Spec => []QuietRoundsConverge
<1>1. IInv => QuietRoundsConverge
  <2> SUFFICES ASSUME IInv, phase = "idle", quiet = 2, full = {}, NEW n \in Node, NEW m \in Node
               PROVE  all_row_ids(n) = all_row_ids(m)
    BY DEF QuietRoundsConverge
  <2>1. bitvals[n] = bitvals[m]
    BY MastersAreTheSame
  <2>2. DOMAIN diff[n] = {} /\ DOMAIN diff[m] = {}
    BY DEF IInv, QuietInv, Quieted
  <2>3. QED
    BY <2>1, <2>2 DEF all_row_ids, Removed
<1>2. QED
  BY <1>1, IInvInit, IInvStep, PTL DEF Spec

---------------------------------------------------------------------------
(* The lsh index: the buckets follow the tables of rows.                   *)

LshTypes ==
    /\ lsh_table \in [Node -> [Hash \X RowId -> Nat]]
    /\ lsh_table_diff \in [Node -> SUBSET (Hash \X RowId)]

\* A row of the master is in the master's bucket of each of its hashes, even
\* one that is removed or replaced in the difference; a row of the difference
\* that is no removal is in the difference's buckets.
InMaster(n) ==
    \A r \in DOMAIN bitvals[n] : \A x \in bitvals[n][r] : lsh_table[n][<<x, r>>] > 0

InDiff(n) ==
    \A r \in DOMAIN diff[n] :
        diff[n][r] # Gone => \A x \in diff[n][r] : <<x, r>> \in lsh_table_diff[n]

LshInv == LshTypes /\ \A n \in Node : InMaster(n) /\ InDiff(n)

LEMMA HashesOf ==
    ASSUME NEW h \in Value, NEW r \in RowId
    PROVE  /\ In(h, r) \subseteq Hash \X RowId
           /\ \A x \in h : x \in Hash /\ <<x, r>> \in In(h, r)
BY DEF In, Hash

LEMMA InOnlyOwn ==
    ASSUME NEW h, NEW r, NEW x, NEW i, <<x, i>> \in In(h, r)
    PROVE  i = r
BY DEF In

\* What the unlearner's callback takes out of the buckets is of rows that
\* left the unlearner, each one a removal in the difference or unknown to it.
LEMMA UnlearnedIs ==
    ASSUME NEW n \in Node, NEW t
    PROVE  /\ Unlearned(n, t) \subseteq t
           /\ \A x, i : <<x, i>> \in t /\ i \notin memory[n] \ memory'[n] => <<x, i>> \in Unlearned(n, t)
<1> DEFINE old == {o \in memory[n] \ memory'[n] : o \in DOMAIN bitvals[n]}
<1>1. Unlearned(n, t) = t \ UNION {In(bitvals[n][o], o) : o \in old}
  BY DEF Unlearned
<1>2. ASSUME NEW x, NEW i, <<x, i>> \in UNION {In(bitvals[n][o], o) : o \in old}
      PROVE  i \in memory[n] \ memory'[n]
  <2>1. PICK o \in old : <<x, i>> \in In(bitvals[n][o], o)
    BY <1>2
  <2>2. i = o
    BY <2>1, InOnlyOwn
  <2>3. QED
    BY <2>2
<1>3. QED
  BY <1>1, <1>2

LEMMA LshTypeUpdate ==
    ASSUME LshTypes, NEW n \in Node, NEW r \in RowId, NEW h \in Value, LshUpdate(n, r, h)
    PROVE  /\ LshTypes' /\ lsh_table' = lsh_table
           /\ lsh_table_diff'[n] = Unlearned(n, set_row(n, r, h))
           /\ \A m \in Node \ {n} : lsh_table_diff'[m] = lsh_table_diff[m]
<1>1. set_row(n, r, h) \subseteq Hash \X RowId
  BY HashesOf DEF set_row, put_empty_entry, LshTypes
<1>2. Unlearned(n, set_row(n, r, h)) \subseteq Hash \X RowId
  BY <1>1, UnlearnedIs
<1>3. /\ lsh_table' = lsh_table
      /\ lsh_table_diff' = [lsh_table_diff EXCEPT ![n] = Unlearned(n, set_row(n, r, h))]
  BY DEF LshUpdate
<1> DEFINE u == Unlearned(n, set_row(n, r, h))
<1> HIDE DEF u
<1>4. u \subseteq Hash \X RowId /\ lsh_table_diff' = [lsh_table_diff EXCEPT ![n] = u]
  BY <1>2, <1>3 DEF u
<1>5. LshTypes' /\ lsh_table_diff'[n] = u /\ \A m \in Node \ {n} : lsh_table_diff'[m] = lsh_table_diff[m]
  BY <1>3, <1>4 DEF LshTypes
<1>6. QED
  BY <1>3, <1>5 DEF u

LEMMA FoundUpdate ==
    ASSUME TypeInv, LshInv, NEW n \in Node, NEW r \in RowId, NEW h \in Value, LshUpdate(n, r, h)
    PROVE  LshInv'
<1> USE DEF LshInv
<1>1. Update(n, r, h)
  BY DEF LshUpdate
<1>2. /\ LshTypes' /\ lsh_table' = lsh_table
      /\ lsh_table_diff'[n] = Unlearned(n, set_row(n, r, h))
      /\ \A m \in Node \ {n} : lsh_table_diff'[m] = lsh_table_diff[m]
  BY LshTypeUpdate
<1>3. /\ Models' /\ Elsewhere(n) /\ bitvals' = bitvals
      /\ r \in memory'[n] /\ r \in DOMAIN diff'[n] /\ diff'[n][r] = h
      /\ \A i \in memory[n] \ memory'[n] :
            /\ i \in DOMAIN bitvals[n] => i \in DOMAIN diff'[n] /\ diff'[n][i] = Gone
            /\ i \notin DOMAIN bitvals[n] => i \notin DOMAIN diff'[n]
      /\ \A i : i # r /\ i \notin memory[n] \ memory'[n] =>
            /\ i \in DOMAIN diff'[n] <=> i \in DOMAIN diff[n]
            /\ i \in DOMAIN diff[n] => diff'[n][i] = diff[n][i]
  BY <1>1, UpdateDoes
<1>4. \A m \in Node : InMaster(m)'
  BY <1>2, <1>3 DEF InMaster
<1>5. \A m \in Node \ {n} : InDiff(m)'
  BY <1>2, <1>3 DEF InDiff, Elsewhere
<1>6. InDiff(n)'
  <2> SUFFICES ASSUME NEW i \in DOMAIN diff'[n], diff'[n][i] # Gone, NEW x \in diff'[n][i]
               PROVE  <<x, i>> \in lsh_table_diff'[n]
    BY DEF InDiff
  <2>1. i \notin memory[n] \ memory'[n]
    BY <1>3
  <2>2. CASE i = r
    <3>1. <<x, r>> \in In(h, r)
      BY <1>3, <2>2, HashesOf
    <3>2. <<x, i>> \in set_row(n, r, h)
      BY <2>2, <3>1 DEF set_row
    <3>3. QED
      BY <1>2, <2>1, <3>2, UnlearnedIs
  <2>3. CASE i # r
    <3>1. <<x, i>> \in lsh_table_diff[n]
      BY <1>3, <2>1, <2>3 DEF InDiff
    <3>2. <<x, i>> \notin In(get_lsh_entry(n, r), r)
      BY <2>3, InOnlyOwn
    <3>3. <<x, i>> \in set_row(n, r, h)
      BY <3>1, <3>2 DEF set_row, put_empty_entry
    <3>4. QED
      BY <1>2, <2>1, <3>3, UnlearnedIs
  <2>4. QED
    BY <2>2, <2>3
<1>7. QED
  BY <1>2, <1>4, <1>5, <1>6

LEMMA FoundClearRow ==
    ASSUME TypeInv, LshInv, NEW n \in Node, NEW r \in RowId, LshClearRow(n, r)
    PROVE  LshInv'
<1> USE DEF LshInv
<1>1. ClearRow(n, r) /\ lsh_table' = lsh_table
  BY DEF LshClearRow
<1> DEFINE u == IF r \in DOMAIN bitvals[n] THEN put_empty_entry(lsh_table_diff[n], bitvals[n][r], r)
                ELSE lsh_table_diff[n]
<1>2. lsh_table_diff' = [lsh_table_diff EXCEPT ![n] = u]
  BY DEF LshClearRow
<1>3. /\ u \subseteq lsh_table_diff[n]
      /\ \A x, i : i # r /\ <<x, i>> \in lsh_table_diff[n] => <<x, i>> \in u
  BY InOnlyOwn DEF put_empty_entry
<1> HIDE DEF u
<1>4. LshTypes' /\ lsh_table_diff'[n] = u /\ \A m \in Node \ {n} : lsh_table_diff'[m] = lsh_table_diff[m]
  BY <1>1, <1>2, <1>3 DEF LshTypes
<1>5. /\ Elsewhere(n) /\ bitvals' = bitvals
      /\ r \in DOMAIN bitvals[n] => r \in DOMAIN diff'[n] /\ diff'[n][r] = Gone
      /\ r \notin DOMAIN bitvals[n] => r \notin DOMAIN diff'[n]
      /\ \A i : i # r => /\ i \in DOMAIN diff'[n] <=> i \in DOMAIN diff[n]
                         /\ i \in DOMAIN diff[n] => diff'[n][i] = diff[n][i]
  BY <1>1, ClearRowDoes
<1>6. \A m \in Node : InMaster(m)'
  BY <1>1, <1>5 DEF InMaster
<1>7. \A m \in Node \ {n} : InDiff(m)'
  BY <1>4, <1>5 DEF InDiff, Elsewhere
<1>8. InDiff(n)'
  <2> SUFFICES ASSUME NEW i \in DOMAIN diff'[n], diff'[n][i] # Gone, NEW x \in diff'[n][i]
               PROVE  <<x, i>> \in lsh_table_diff'[n]
    BY DEF InDiff
  <2>1. i # r
    BY <1>5
  <2>2. <<x, i>> \in lsh_table_diff[n]
    BY <1>5, <2>1 DEF InDiff
  <2>3. QED
    BY <1>3, <1>4, <2>1, <2>2
<1>9. QED
  BY <1>4, <1>6, <1>7, <1>8

\* remove_model_row takes from the row's own buckets only.
LEMMA RemovedIs ==
    ASSUME LshTypes, NEW n \in Node, NEW r \in RowId
    PROVE  /\ remove_model_row(n, r) \in [Hash \X RowId -> Nat]
           /\ \A b \in Hash \X RowId : b[2] # r => remove_model_row(n, r)[b] = lsh_table[n][b]
<1>1. lsh_table[n] \in [Hash \X RowId -> Nat]
  BY DEF LshTypes
<1>2. ASSUME NEW b \in Hash \X RowId
      PROVE  (IF b \in In(get_lsh_entry(n, r), r) /\ lsh_table[n][b] > 0
              THEN lsh_table[n][b] - 1 ELSE lsh_table[n][b]) \in Nat
  <2>1. lsh_table[n][b] \in Nat
    BY <1>1
  <2>2. QED
    BY <2>1
<1>3. ASSUME NEW b \in Hash \X RowId, b[2] # r
      PROVE  b \notin In(get_lsh_entry(n, r), r)
  BY <1>3 DEF In
<1>4. QED
  BY <1>2, <1>3 DEF remove_model_row

\* A mixed row enters the bucket of each of its hashes.
LEMMA RemixedIs ==
    ASSUME LshTypes, NEW n \in Node, NEW r \in RowId
    PROVE  /\ Remixed(n, r) \in [Hash \X RowId -> Nat]
           /\ \A b \in Hash \X RowId : b[2] # r => Remixed(n, r)[b] = lsh_table[n][b]
           /\ \A b \in Hash \X RowId : b \in In(mixed[r], r) => Remixed(n, r)[b] > 0
<1> DEFINE t == remove_model_row(n, r)
<1>1. /\ t \in [Hash \X RowId -> Nat]
      /\ \A b \in Hash \X RowId : b[2] # r => t[b] = lsh_table[n][b]
  BY RemovedIs
<1>2. Remixed(n, r) = [b \in Hash \X RowId |-> IF b \in In(mixed[r], r) THEN t[b] + 1 ELSE t[b]]
  BY DEF Remixed
<1> HIDE DEF t
<1>3. ASSUME NEW b \in Hash \X RowId
      PROVE  /\ Remixed(n, r)[b] \in Nat
             /\ b \in In(mixed[r], r) => Remixed(n, r)[b] > 0
  <2>1. t[b] \in Nat
    BY <1>1
  <2>2. QED
    BY <1>2, <2>1
<1>4. ASSUME NEW b \in Hash \X RowId, b[2] # r
      PROVE  b \notin In(mixed[r], r)
  BY <1>4 DEF In
<1>5. QED
  BY <1>1, <1>2, <1>3, <1>4

\* What the put of one row does to the buckets.
LEMMA LshTypePutRow ==
    ASSUME LshTypes, NEW n \in Node, NEW r \in RowId, LshPutRow(n, r)
    PROVE  /\ LshTypes'
           /\ \A m \in Node \ {n} : /\ lsh_table'[m] = lsh_table[m]
                                    /\ lsh_table_diff'[m] = lsh_table_diff[m]
           /\ \A b \in Hash \X RowId : b[2] # r => lsh_table'[n][b] = lsh_table[n][b]
           /\ mixed[r] # Gone /\ can_touch(memory[n], r) => lsh_table'[n] = Remixed(n, r)
           /\ ~can_touch(memory[n], r) /\ mixed[r] # Gone => lsh_table'[n] = lsh_table[n]
           /\ mixed[r] = Gone => lsh_table_diff'[n] = lsh_table_diff[n]
           /\ mixed[r] # Gone => lsh_table_diff'[n] = Unlearned(n, lsh_table_diff[n])
<1> DEFINE t == IF mixed[r] = Gone THEN remove_model_row(n, r)
                ELSE IF can_touch(memory[n], r) THEN Remixed(n, r) ELSE lsh_table[n]
           u == IF mixed[r] = Gone THEN lsh_table_diff[n] ELSE Unlearned(n, lsh_table_diff[n])
<1>1. /\ lsh_table' = [lsh_table EXCEPT ![n] = t]
      /\ lsh_table_diff' = [lsh_table_diff EXCEPT ![n] = u]
  BY DEF LshPutRow
<1>2. lsh_table[n] \in [Hash \X RowId -> Nat] /\ lsh_table_diff[n] \subseteq Hash \X RowId
  BY DEF LshTypes
<1>3. /\ t \in [Hash \X RowId -> Nat]
      /\ \A b \in Hash \X RowId : b[2] # r => t[b] = lsh_table[n][b]
  BY <1>2, RemovedIs, RemixedIs
<1>4. u \subseteq Hash \X RowId
  BY <1>2, UnlearnedIs
<1>5. /\ mixed[r] # Gone /\ can_touch(memory[n], r) => t = Remixed(n, r)
      /\ ~can_touch(memory[n], r) /\ mixed[r] # Gone => t = lsh_table[n]
      /\ mixed[r] = Gone => u = lsh_table_diff[n]
      /\ mixed[r] # Gone => u = Unlearned(n, lsh_table_diff[n])
  OBVIOUS
<1> HIDE DEF t, u
<1>6. /\ lsh_table'[n] = t /\ lsh_table_diff'[n] = u
      /\ \A m \in Node \ {n} : lsh_table'[m] = lsh_table[m] /\ lsh_table_diff'[m] = lsh_table_diff[m]
  BY <1>1 DEF LshTypes
<1>7. LshTypes'
  BY <1>1, <1>3, <1>4 DEF LshTypes
<1>8. QED
  BY <1>3, <1>5, <1>6, <1>7

\* What the put of one row does to the master.
LEMMA MasterPutRow ==
    ASSUME TypeInv, NEW n \in Node, NEW r \in RowId, PutRow(n, r), mixed[r] # Gone
    PROVE  /\ can_touch(memory[n], r) => bitvals'[n] = With(bitvals[n], r, mixed[r])
           /\ ~can_touch(memory[n], r) => bitvals'[n] = bitvals[n]
<1>1. bitvals \in [Node -> Tables(Value)]
  BY DEF TypeInv
<1>2. CASE can_touch(memory[n], r)
  <2>1. PutTouched(n, r)
    BY <1>2 DEF PutRow
  <2>2. bitvals' = [bitvals EXCEPT ![n] = With(bitvals[n], r, mixed[r])]
    BY <2>1 DEF PutTouched, Touch
  <2>3. QED
    BY <1>1, <1>2, <2>2
<1>3. CASE ~can_touch(memory[n], r)
  <2>1. UNCHANGED modelVars
    BY <1>3 DEF PutRow, PutUntouchable
  <2>2. QED
    BY <1>3, <2>1 DEF modelVars
<1>4. QED
  BY <1>2, <1>3

LEMMA FoundPutRow ==
    ASSUME TypeInv, RoundInv, LshInv, NEW n \in Node, NEW r \in RowId, LshPutRow(n, r)
    PROVE  LshInv'
<1> USE DEF LshInv
<1>1. PutRow(n, r)
  BY DEF LshPutRow
<1>2. /\ LshTypes'
      /\ \A m \in Node \ {n} : lsh_table'[m] = lsh_table[m] /\ lsh_table_diff'[m] = lsh_table_diff[m]
      /\ \A b \in Hash \X RowId : b[2] # r => lsh_table'[n][b] = lsh_table[n][b]
      /\ mixed[r] # Gone /\ can_touch(memory[n], r) => lsh_table'[n] = Remixed(n, r)
      /\ ~can_touch(memory[n], r) /\ mixed[r] # Gone => lsh_table'[n] = lsh_table[n]
      /\ mixed[r] = Gone => lsh_table_diff'[n] = lsh_table_diff[n]
      /\ mixed[r] # Gone => lsh_table_diff'[n] = Unlearned(n, lsh_table_diff[n])
  BY LshTypePutRow
<1>3. /\ Models' /\ Elsewhere(n) /\ r \in DOMAIN mixed
      /\ \A i : i # r => /\ i \in DOMAIN bitvals'[n] <=> i \in DOMAIN bitvals[n]
                         /\ i \in DOMAIN bitvals[n] => bitvals'[n][i] = bitvals[n][i]
      /\ mixed[r] = Gone => r \notin DOMAIN bitvals'[n]
      /\ \A i \in memory[n] \ memory'[n] : i # r =>
            /\ i \in DOMAIN bitvals[n] => i \in DOMAIN diff'[n] /\ diff'[n][i] = Gone
            /\ i \notin DOMAIN bitvals[n] => i \notin DOMAIN diff'[n]
      /\ \A i : i \notin memory[n] \ memory'[n] =>
            /\ i \in DOMAIN diff'[n] <=> i \in DOMAIN diff[n]
            /\ i \in DOMAIN diff[n] => diff'[n][i] = diff[n][i]
      /\ mixed[r] # Gone => r \in memory'[n] \/ UNCHANGED <<bitvals, diff, memory>>
  BY <1>1, PutRowDoes
<1>4. ASSUME NEW i \in RowId, NEW h \in Value, NEW x \in h
      PROVE  <<x, i>> \in Hash \X RowId
  BY HashesOf, <1>4
<1>5. \A m \in Node \ {n} : InMaster(m)' /\ InDiff(m)'
  BY <1>2, <1>3 DEF InMaster, InDiff, Elsewhere
<1>6. InMaster(n)'
  <2> SUFFICES ASSUME NEW i \in DOMAIN bitvals'[n], NEW x \in bitvals'[n][i]
               PROVE  lsh_table'[n][<<x, i>>] > 0
    BY DEF InMaster
  <2>1. i \in RowId /\ bitvals'[n][i] \in Value
    BY <1>3, TableIs DEF Models, Masters
  <2>2. <<x, i>> \in Hash \X RowId
    BY <1>4, <2>1
  <2>3. CASE i # r
    BY <1>2, <1>3, <2>2, <2>3 DEF InMaster
  <2>4. CASE i = r /\ can_touch(memory[n], r)
    <3>1. mixed[r] # Gone
      BY <1>3, <2>4
    <3>2. bitvals'[n] = With(bitvals[n], r, mixed[r]) /\ lsh_table'[n] = Remixed(n, r)
      BY <1>1, <1>2, <2>4, <3>1, MasterPutRow
    <3>3. x \in mixed[r]
      BY <2>4, <3>2 DEF With
    <3>4. <<x, r>> \in In(mixed[r], r)
      BY <3>3 DEF In
    <3>5. QED
      BY <2>2, <2>4, <3>2, <3>4, RemixedIs
  <2>5. CASE i = r /\ ~can_touch(memory[n], r)
    <3>1. mixed[r] # Gone
      BY <1>3, <2>5
    <3>2. bitvals'[n] = bitvals[n] /\ lsh_table'[n] = lsh_table[n]
      BY <1>1, <1>2, <2>5, <3>1, MasterPutRow
    <3>3. QED
      BY <3>2 DEF InMaster
  <2>6. QED
    BY <2>3, <2>4, <2>5
<1>7. InDiff(n)'
  <2> SUFFICES ASSUME NEW i \in DOMAIN diff'[n], diff'[n][i] # Gone, NEW x \in diff'[n][i]
               PROVE  <<x, i>> \in lsh_table_diff'[n]
    BY DEF InDiff
  <2>1. CASE mixed[r] = Gone
    <3>1. diff' = diff
      BY <1>1, <2>1 DEF PutRow, PutRemoval
    <3>2. QED
      BY <1>2, <2>1, <3>1 DEF InDiff
  <2>2. CASE mixed[r] # Gone
    <3>1. i \notin memory[n] \ memory'[n]
      BY <1>3, <2>2
    <3>2. <<x, i>> \in lsh_table_diff[n]
      BY <1>3, <3>1 DEF InDiff
    <3>3. QED
      BY <1>2, <2>2, <3>1, <3>2, UnlearnedIs
  <2>3. QED
    BY <2>1, <2>2
<1>8. QED
  BY <1>2, <1>5, <1>6, <1>7

LEMMA FoundEndPut ==
    ASSUME TypeInv, LshInv, NEW n \in Node, LshEndPut(n)
    PROVE  LshInv'
<1> USE DEF LshInv
<1>1. /\ bitvals' = bitvals /\ lsh_table' = lsh_table
      /\ diff' = [diff EXCEPT ![n] = [r \in Kept(diff[n]) |-> Gone]]
      /\ lsh_table_diff' = [lsh_table_diff EXCEPT ![n] = {}]
  BY DEF LshEndPut, EndPut
<1>2. diff \in [Node -> Tables(Value \cup {Gone})]
  BY DEF TypeInv
<1>3. LshTypes' /\ \A m \in Node \ {n} : lsh_table_diff'[m] = lsh_table_diff[m]
  BY <1>1 DEF LshTypes
<1>4. \A r \in DOMAIN diff'[n] : diff'[n][r] = Gone
  BY <1>1, <1>2
<1>5. \A m \in Node : InMaster(m)'
  BY <1>1 DEF InMaster
<1>6. \A m \in Node \ {n} : diff'[m] = diff[m]
  BY <1>1, <1>2
<1>7. \A m \in Node : InDiff(m)'
  BY <1>3, <1>4, <1>6 DEF InDiff
<1>8. QED
  BY <1>3, <1>5, <1>7

LEMMA LshStep == IInv /\ LshInv /\ [LshNext]_lshVars => IInv' /\ LshInv'
<1> SUFFICES ASSUME IInv, LshInv, [LshNext]_lshVars PROVE IInv' /\ LshInv'
  OBVIOUS
<1>1. TypeInv /\ RoundInv
  BY DEF IInv
<1>2. ASSUME NEW n \in Node, NEW r \in RowId, NEW h \in Value, LshUpdate(n, r, h)
      PROVE  [Next]_vars /\ LshInv'
  BY <1>1, <1>2, FoundUpdate DEF LshUpdate, Next
<1>3. ASSUME NEW n \in Node, NEW r \in RowId, LshClearRow(n, r)
      PROVE  [Next]_vars /\ LshInv'
  BY <1>1, <1>3, FoundClearRow DEF LshClearRow, Next
<1>4. ASSUME NEW n \in Node, NEW r \in RowId, LshPutRow(n, r)
      PROVE  [Next]_vars /\ LshInv'
  BY <1>1, <1>4, FoundPutRow DEF LshPutRow, Next
<1>5. ASSUME NEW n \in Node, LshEndPut(n)
      PROVE  [Next]_vars /\ LshInv'
  BY <1>1, <1>5, FoundEndPut DEF LshEndPut, Next
<1>6. ASSUME LshMixer
      PROVE  [Next]_vars /\ LshInv'
  <2>1. Next
    BY <1>6 DEF LshMixer, Next
  <2>2. UNCHANGED <<bitvals, diff>>
    BY <1>6 DEF LshMixer, StartRound, StartPut, EndRound, Gather, Put, modelVars
  <2>3. UNCHANGED bucketVars
    BY <1>6 DEF LshMixer
  <2>4. QED
    BY <2>1, <2>2, <2>3 DEF LshInv, LshTypes, InMaster, InDiff, bucketVars
<1>7. ASSUME UNCHANGED lshVars
      PROVE  [Next]_vars /\ LshInv'
  <2>1. UNCHANGED vars /\ UNCHANGED bucketVars
    BY <1>7 DEF lshVars
  <2>2. UNCHANGED <<bitvals, diff>>
    BY <2>1 DEF vars, modelVars
  <2>3. QED
    BY <2>1, <2>2 DEF LshInv, LshTypes, InMaster, InDiff, bucketVars
<1>8. [Next]_vars /\ LshInv'
  BY <1>2, <1>3, <1>4, <1>5, <1>6, <1>7 DEF LshNext
<1>9. QED
  BY <1>8, IInvStep

LEMMA LshInitHolds == LshInit => IInv /\ LshInv
<1> SUFFICES ASSUME LshInit PROVE IInv /\ LshInv
  OBVIOUS
<1>1. Init
  BY DEF LshInit
<1>2. /\ lsh_table = [n \in Node |-> [b \in Hash \X RowId |-> 0]]
      /\ lsh_table_diff = [n \in Node |-> {}]
  BY DEF LshInit
<1>3. LshTypes
  BY <1>2 DEF LshTypes
<1>4. \A n \in Node : DOMAIN bitvals[n] = {} /\ DOMAIN diff[n] = {}
  BY <1>1 DEF Init, NoRows
<1>5. QED
  BY <1>1, <1>3, <1>4, IInvInit DEF LshInv, InMaster, InDiff

(***************************************************************************)
(* RowsFindable: every row a node lists is among the candidates of each of *)
(* its own hashes, though the buckets are never mixed: each node remakes   *)
(* them from the rows it puts, which may have been updated, removed or     *)
(* unlearned there since get_diff.                                         *)
(***************************************************************************)
THEOREM RowsFindableHere == LshSpec => [](RowsFindable /\ RowsAreTracked)
<1>1. IInv /\ LshInv => RowsFindable
  <2> SUFFICES ASSUME IInv, LshInv, NEW n \in Node, NEW r \in all_row_ids(n), NEW x \in Hash,
                      x \in get_lsh_entry(n, r)
               PROVE  r \in retrieve_hit_rows(n, {x})
    BY DEF RowsFindable
  <2>1. Models
    BY TypeHasModels DEF IInv
  <2>2. r \in RowId
    BY <2>1, TableIs DEF Models, Masters, Diffs, all_row_ids
  <2>3. CASE r \in DOMAIN diff[n]
    <3>1. diff[n][r] # Gone /\ x \in diff[n][r]
      BY <2>3 DEF all_row_ids, Removed, get_lsh_entry
    <3>2. <<x, r>> \in lsh_table_diff[n]
      BY <2>3, <3>1 DEF LshInv, InDiff
    <3>3. QED
      BY <2>2, <3>2 DEF retrieve_hit_rows
  <2>4. CASE r \notin DOMAIN diff[n]
    <3>1. r \in DOMAIN bitvals[n] /\ x \in bitvals[n][r]
      BY <2>4 DEF all_row_ids, get_lsh_entry
    <3>2. lsh_table[n][<<x, r>>] > 0
      BY <3>1 DEF LshInv, InMaster
    <3>3. QED
      BY <2>2, <3>2 DEF retrieve_hit_rows
  <2>5. QED
    BY <2>3, <2>4
<1>2. IInv => RowsAreTracked
  BY DEF IInv, TypeInv, TrackInv, Tracked, RowsAreTracked, all_row_ids, Removed
<1>3. QED
  BY <1>1, <1>2, LshInitHolds, LshStep, PTL DEF LshSpec

---------------------------------------------------------------------------
(* Bursts: windows of documents and stored results.                        *)

\* A window, or a result: its first batch and the documents in each.
Win == [start : Int, d : [1..WindowSize -> Nat]]

\* Windows of one keyword, the newest first, no more than fit.
Ordered ==
    {ws \in Seq(Win) : /\ Len(ws) <= RotateSize
                       /\ \A i, j \in 1..Len(ws) : i < j => ws[i].start > ws[j].start}

\* What a window has counted in a batch.
CountIn(w, x) == w.d[x - w.start + 1]

\* The windows counted what was accepted, of which nothing is past the first.
Counts(ws, acc) ==
    /\ \A i \in 1..Len(ws) : \A x \in Position : K!Has(ws[i], x) => CountIn(ws[i], x) = acc[x]
    /\ \A x \in Position : (ws = <<>> \/ K!End(ws[1]) <= x) => acc[x] = 0

LEMMA WinHas ==
    ASSUME K!BurstConstants, NEW w \in Win
    PROVE  /\ w.start \in Int /\ WindowSize \in Nat /\ WindowSize >= 1
           /\ w.d \in Seq(Nat) /\ Len(w.d) = WindowSize /\ DOMAIN w.d = 1..WindowSize
           /\ \A i \in 1..WindowSize : w.d[i] \in Nat
           /\ K!End(w) = w.start + WindowSize
           /\ \A x \in Int : K!Has(w, x) <=> w.start <= x /\ x < w.start + WindowSize
<1>1. WindowSize \in Nat /\ WindowSize >= 1 /\ w.start \in Int /\ w.d \in [1..WindowSize -> Nat]
  BY DEF K!BurstConstants, Win
<1>2. w.d \in Seq(Nat)
  BY <1>1, SeqDef
<1>3. Len(w.d) = WindowSize
  BY <1>1, <1>2, LenProperties
<1> QED BY <1>1, <1>2, <1>3 DEF K!End, K!Has

\* A new window, with what the one before has of its batches.
LEMMA NewWindow ==
    ASSUME K!BurstConstants, NEW x \in Nat, NEW prev,
           prev \in Win \/ prev = [start |-> 0, d |-> <<>>]
    PROVE  LET w == K!make_new_window_(x, prev)
           IN  /\ w \in Win /\ w.start <= x /\ x < K!End(w)
               /\ w.start = x - WindowSize \div 2
               /\ \A y \in Int : K!Has(w, y) => CountIn(w, y) = IF K!Has(prev, y) THEN CountIn(prev, y) ELSE 0
<1>1. PICK w : w = K!make_new_window_(x, prev)
  OBVIOUS
<1>2. PICK s : s = x - WindowSize \div 2
  OBVIOUS
<1>3. WindowSize \in Nat /\ WindowSize >= 1 /\ s \in Int /\ s <= x /\ x < s + WindowSize
  BY <1>2 DEF K!BurstConstants
<1>4. w = [start |-> s,
           d |-> [i \in 1..WindowSize |-> IF K!Has(prev, s + i - 1) THEN prev.d[s + i - prev.start] ELSE 0]]
  BY <1>1, <1>2 DEF K!make_new_window_
<1>p. prev.start \in Int
  BY WinHas
<1>d. \A i \in 1..WindowSize :
         w.d[i] = IF K!Has(prev, s + i - 1) THEN prev.d[s + i - prev.start] ELSE 0
  BY <1>4
<1>5. ASSUME NEW i \in 1..WindowSize, K!Has(prev, s + i - 1) PROVE prev.d[s + i - prev.start] \in Nat
  <2>1. CASE prev \in Win
    <3>1. prev.start \in Int /\ prev.start <= s + i - 1 /\ s + i - 1 < prev.start + WindowSize
      BY <1>3, <1>5, <2>1, WinHas
    <3>2. PICK j : j = s + i - prev.start
      OBVIOUS
    <3>3. j \in 1..WindowSize
      BY <1>3, <3>1, <3>2
    <3> QED BY <2>1, <3>2, <3>3, WinHas
  <2>2. CASE prev = [start |-> 0, d |-> <<>>]
    <3>1. prev.start = 0 /\ Len(prev.d) = 0
      BY <2>2
    <3>2. 0 <= s + i - 1 /\ s + i - 1 < 0
      BY <1>5, <3>1 DEF K!Has, K!End
    <3> QED BY <1>3, <3>2
  <2> QED BY <2>1, <2>2
<1>6. w \in Win
  BY <1>4, <1>3, <1>5 DEF Win
<1>7. w.start = s
  BY <1>4
<1>8. ASSUME NEW y \in Int, K!Has(w, y)
      PROVE CountIn(w, y) = IF K!Has(prev, y) THEN CountIn(prev, y) ELSE 0
  <2>1. s <= y /\ y < s + WindowSize
    BY <1>6, <1>7, <1>8, WinHas
  <2>2. PICK i : i = y - s + 1
    OBVIOUS
  <2>3. i \in 1..WindowSize /\ s + i - 1 = y /\ s + i = y + 1
    BY <1>3, <2>1, <2>2
  <2>4. w.d[i] = IF K!Has(prev, y) THEN prev.d[y + 1 - prev.start] ELSE 0
    <3>1. PICK e, g : e = s + i - 1 /\ g = s + i
      OBVIOUS
    <3>2. w.d[i] = IF K!Has(prev, e) THEN prev.d[g - prev.start] ELSE 0
      BY <1>3, <1>d, <1>p, <2>3, <3>1
    <3>3. e = y /\ g = y + 1
      BY <2>3, <3>1
    <3> QED BY <1>p, <3>2, <3>3
  <2>5. ASSUME K!Has(prev, y) PROVE y + 1 - prev.start = y - prev.start + 1
    BY <2>5, <2>1 DEF Win
  <2> QED BY <1>7, <2>2, <2>4, <2>5 DEF CountIn
<1> QED BY <1>1, <1>2, <1>3, <1>6, <1>7, <1>8, WinHas

\* A first part of such windows is one.
LEMMA PartOf ==
    ASSUME NEW ws \in Seq(Win), \A i, j \in 1..Len(ws) : i < j => ws[i].start > ws[j].start,
           NEW n \in Nat, n <= Len(ws), n <= RotateSize
    PROVE  /\ SubSeq(ws, 1, n) \in Ordered /\ Len(SubSeq(ws, 1, n)) = n
           /\ \A i \in 1..n : SubSeq(ws, 1, n)[i] = ws[i]
<1>1. PICK a, S : a = 1 /\ S = Win
  OBVIOUS
<1>2. a \in Int /\ n \in Int /\ \A i \in a..n : ws[i] \in S
  BY <1>1
<1>3. PICK t : t = SubSeq(ws, a, n)
  OBVIOUS
<1>4. /\ t \in Seq(S) /\ Len(t) = IF a <= n THEN n - a + 1 ELSE 0
      /\ \A i \in 1..n - a + 1 : t[i] = ws[a + i - 1]
  BY ONLY <1>2, <1>3, SubSeqProperties
<1>5. t \in Seq(Win) /\ Len(t) = n
  BY <1>1, <1>4
<1>6. \A i \in 1..n : t[i] = ws[i]
  <2> TAKE i \in 1..n
  <2>1. i \in 1..n - a + 1 /\ a + i - 1 = i
    BY <1>1
  <2> QED BY <1>4, <2>1
<1> HIDE DEF Win
<1>7. \A i, j \in 1..Len(t) : i < j => t[i].start > t[j].start
  BY <1>5, <1>6
<1> QED BY <1>1, <1>3, <1>5, <1>6, <1>7 DEF Ordered

LEMMA StartsFall ==
    ASSUME NEW ws \in Ordered
    PROVE  /\ ws \in Seq(Win) /\ Len(ws) \in Nat /\ Len(ws) <= RotateSize /\ DOMAIN ws = 1..Len(ws)
           /\ \A i \in 1..Len(ws) : ws[i] \in Win /\ ws[i].start \in Int
           /\ \A i, j \in 1..Len(ws) : i <= j => ws[j].start <= ws[i].start
<1>1. ws \in Seq(Win) /\ Len(ws) <= RotateSize /\ \A i, j \in 1..Len(ws) : i < j => ws[i].start > ws[j].start
  BY DEF Ordered
<1>2. \A w \in Win : w.start \in Int
  BY DEF Win
<1> HIDE DEF Win
<1>3. \A i \in 1..Len(ws) : ws[i] \in Win
  BY <1>1
<1> QED BY <1>1, <1>2, <1>3

\* A first part that is not empty counts as the whole does.
LEMMA PartCounts ==
    ASSUME NEW ws \in Seq(Win), NEW t \in Seq(Win), Len(t) <= Len(ws), t # <<>>,
           \A i \in 1..Len(t) : t[i] = ws[i]
    PROVE  \A acc : Counts(ws, acc) => Counts(t, acc)
<1> TAKE acc
<1> HAVE Counts(ws, acc)
<1> HIDE DEF Win
<1>1. Len(t) >= 1 /\ ws # <<>> /\ Len(ws) \in Nat /\ Len(t) \in Nat
  OBVIOUS
<1>2. t[1] = ws[1]
  BY <1>1
<1>3. \A i \in 1..Len(t) : \A x \in Position : K!Has(t[i], x) => CountIn(t[i], x) = acc[x]
  BY <1>1 DEF Counts
<1>4. \A x \in Position : K!End(t[1]) <= x => acc[x] = 0
  BY <1>2 DEF Counts
<1> QED BY <1>3, <1>4 DEF Counts

LEMMA InFrontIs ==
    ASSUME NEW S, NEW e \in S, NEW s \in Seq(S)
    PROVE  /\ <<e>> \o s \in Seq(S) /\ Len(<<e>> \o s) = Len(s) + 1
           /\ (<<e>> \o s)[1] = e /\ \A i \in 2..Len(s) + 1 : (<<e>> \o s)[i] = s[i - 1]
<1>1. <<e>> \in Seq(S) /\ Len(<<e>>) = 1 /\ <<e>>[1] = e
  OBVIOUS
<1>2. PICK f : f = <<e>>
  OBVIOUS
<1>3. /\ f \o s \in Seq(S) /\ Len(f \o s) = Len(f) + Len(s)
      /\ \A i \in 1..Len(f) + Len(s) : (f \o s)[i] = IF i <= Len(f) THEN f[i] ELSE s[i - Len(f)]
  BY <1>1, <1>2, ConcatProperties
<1> QED BY <1>1, <1>2, <1>3

LEMMA WindowsIs ==
    ASSUME K!BurstConstants, NEW ws \in Ordered, NEW x \in Nat
    PROVE  LET r == K!Windows(ws, x)
           IN  /\ r \in Ordered /\ r # <<>> /\ x < K!End(r[1])
               /\ \A acc : Counts(ws, acc) => Counts(r, acc)
<1> HIDE DEF Win
<1>0. RotateSize \in Nat \ {0} /\ Position \subseteq Nat
  BY DEF K!BurstConstants
<1>1. CASE ws = <<>>
  <2>1. PICK w : w = K!make_new_window_(x, [start |-> 0, d |-> <<>>])
    OBVIOUS
  <2>2. /\ w \in Win /\ w.start <= x /\ x < K!End(w)
        /\ \A y \in Int : K!Has(w, y) =>
              CountIn(w, y) = IF K!Has([start |-> 0, d |-> <<>>], y) THEN CountIn([start |-> 0, d |-> <<>>], y) ELSE 0
    BY <2>1, NewWindow
  <2>3. \A y \in Int : ~K!Has([start |-> 0, d |-> <<>>], y)
    BY DEF K!Has, K!End
  <2>4. K!Windows(ws, x) = <<w>>
    BY <1>1, <2>1 DEF K!Windows
  <2>5. <<w>> \in Ordered
    BY <1>0, <2>2 DEF Ordered
  <2>6. ASSUME NEW acc, Counts(ws, acc) PROVE Counts(<<w>>, acc)
    <3>1. \A y \in Position : acc[y] = 0
      BY <1>1, <2>6 DEF Counts
    <3>2. \A y \in Position : K!Has(w, y) => CountIn(w, y) = 0
      BY <1>0, <2>2, <2>3
    <3> QED BY <3>1, <3>2 DEF Counts
  <2> QED BY <2>2, <2>4, <2>5, <2>6
<1>2. CASE ws # <<>> /\ K!End(ws[1]) > x
  <2>1. K!Windows(ws, x) = ws
    BY <1>2 DEF K!Windows
  <2>2. ws[1] \in Win
    BY <1>2, StartsFall
  <2>3. K!End(ws[1]) \in Int
    BY <2>2, WinHas
  <2> QED BY <1>2, <2>1, <2>3
<1>3. CASE ws # <<>> /\ ~(K!End(ws[1]) > x)
  <2>1. PICK prev : prev = ws[1]
    OBVIOUS
  <2>2. PICK w : w = K!make_new_window_(x, prev)
    OBVIOUS
  <2>3. PICK n : n = IF Len(ws) + 1 < RotateSize THEN Len(ws) + 1 ELSE RotateSize
    OBVIOUS
  <2>4. K!Windows(ws, x) = SubSeq(<<w>> \o ws, 1, n)
    BY <1>3, <2>1, <2>2, <2>3 DEF K!Windows
  <2>5. ws \in Seq(Win) /\ Len(ws) \in Nat /\ Len(ws) >= 1 /\ prev \in Win
    BY <1>3, <2>1, StartsFall
  <2>6. /\ w \in Win /\ w.start <= x /\ x < K!End(w) /\ w.start = x - WindowSize \div 2
        /\ \A y \in Int : K!Has(w, y) => CountIn(w, y) = IF K!Has(prev, y) THEN CountIn(prev, y) ELSE 0
    BY <2>2, <2>5, NewWindow
  <2>7. /\ WindowSize \in Nat /\ WindowSize >= 1 /\ prev.start \in Int /\ w.start \in Int
        /\ K!End(prev) = prev.start + WindowSize /\ K!End(w) = w.start + WindowSize
    BY <2>5, <2>6, WinHas
  <2>8. prev.start < w.start /\ K!End(prev) <= x
    BY <1>3, <2>1, <2>6, <2>7
  <2>9. PICK u : u = <<w>> \o ws
    OBVIOUS
  <2>10. u \in Seq(Win) /\ Len(u) = Len(ws) + 1 /\ u[1] = w /\ \A i \in 2..Len(ws) + 1 : u[i] = ws[i - 1]
    BY <2>5, <2>6, <2>9, InFrontIs
  <2>11. ASSUME NEW i \in 1..Len(u), NEW j \in 1..Len(u), i < j PROVE u[i].start > u[j].start
    <3>1. j - 1 \in 1..Len(ws) /\ u[j] = ws[j - 1]
      BY <2>5, <2>10, <2>11
    <3>2. CASE i = 1
      <4>1. ws[j - 1].start <= prev.start /\ ws[j - 1].start \in Int
        BY <2>1, <2>5, <3>1, StartsFall
      <4> QED BY <2>7, <2>8, <2>10, <3>1, <3>2, <4>1
    <3>3. CASE i # 1
      <4>1. i - 1 \in 1..Len(ws) /\ u[i] = ws[i - 1] /\ i - 1 < j - 1
        BY <2>5, <2>10, <2>11, <3>3
      <4> QED BY <3>1, <4>1 DEF Ordered
    <3> QED BY <3>2, <3>3
  <2>12. n \in Nat /\ n <= Len(u) /\ n <= RotateSize /\ n >= 1
    BY <1>0, <2>3, <2>5, <2>10
  <2>13. PICK r : r = SubSeq(u, 1, n)
    OBVIOUS
  <2>14. r \in Ordered /\ Len(r) = n /\ \A i \in 1..n : r[i] = u[i]
    BY <2>10, <2>11, <2>12, <2>13, PartOf
  <2>15. r \in Seq(Win) /\ r # <<>> /\ r[1] = w
    BY <2>10, <2>12, <2>14 DEF Ordered
  <2>16. ASSUME NEW acc, Counts(ws, acc) PROVE Counts(r, acc)
    <3>1. \A y \in Position : y \in Int /\ (K!End(prev) <= y => acc[y] = 0)
                              /\ (K!Has(prev, y) => CountIn(prev, y) = acc[y])
      BY <1>0, <1>3, <2>1, <2>5, <2>16 DEF Counts
    <3>2. ASSUME NEW y \in Position, K!Has(w, y) PROVE CountIn(w, y) = acc[y]
      <4>1. w.start <= y /\ y \in Int
        BY <2>6, <3>1, <3>2, WinHas
      <4>2. CASE K!Has(prev, y)
        BY <2>6, <3>1, <3>2, <4>1, <4>2
      <4>3. CASE ~K!Has(prev, y)
        <5>1. K!End(prev) <= y
          <6>1. ~(prev.start <= y /\ y < prev.start + WindowSize)
            BY <2>5, <4>1, <4>3, WinHas
          <6> QED BY <2>7, <2>8, <4>1, <6>1
        <5> QED BY <2>6, <3>1, <3>2, <4>1, <4>3, <5>1
      <4> QED BY <4>2, <4>3
    <3>3. \A y \in Position : K!End(w) <= y => acc[y] = 0
      BY <2>7, <2>8, <3>1
    <3>4. ASSUME NEW i \in 1..Len(u), NEW y \in Position, K!Has(u[i], y) PROVE CountIn(u[i], y) = acc[y]
      <4>1. CASE i = 1
        BY <2>10, <3>2, <3>4, <4>1
      <4>2. CASE i # 1
        <5>1. i - 1 \in 1..Len(ws) /\ u[i] = ws[i - 1]
          BY <2>5, <2>10, <4>2
        <5> QED BY <2>16, <3>4, <5>1 DEF Counts
      <4> QED BY <4>1, <4>2
    <3>5. u # <<>>
      BY <2>5, <2>10
    <3>6. Counts(u, acc)
      BY <2>10, <3>3, <3>4, <3>5 DEF Counts
    <3> QED BY <2>10, <2>12, <2>14, <2>15, <3>6, PartCounts
  <2> QED BY <2>4, <2>6, <2>9, <2>13, <2>14, <2>15, <2>16
<1> QED BY <1>1, <1>2, <1>3

\* Where a document falls in a window, one more is counted there.
LEMMA OneMore ==
    ASSUME K!BurstConstants, NEW w \in Win, NEW x \in Int, K!Has(w, x)
    PROVE  LET b == [w EXCEPT !.d[x - w.start + 1] = @ + 1]
           IN  /\ b \in Win /\ b.start = w.start
               /\ \A y \in Int : K!Has(w, y) => CountIn(b, y) = CountIn(w, y) + (IF y = x THEN 1 ELSE 0)
<1>1. PICK m : m = x - w.start + 1
  OBVIOUS
<1>2. w.start \in Int /\ w.start <= x /\ x < w.start + WindowSize /\ WindowSize \in Nat
  BY WinHas
<1>3. m \in 1..WindowSize
  BY <1>1, <1>2
<1>4. PICK f : f = w.d
  OBVIOUS
<1>5. f \in [1..WindowSize -> Nat] /\ w = [start |-> w.start, d |-> f]
  BY <1>4 DEF Win
<1>6. PICK g : g = [f EXCEPT ![m] = f[m] + 1]
  OBVIOUS
<1>7. g \in [1..WindowSize -> Nat] /\ \A i \in 1..WindowSize : g[i] = IF i = m THEN f[i] + 1 ELSE f[i]
  BY <1>3, <1>5, <1>6
<1>8. PICK b : b = [w EXCEPT !.d[x - w.start + 1] = @ + 1]
  OBVIOUS
<1>9. b = [start |-> w.start, d |-> g]
  <2>1. b = [w EXCEPT !.d = [w.d EXCEPT ![m] = w.d[m] + 1]]
    BY <1>1, <1>8
  <2> QED BY <1>4, <1>5, <1>6, <2>1
<1>10. b \in Win /\ b.start = w.start /\ b.d = g
  BY <1>2, <1>7, <1>9 DEF Win
<1>11. ASSUME NEW y \in Int, K!Has(w, y)
       PROVE CountIn(b, y) = CountIn(w, y) + (IF y = x THEN 1 ELSE 0)
  <2>1. PICK i : i = y - w.start + 1
    OBVIOUS
  <2>2. i \in 1..WindowSize /\ (i = m <=> y = x)
    BY <1>1, <1>2, <1>11, <2>1, WinHas
  <2>3. CountIn(b, y) = g[i] /\ CountIn(w, y) = f[i] /\ f[i] \in Nat
    BY <1>4, <1>5, <1>10, <2>1, <2>2 DEF CountIn
  <2> QED BY <1>7, <2>2, <2>3
<1> QED BY <1>8, <1>10, <1>11

LEMMA CountedIs ==
    ASSUME K!BurstConstants, NEW ws \in Ordered, ws # <<>>, NEW x \in Position, x < K!End(ws[1]),
           NEW acc \in [Position -> Nat], Counts(ws, acc)
    PROVE  LET c == K!Counted(ws, x)
           IN  /\ c \in Ordered /\ c # <<>>
               /\ \A y : K!Has(c[1], y) <=> K!Has(ws[1], y)
               /\ Counts(c, IF K!Has(ws[1], x) THEN [acc EXCEPT ![x] = @ + 1] ELSE acc)
<1> HIDE DEF Win
<1>0. Position \subseteq Nat /\ x \in Int /\ WindowSize \in Nat /\ WindowSize >= 1
  BY DEF K!BurstConstants
<1>s. /\ ws \in Seq(Win) /\ Len(ws) \in Nat /\ Len(ws) <= RotateSize /\ DOMAIN ws = 1..Len(ws)
      /\ \A i \in 1..Len(ws) : ws[i] \in Win /\ ws[i].start \in Int
      /\ \A i, j \in 1..Len(ws) : i <= j => ws[j].start <= ws[i].start
  BY ONLY ws \in Ordered, StartsFall
<1>l. Len(ws) >= 1
  BY <1>s
<1>1. /\ ws \in Seq(Win) /\ Len(ws) \in Nat /\ Len(ws) >= 1 /\ Len(ws) <= RotateSize /\ DOMAIN ws = 1..Len(ws)
      /\ \A i \in 1..Len(ws) : ws[i] \in Win /\ ws[i].start \in Int
      /\ \A i, j \in 1..Len(ws) : i <= j => ws[j].start <= ws[i].start
  BY ONLY <1>s, <1>l
<1>2. PICK c : c = K!Counted(ws, x)
  OBVIOUS
<1>3. \A i \in 1..Len(ws), y \in Int : K!Has(ws[i], y) <=> ws[i].start <= y /\ y < ws[i].start + WindowSize
  BY <1>1, WinHas
<1> DEFINE n == Len(ws)
           Bumped(w) == [w EXCEPT !.d[x - w.start + 1] = @ + 1]
           on(i) == K!Has(ws[1], x) /\ K!Has(ws[i], x)
<1>4. ASSUME NEW i \in 1..n PROVE (\A j \in 1..i : K!Has(ws[j], x)) <=> on(i)
  <2>1. 1 \in 1..i /\ i \in 1..i /\ 1..i \subseteq 1..n
    BY <1>1
  <2>2. ASSUME on(i), NEW j \in 1..i PROVE K!Has(ws[j], x)
    <3>1. ws[1].start <= x /\ x < ws[i].start + WindowSize
      BY <1>0, <1>1, <1>3, <2>2
    <3>2. j \in 1..n /\ ws[j].start <= ws[1].start /\ ws[i].start <= ws[j].start
      BY <1>1, <2>1, <2>2
    <3>3. ws[1].start \in Int /\ ws[i].start \in Int /\ ws[j].start \in Int
      BY <1>1, <3>2
    <3>4. ws[j].start <= x /\ x < ws[j].start + WindowSize
      BY ONLY <1>0, <3>1, <3>2, <3>3
    <3> QED BY ONLY <1>0, <1>3, <3>2, <3>4
  <2> QED BY <2>1, <2>2
<1>5. /\ DOMAIN c = 1..n
      /\ \A i \in 1..n : c[i] = IF on(i) THEN Bumped(ws[i]) ELSE ws[i]
  BY <1>1, <1>2, <1>4 DEF K!Counted
<1>6. ASSUME NEW i \in 1..n
      PROVE /\ c[i] \in Win /\ c[i].start = ws[i].start
            /\ \A y \in Int : K!Has(ws[i], y) =>
                  CountIn(c[i], y) = CountIn(ws[i], y) + (IF on(i) /\ y = x THEN 1 ELSE 0)
  <2>1. PICK w : w = ws[i]
    OBVIOUS
  <2>2. w \in Win
    BY <1>1, <2>1
  <2>3. CASE on(i)
    <3>1. K!Has(w, x) /\ c[i] = Bumped(w)
      BY <1>5, <2>1, <2>3
    <3>2. PICK b : b = [w EXCEPT !.d[x - w.start + 1] = @ + 1]
      OBVIOUS
    <3>3. /\ b \in Win /\ b.start = w.start
          /\ \A y \in Int : K!Has(w, y) => CountIn(b, y) = CountIn(w, y) + (IF y = x THEN 1 ELSE 0)
      BY <1>0, <2>2, <3>1, <3>2, OneMore
    <3>4. c[i] = b
      BY <3>1, <3>2
    <3> HIDE DEF on
    <3> QED BY <2>1, <2>3, <3>3, <3>4
  <2>4. CASE ~on(i)
    <3>1. c[i] = w
      BY <1>5, <2>1, <2>4
    <3>2. ASSUME NEW y \in Int, K!Has(w, y) PROVE CountIn(w, y) \in Int
      <4>1. PICK k : k = y - w.start + 1
        OBVIOUS
      <4>2. k \in 1..WindowSize
        BY <1>0, <1>1, <2>1, <2>2, <3>2, <4>1, WinHas
      <4> QED BY <2>2, <4>1, <4>2, WinHas DEF CountIn
    <3> QED BY <2>1, <2>2, <2>4, <3>1, <3>2
  <2> QED BY <2>3, <2>4
<1>7. c \in Seq(Win) /\ Len(c) = n /\ c # <<>>
  <2>1. c = [i \in 1..n |-> c[i]]
    BY <1>2, <1>5 DEF K!Counted
  <2>2. c \in [1..n -> Win]
    BY <1>6, <2>1
  <2>3. c \in Seq(Win)
    BY <1>1, <2>2, SeqDef
  <2>4. Len(c) = n
    BY <1>1, <1>5, <2>3, LenProperties
  <2> QED BY <1>1, <2>3, <2>4
<1> HIDE DEF Bumped
<1>8. c \in Ordered
  BY <1>1, <1>6, <1>7 DEF Ordered
<1>9. ASSUME NEW i \in 1..n, NEW y PROVE K!Has(c[i], y) <=> K!Has(ws[i], y)
  BY <1>1, <1>6, WinHas DEF K!Has
<1>10. PICK more : more = IF K!Has(ws[1], x) THEN [acc EXCEPT ![x] = @ + 1] ELSE acc
  OBVIOUS
<1>11. \A y \in Position : /\ acc[y] \in Nat /\ y \in Int
                           /\ more[y] = acc[y] + (IF K!Has(ws[1], x) /\ y = x THEN 1 ELSE 0)
  BY <1>0, <1>10
<1>12. ASSUME NEW i \in 1..n, NEW y \in Position, K!Has(c[i], y) PROVE CountIn(c[i], y) = more[y]
  <2>1. K!Has(ws[i], y) /\ CountIn(ws[i], y) = acc[y]
    BY <1>9, <1>12 DEF Counts
  <2>2. CountIn(c[i], y) = acc[y] + (IF on(i) /\ y = x THEN 1 ELSE 0)
    BY <1>6, <1>11, <2>1
  <2>3. (on(i) /\ y = x) <=> (K!Has(ws[1], x) /\ y = x)
    BY <2>1
  <2> QED BY <1>11, <2>2, <2>3
<1>13. ASSUME NEW y \in Position, K!End(c[1]) <= y PROVE more[y] = 0
  <2>1. K!End(c[1]) = K!End(ws[1]) /\ K!End(ws[1]) \in Int
    <3>1. PICK e, w : e = c[1] /\ w = ws[1]
      OBVIOUS
    <3>2. e \in Win /\ w \in Win /\ e.start = w.start
      BY <1>1, <1>6, <3>1
    <3>3. K!End(e) = e.start + WindowSize /\ K!End(w) = w.start + WindowSize /\ w.start \in Int
      BY <3>2, WinHas
    <3> QED BY <1>0, <3>1, <3>2, <3>3
  <2>2. acc[y] = 0 /\ y # x
    BY <1>0, <1>13, <2>1 DEF Counts
  <2>3. more[y] = acc[y] + 0
    BY <1>11, <2>2
  <2> QED BY <2>2, <2>3
<1>14. Counts(c, more)
  BY <1>7, <1>12, <1>13 DEF Counts
<1>15. \A y : K!Has(c[1], y) <=> K!Has(ws[1], y)
  BY <1>1, <1>9
<1> QED BY <1>2, <1>7, <1>8, <1>10, <1>14, <1>15

\* An element put in before another.
LEMMA InsertIs ==
    ASSUME NEW S, NEW e \in S, NEW s \in Seq(S), NEW i \in 1..Len(s)
    PROVE  LET t == K!InsertAt(s, i, e)
           IN  /\ t \in Seq(S) /\ Len(t) = Len(s) + 1
               /\ \A j \in 1..Len(s) + 1 : t[j] = IF j < i THEN s[j] ELSE IF j = i THEN e ELSE s[j - 1]
<1>1. PICK n, h : n = Len(s) /\ h = i - 1
  OBVIOUS
<1>2. n \in Nat /\ i \in Int /\ h \in Nat /\ h < n /\ i = h + 1 /\ \A j \in 1..n : s[j] \in S
  BY <1>1
<1>o. PICK o : o = 1
  OBVIOUS
<1>3. PICK a, b : a = SubSeq(s, o, h) /\ b = SubSeq(s, i, n)
  OBVIOUS
<1>4. o \in Int /\ h \in Int /\ i \in Int /\ n \in Int /\ (\A j \in o..h : s[j] \in S) /\ \A j \in i..n : s[j] \in S
  BY <1>2, <1>o
<1>5. /\ a \in Seq(S) /\ Len(a) = IF o <= h THEN h - o + 1 ELSE 0
      /\ \A j \in 1..h - o + 1 : a[j] = s[o + j - 1]
  BY ONLY <1>3, <1>4, SubSeqProperties
<1>6. /\ b \in Seq(S) /\ Len(b) = IF i <= n THEN n - i + 1 ELSE 0
      /\ \A j \in 1..n - i + 1 : b[j] = s[i + j - 1]
  BY ONLY <1>3, <1>4, SubSeqProperties
<1>7. a \in Seq(S) /\ Len(a) = h /\ \A j \in 1..h : a[j] = s[j]
  BY <1>2, <1>5, <1>o
<1>8. b \in Seq(S) /\ Len(b) = n - h
  BY <1>2, <1>6
<1>9. ASSUME NEW j \in 1..n - h PROVE b[j] = s[h + j]
  <2>1. j \in 1..n - i + 1 /\ i + j - 1 = h + j
    BY <1>2
  <2> QED BY <1>6, <2>1
<1>10. PICK c : c = <<e>>
  OBVIOUS
<1>11. c \in Seq(S) /\ Len(c) = 1 /\ c[1] = e
  BY <1>10
<1>12. PICK ac : ac = a \o c
  OBVIOUS
<1>13. /\ ac \in Seq(S) /\ Len(ac) = Len(a) + Len(c)
       /\ \A j \in 1..Len(a) + Len(c) : ac[j] = IF j <= Len(a) THEN a[j] ELSE c[j - Len(a)]
  BY ONLY <1>7, <1>11, <1>12, ConcatProperties
<1>14. PICK t : t = ac \o b
  OBVIOUS
<1>15. /\ t \in Seq(S) /\ Len(t) = Len(ac) + Len(b)
       /\ \A j \in 1..Len(ac) + Len(b) : t[j] = IF j <= Len(ac) THEN ac[j] ELSE b[j - Len(ac)]
  <2>1. ac \in Seq(S)
    BY <1>13
  <2> QED BY ONLY <1>8, <2>1, <1>14, ConcatProperties
<1>16. Len(ac) = i /\ Len(t) = n + 1
  BY <1>2, <1>7, <1>8, <1>11, <1>13, <1>15
<1>17. ASSUME NEW j \in 1..n + 1
       PROVE t[j] = IF j < i THEN s[j] ELSE IF j = i THEN e ELSE s[j - 1]
  <2>1. t[j] = IF j <= i THEN ac[j] ELSE b[j - i]
    BY <1>15, <1>16
  <2>2. CASE j < i
    <3>1. j \in 1..h /\ j <= i /\ j \in 1..Len(a) + Len(c)
      BY <1>2, <1>7, <1>11, <2>2
    <3>2. ac[j] = a[j]
      BY <1>7, <1>13, <3>1
    <3> QED BY <1>7, <2>1, <2>2, <3>1, <3>2
  <2>3. CASE j = i
    <3>1. j \in 1..Len(a) + Len(c) /\ ~(j <= Len(a)) /\ j - Len(a) = 1
      BY <1>2, <1>7, <1>11, <2>3
    <3>2. ac[j] = c[1]
      BY <1>13, <3>1
    <3> QED BY <1>2, <1>11, <2>1, <2>3, <3>2
  <2>4. CASE j > i
    <3>1. PICK k : k = j - i
      OBVIOUS
    <3>2. k \in 1..n - h /\ h + k = j - 1
      BY <1>2, <2>4, <3>1
    <3>3. t[j] = b[k]
      BY <1>2, <2>1, <2>4, <3>1
    <3>4. b[k] = s[h + k]
      BY <1>9, <3>2
    <3>5. b[k] = s[j - 1] /\ ~(j < i) /\ j # i
      BY <1>2, <2>4, <3>2, <3>4
    <3> QED BY ONLY <3>3, <3>5
  <2> QED BY <1>2, <2>2, <2>3, <2>4
<1>18. t = K!InsertAt(s, i, e)
  BY <1>1, <1>3, <1>10, <1>12, <1>14, <1>o DEF K!InsertAt
<1> QED BY <1>1, <1>15, <1>16, <1>17, <1>18

Falling(ws) == ws \in Seq(Win) /\ \A i, j \in 1..Len(ws) : i < j => ws[i].start > ws[j].start

LEMMA CutIs ==
    ASSUME K!BurstConstants, NEW ws, Falling(ws)
    PROVE  SubSeq(ws, 1, IF Len(ws) < RotateSize THEN Len(ws) ELSE RotateSize) \in Ordered
<1>1. PICK n : n = IF Len(ws) < RotateSize THEN Len(ws) ELSE RotateSize
  OBVIOUS
<1>2. ws \in Seq(Win) /\ \A i, j \in 1..Len(ws) : i < j => ws[i].start > ws[j].start
  BY DEF Falling
<1> HIDE DEF Win
<1>3. n \in Nat /\ n <= Len(ws) /\ n <= RotateSize
  BY <1>1, <1>2 DEF K!BurstConstants
<1> QED BY ONLY <1>1, <1>2, <1>3, PartOf

\* What is stored stays in order and fits.
LEMMA StoreIs ==
    ASSUME K!BurstConstants, NEW rs \in Ordered, NEW r \in Win, NEW m
    PROVE  K!Store(rs, r, m) \in Ordered
<1> DEFINE at == {i \in DOMAIN rs : rs[i].start <= r.start}
           least == CHOOSE i \in at : \A j \in at : i <= j
           new == IF rs = <<>> THEN <<r>>
                  ELSE IF at = {} THEN rs
                  ELSE IF rs[least].start < r.start THEN K!InsertAt(rs, least, r)
                  ELSE IF m /\ K!Sum(rs[least].d) >= K!Sum(r.d) THEN rs
                  ELSE [rs EXCEPT ![least] = r]
<1>1. K!Store(rs, r, m) = SubSeq(new, 1, IF Len(new) < RotateSize THEN Len(new) ELSE RotateSize)
  BY DEF K!Store
<1>2. /\ rs \in Seq(Win) /\ Len(rs) \in Nat /\ DOMAIN rs = 1..Len(rs)
      /\ \A i \in 1..Len(rs) : rs[i] \in Win /\ rs[i].start \in Int
      /\ \A i, j \in 1..Len(rs) : i <= j => rs[j].start <= rs[i].start
  BY StartsFall
<1>3. Falling(rs)
  BY DEF Ordered, Falling
<1>4. r.start \in Int
  BY WinHas
<1>5. ASSUME at # {} PROVE least \in at /\ \A j \in at : least <= j
  <2>1. at \in SUBSET Nat /\ at # {}
    BY <1>2, <1>5
  <2> HIDE DEF at
  <2>2. \E i \in at : \A j \in at : i <= j
    BY ONLY <2>1, Least
  <2> QED BY <2>2
<1>6. PICK l : l = least
  OBVIOUS
<1>7. Falling(new)
  <2>1. CASE rs = <<>>
    <3>1. <<r>> \in Seq(Win) /\ Len(<<r>>) = 1
      OBVIOUS
    <3> HIDE DEF Win
    <3>2. Falling(<<r>>)
      BY <3>1 DEF Falling
    <3> QED BY <2>1, <3>2
  <2>2. CASE rs # <<>> /\ at = {}
    BY <1>3, <2>2
  <2>3. CASE rs # <<>> /\ at # {}
    <3>1. /\ l \in 1..Len(rs) /\ rs[l].start <= r.start
          /\ \A j \in 1..Len(rs) : rs[j].start <= r.start => l <= j
      BY <1>2, <1>5, <1>6, <2>3
    <3>2. CASE rs[l].start < r.start
      <4>1. PICK t : t = K!InsertAt(rs, l, r)
        OBVIOUS
      <4>2. /\ t \in Seq(Win) /\ Len(t) = Len(rs) + 1
            /\ \A j \in 1..Len(rs) + 1 : t[j] = IF j < l THEN rs[j] ELSE IF j = l THEN r ELSE rs[j - 1]
        <5> HIDE DEF Win
        <5> QED BY <1>2, <3>1, <4>1, InsertIs
      <4>3. ASSUME NEW i \in 1..Len(rs) + 1, NEW j \in 1..Len(rs) + 1, i < j
            PROVE t[i].start > t[j].start
        <5>0. l \in Int /\ rs[l].start \in Int /\ Len(rs) \in Nat
          BY <1>2, <3>1
        <5>1. ASSUME NEW k \in 1..Len(rs), k < l PROVE rs[k].start > r.start
          BY <1>2, <1>4, <3>1, <5>1
        <5>2. ASSUME NEW k \in l..Len(rs) PROVE rs[k].start < r.start
          <6>1. k \in 1..Len(rs) /\ l <= k
            BY <3>1
          <6>2. rs[k].start <= rs[l].start /\ rs[k].start \in Int
            BY <1>2, <3>1, <6>1
          <6> QED BY <1>4, <3>2, <5>0, <6>2
        <5>3. CASE j < l
          <6>1. i \in 1..Len(rs) /\ j \in 1..Len(rs) /\ t[i] = rs[i] /\ t[j] = rs[j]
            BY <4>2, <4>3, <5>0, <5>3, <3>1
          <6> QED BY <1>3, <4>3, <6>1 DEF Falling
        <5>4. CASE j = l
          <6>1. i \in 1..Len(rs) /\ i < l /\ t[i] = rs[i] /\ t[j] = r
            BY <4>2, <4>3, <5>0, <5>4, <3>1
          <6> QED BY <5>1, <6>1
        <5>5. CASE j > l
          <6>1. j - 1 \in l..Len(rs) /\ j - 1 \in 1..Len(rs) /\ t[j] = rs[j - 1] /\ rs[j - 1].start \in Int
            BY <1>2, <4>2, <5>0, <5>5, <3>1
          <6>2. rs[j - 1].start < r.start
            BY <5>2, <6>1
          <6>3. CASE i < l
            <7>1. i \in 1..Len(rs) /\ t[i] = rs[i]
              BY <4>2, <5>0, <6>3, <3>1
            <7>2. rs[i].start > r.start /\ rs[i].start \in Int
              BY <1>2, <5>1, <6>3, <7>1
            <7> QED BY <1>4, <6>1, <6>2, <7>1, <7>2
          <6>4. CASE i = l
            <7>1. t[i] = r
              BY <4>2, <5>0, <6>4
            <7> QED BY <1>4, <6>1, <6>2, <7>1
          <6>5. CASE i > l
            <7>1. i - 1 \in 1..Len(rs) /\ t[i] = rs[i - 1] /\ i - 1 < j - 1
              BY <4>2, <4>3, <5>0, <6>5, <3>1
            <7> QED BY <1>3, <6>1, <7>1 DEF Falling
          <6> QED BY <5>0, <6>3, <6>4, <6>5
        <5> QED BY <5>0, <5>3, <5>4, <5>5
      <4>4. Falling(t)
        <5> HIDE DEF Win
        <5> QED BY <4>2, <4>3 DEF Falling
      <4>5. new = t
        BY <1>6, <2>3, <3>2, <4>1
      <4> QED BY <4>4, <4>5
    <3>3. CASE ~(rs[l].start < r.start)
      <4>1. rs[l].start = r.start
        BY <1>2, <1>4, <3>1, <3>3
      <4>2. PICK t : t = [rs EXCEPT ![l] = r]
        OBVIOUS
      <4>3. t \in Seq(Win) /\ Len(t) = Len(rs) /\ \A j \in 1..Len(rs) : t[j] = IF j = l THEN r ELSE rs[j]
        <5> HIDE DEF Win
        <5> QED BY <1>2, <3>1, <4>2, ExceptSeq
      <4>4. \A j \in 1..Len(rs) : t[j].start = rs[j].start
        BY <4>1, <4>3
      <4>5. Falling(t)
        <5> HIDE DEF Win
        <5> QED BY <1>3, <4>3, <4>4 DEF Falling
      <4>6. new = rs \/ new = t
        BY <1>6, <2>3, <3>3, <4>2
      <4> QED BY <1>3, <4>5, <4>6
    <3> QED BY <3>2, <3>3
  <2> QED BY <2>1, <2>2, <2>3
<1> HIDE DEF new
<1> QED BY <1>1, <1>7, CutIs

\* f is the function that StoreAll folds with, up to n results.
StoreFold(f, st, rs, m, n) ==
    f = [i \in 0..n |-> IF i = 0 THEN st ELSE K!StoreIn(f[i - 1], rs[i], m)]

LEMMA StoreFoldIs ==
    ASSUME NEW st, NEW rs, NEW m, Len(rs) \in Nat
    PROVE  \E f : StoreFold(f, st, rs, m, Len(rs)) /\ K!StoreAll(st, rs, m) = f[Len(rs)]
<1> DEFINE Bad == {n \in Nat : ~ \E f : StoreFold(f, st, rs, m, n)}
<1>1. Bad = {}
  <2> SUFFICES ASSUME Bad # {} PROVE FALSE
    OBVIOUS
  <2>1. PICK n \in Bad : \A k \in Bad : n <= k
    <3>1. Bad \in SUBSET Nat /\ Bad # {}
      OBVIOUS
    <3> HIDE DEF Bad
    <3> QED BY ONLY <3>1, Least
  <2>2. n # 0
    <3>1. StoreFold([i \in 0..0 |-> st], st, rs, m, 0)
      BY DEF StoreFold
    <3> QED BY <3>1
  <2>3. n - 1 \in Nat /\ n - 1 \notin Bad
    BY <2>1, <2>2
  <2>4. PICK f : StoreFold(f, st, rs, m, n - 1)
    BY <2>3
  <2> DEFINE g == [i \in 0..n |-> IF i = n THEN K!StoreIn(f[n - 1], rs[n], m) ELSE f[i]]
  <2>5. StoreFold(g, st, rs, m, n)
    <3>1. n \in Nat \ {0} /\ n - 1 \in 0..n /\ g[n - 1] = f[n - 1]
      BY <2>1, <2>2
    <3>2. ASSUME NEW i \in 0..n
          PROVE g[i] = IF i = 0 THEN st ELSE K!StoreIn(g[i - 1], rs[i], m)
      <4>1. CASE i = n
        BY <3>1, <4>1
      <4>2. CASE i # n
        <5>1. i \in 0..(n - 1) /\ g[i] = f[i] /\ (i # 0 => i - 1 \in 0..(n - 1) /\ g[i - 1] = f[i - 1])
          BY <3>1, <4>2
        <5> HIDE DEF g
        <5> QED BY <2>4, <5>1 DEF StoreFold
      <4> QED BY <4>1, <4>2
    <3> QED BY <3>2 DEF StoreFold
  <2> QED BY <2>1, <2>5
<1>2. \E f : StoreFold(f, st, rs, m, Len(rs))
  BY <1>1
<1> QED BY <1>2 DEF StoreFold, K!StoreAll

\* A storage of results in order.
Keeps(st) == "results" \in DOMAIN st /\ st.results \in Ordered

\* Results stored one after the other stay in order and fit.
LEMMA StoreAllIs ==
    ASSUME K!BurstConstants, NEW st, Keeps(st), NEW rs \in Seq(Win), NEW m
    PROVE  Keeps(K!StoreAll(st, rs, m))
<1> HIDE DEF Win
<1>1. Len(rs) \in Nat /\ \A n \in 1..Len(rs) : rs[n] \in Win
  OBVIOUS
<1>2. PICK f : StoreFold(f, st, rs, m, Len(rs)) /\ K!StoreAll(st, rs, m) = f[Len(rs)]
  BY <1>1, StoreFoldIs
<1>3. f[0] = st /\ \A n \in 1..Len(rs) : f[n] = K!StoreIn(f[n - 1], rs[n], m)
  BY <1>1, <1>2 DEF StoreFold
<1> DEFINE Bad == {n \in 0..Len(rs) : ~Keeps(f[n])}
<1>4. Bad = {}
  <2> SUFFICES ASSUME Bad # {} PROVE FALSE
    OBVIOUS
  <2>1. PICK n \in Bad : \A k \in Bad : n <= k
    <3>1. Bad \in SUBSET Nat /\ Bad # {}
      BY <1>1
    <3> HIDE DEF Bad
    <3> QED BY ONLY <3>1, Least
  <2>2. n # 0
    BY <1>3, <2>1
  <2>3. n \in 1..Len(rs) /\ n - 1 \in 0..Len(rs) /\ n - 1 \notin Bad
    BY <1>1, <2>1, <2>2
  <2>4. PICK q, r : q = f[n - 1] /\ r = rs[n]
    OBVIOUS
  <2>5. PICK old : old = q.results
    OBVIOUS
  <2>6. old \in Ordered /\ r \in Win
    BY <1>1, <2>3, <2>4, <2>5 DEF Keeps
  <2>7. K!Store(old, r, m) \in Ordered
    BY ONLY <2>6, StoreIs, K!BurstConstants
  <2>8. f[n].results = K!Store(old, r, m) /\ "results" \in DOMAIN f[n]
    <3>1. f[n] = K!StoreIn(q, r, m)
      BY <1>3, <2>3, <2>4
    <3> QED BY <2>5, <3>1 DEF K!StoreIn
  <2> QED BY <2>1, <2>7, <2>8 DEF Keeps
<1> QED BY <1>1, <1>2, <1>4

\* Flushing leaves the newest window and counts.
LEMMA FlushedIs ==
    ASSUME K!BurstConstants, NEW ws \in Ordered
    PROVE  /\ K!Flushed(ws) \in Ordered
           /\ \A acc : Counts(ws, acc) => Counts(K!Flushed(ws), acc)
<1> DEFINE gone == {i \in DOMAIN ws : \A j \in i..Len(ws) : K!End(ws[j]) <= ws[1].start}
<1>1. /\ ws \in Seq(Win) /\ Len(ws) \in Nat /\ Len(ws) <= RotateSize /\ DOMAIN ws = 1..Len(ws)
      /\ \A i \in 1..Len(ws) : ws[i] \in Win
      /\ \A i, j \in 1..Len(ws) : i < j => ws[i].start > ws[j].start
  BY StartsFall DEF Ordered
<1>2. IsFiniteSet(2..Len(ws)) /\ Cardinality(2..Len(ws)) = IF 2 <= Len(ws) THEN Len(ws) - 1 ELSE 0
  BY <1>1, FS_Interval
<1>3. gone \subseteq 2..Len(ws)
  <2> SUFFICES ASSUME NEW i \in gone PROVE i # 1
    BY <1>1
  <2>1. SUFFICES ASSUME i = 1 PROVE FALSE
    OBVIOUS
  <2>2. 1 \in i..Len(ws) /\ ws[1] \in Win
    BY <1>1, <2>1
  <2>3. K!End(ws[1]) <= ws[1].start
    BY <2>2
  <2>4. PICK w : w = ws[1]
    OBVIOUS
  <2>5. K!End(w) = w.start + WindowSize /\ w.start \in Int /\ WindowSize \in Nat /\ WindowSize >= 1
    BY <2>2, <2>4, WinHas
  <2> QED BY <2>3, <2>4, <2>5
<1>4. PICK c, n : c = K!Cardinality(gone) /\ n = Len(ws) - c
  OBVIOUS
<1>c. \A S : K!Cardinality(S) = Cardinality(S)
  BY DEF K!Cardinality, Cardinality
<1>5. c \in Nat /\ c <= IF 2 <= Len(ws) THEN Len(ws) - 1 ELSE 0
  <2> HIDE DEF gone
  <2>1. PICK G : G = 2..Len(ws)
    OBVIOUS
  <2>2. IsFiniteSet(G) /\ gone \in SUBSET G
    BY <1>2, <1>3, <2>1
  <2>3. IsFiniteSet(gone) /\ Cardinality(gone) <= Cardinality(G)
    BY ONLY <2>2, FS_Subset
  <2>4. Cardinality(gone) \in Nat
    BY ONLY <2>3, FS_CardinalityType
  <2>5. c = Cardinality(gone)
    BY <1>4, <1>c
  <2> QED BY <1>2, <2>1, <2>3, <2>4, <2>5
<1>6. n \in Nat /\ n <= Len(ws) /\ n <= RotateSize /\ (Len(ws) >= 1 => n >= 1)
  BY <1>1, <1>4, <1>5 DEF K!BurstConstants
<1>7. PICK t : t = SubSeq(ws, 1, n)
  OBVIOUS
<1>8. t = K!Flushed(ws)
  BY <1>4, <1>7 DEF K!Flushed
<1> HIDE DEF Win
<1>9. t \in Ordered /\ Len(t) = n /\ \A i \in 1..n : t[i] = ws[i]
  BY <1>1, <1>6, <1>7, PartOf
<1>10. t \in Seq(Win)
  BY <1>9 DEF Ordered
<1>11. ASSUME NEW acc, Counts(ws, acc) PROVE Counts(t, acc)
  <2>1. CASE ws = <<>>
    <3>1. Len(t) = 0
      BY <1>6, <1>9, <2>1
    <3>2. t = <<>>
      BY <1>10, <3>1
    <3> QED BY <1>11, <2>1, <3>2
  <2>2. CASE ws # <<>>
    <3>1. Len(ws) >= 1
      BY <1>1, <2>2
    <3>2. t # <<>> /\ Len(t) <= Len(ws)
      BY <1>6, <1>9, <1>10, <3>1
    <3> QED BY <1>1, <1>9, <1>10, <1>11, <3>2, PartCounts
  <2> QED BY <2>1, <2>2
<1> QED BY <1>8, <1>9, <1>11

LEMMA ReverseIs ==
    ASSUME NEW ws \in Seq(Win)
    PROVE  K!Reverse(ws) \in Seq(Win)
<1> HIDE DEF Win
<1>1. PICK n : n = Len(ws)
  OBVIOUS
<1>2. n \in Nat /\ \A i \in 1..n : ws[i] \in Win
  BY <1>1
<1>3. ASSUME NEW i \in 1..n PROVE ws[(n - i) + 1] \in Win
  <2>1. PICK j : j = (n - i) + 1
    OBVIOUS
  <2>2. j \in 1..n
    BY <1>2, <2>1
  <2> QED BY <1>2, <2>1, <2>2
<1>4. PICK t : t = [i \in 1..n |-> ws[(n - i) + 1]]
  OBVIOUS
<1>5. t \in [1..n -> Win]
  BY <1>3, <1>4
<1>6. t \in Seq(Win)
  BY <1>2, <1>5, SeqDef
<1> QED BY <1>1, <1>4, <1>6 DEF K!Reverse

\* What a server sends of a keyword are results.
LEMMA UnmixedIs ==
    ASSUME NEW st, st.results \in Ordered
    PROVE  K!Unmixed(st) \in Seq(Win)
<1>1. PICK ws : ws = st.results
  OBVIOUS
<1> DEFINE old == {i \in DOMAIN ws : ws[i].start < st.oldest}
<1>2. Len(ws) \in Nat /\ DOMAIN ws = 1..Len(ws) /\ \A i \in 1..Len(ws) : ws[i] \in Win
  BY <1>1, StartsFall
<1>3. ASSUME old # {} PROVE K!Min(old) \in 1..Len(ws)
  <2>1. old \in SUBSET Nat /\ old # {} /\ old \subseteq 1..Len(ws)
    BY <1>2, <1>3
  <2> HIDE DEF old
  <2>2. \E i \in old : \A j \in old : i <= j
    BY ONLY <2>1, Least
  <2>3. K!Min(old) \in old
    BY <2>2 DEF K!Min
  <2> QED BY <2>1, <2>3
<1>4. PICK n, o : n = (IF old = {} THEN Len(ws) ELSE K!Min(old) - 1) /\ o = 1
  OBVIOUS
<1>5. n \in Int /\ n <= Len(ws) /\ o \in Int
  BY <1>2, <1>3, <1>4
<1>6. PICK S : S = Win
  OBVIOUS
<1>7. \A i \in o..n : ws[i] \in S
  <2> TAKE i \in o..n
  <2>1. o = 1 /\ i \in o..n
    BY <1>4
  <2>2. i \in 1..Len(ws)
    BY ONLY <1>2, <1>5, <2>1
  <2> QED BY <1>2, <1>6, <2>2
<1>8. SubSeq(ws, o, n) \in Seq(S)
  BY ONLY <1>5, <1>7, SubSeqProperties
<1>9. K!Unmixed(st) = SubSeq(ws, 1, n)
  BY <1>1, <1>4 DEF K!Unmixed
<1> QED BY <1>4, <1>6, <1>8, <1>9

---------------------------------------------------------------------------
(* Bursts: what every server has, and the calls that keep it.              *)

\* A keyword that is counted: its windows and how long it is counted on.
Counter == [inputs : Ordered, removal : {-1} \cup 1..Survival]

\* What a server stores and counts of every keyword.
ServerOk(st, cn, acc) ==
    /\ \A k \in DOMAIN st : Keeps(st[k])
    /\ DOMAIN cn \subseteq DOMAIN st /\ DOMAIN cn \subseteq Keyword
    /\ \A k \in DOMAIN cn : cn[k] \in Counter /\ Counts(cn[k].inputs, acc[k])
    /\ acc \in [Keyword -> [Position -> Nat]]

\* The results a round has gathered.
GatheredOk(mx) == \A k \in DOMAIN mx : mx[k] \in Seq(Win)

LEMMA NewOnes ==
    ASSUME K!BurstConstants
    PROVE  /\ Keeps(K!NewStorage) /\ K!NewAggregator \in Counter /\ K!NewAggregator.inputs = <<>>
           /\ K!None \in [Position -> Nat] /\ Counts(<<>>, K!None)
<1>1. <<>> \in Ordered
  <2> HIDE DEF Win
  <2>1. <<>> \in Seq(Win) /\ Len(<<>>) = 0
    OBVIOUS
  <2> QED BY <2>1 DEF Ordered, K!BurstConstants
<1>2. Counts(<<>>, K!None) /\ K!None \in [Position -> Nat]
  BY DEF Counts, K!None
<1> HIDE DEF Ordered
<1>3. Keeps(K!NewStorage)
  BY <1>1 DEF Keeps, K!NewStorage
<1>4. K!NewAggregator \in Counter /\ K!NewAggregator.inputs = <<>>
  BY <1>1 DEF Counter, K!NewAggregator
<1> QED BY <1>2, <1>3, <1>4

LEMMA AddOk ==
    ASSUME K!BurstConstants, NEW st, NEW cn, NEW acc, ServerOk(st, cn, acc),
           NEW k \in Keyword, k \notin DOMAIN cn, NEW processed
    PROVE  ServerOk(K!With(st, k, K!NewStorage),
                    IF processed THEN K!With(cn, k, K!NewAggregator) ELSE cn, [acc EXCEPT ![k] = K!None])
<1> HIDE DEF Ordered, Keeps, Counter, Counts
<1>1. PICK new, zero, s : new = K!NewAggregator /\ zero = K!None /\ s = K!NewStorage
  OBVIOUS
<1>2. Keeps(s) /\ new \in Counter /\ zero \in [Position -> Nat] /\ Counts(new.inputs, zero)
  BY <1>1, NewOnes
<1>3. PICK t, c, a : /\ t = K!With(st, k, s) /\ c = (IF processed THEN K!With(cn, k, new) ELSE cn)
                     /\ a = [acc EXCEPT ![k] = zero]
  OBVIOUS
<1>4. DOMAIN t = DOMAIN st \cup {k} /\ \A x \in DOMAIN t : t[x] = IF x = k THEN s ELSE st[x]
  BY <1>3 DEF K!With
<1>5. /\ DOMAIN cn \subseteq DOMAIN c /\ DOMAIN c \subseteq DOMAIN cn \cup {k}
      /\ \A x \in DOMAIN c : c[x] = IF x = k THEN new ELSE cn[x]
  BY <1>3 DEF K!With
<1>6. a \in [Keyword -> [Position -> Nat]] /\ \A x \in Keyword : a[x] = IF x = k THEN zero ELSE acc[x]
  BY <1>2, <1>3 DEF ServerOk
<1>7. ServerOk(t, c, a)
  BY <1>2, <1>4, <1>5, <1>6 DEF ServerOk
<1> QED BY <1>1, <1>3, <1>7

LEMMA RemoveOk ==
    ASSUME NEW st, NEW cn, NEW acc, ServerOk(st, cn, acc), NEW k
    PROVE  ServerOk(K!Without(st, {k}), K!Without(cn, {k}), acc)
<1> HIDE DEF Ordered, Keeps, Counter, Counts
<1> QED BY DEF ServerOk, K!Without

LEMMA ClearOk ==
    ASSUME NEW st, NEW cn, NEW acc, ServerOk(st, cn, acc)
    PROVE  ServerOk(<<>>, <<>>, acc)
<1> HIDE DEF Ordered, Keeps, Counter, Counts
<1>1. DOMAIN <<>> = {}
  OBVIOUS
<1> QED BY <1>1 DEF ServerOk

\* What set_processed_keywords makes of the counters, done being counted.
Processed(cn, acc, done, c, a) ==
    /\ c = [k \in DOMAIN cn \cup done |->
               IF k \notin DOMAIN cn THEN K!NewAggregator
               ELSE IF k \in done THEN [cn[k] EXCEPT !.removal = -1]
               ELSE IF cn[k].removal < 0 THEN [cn[k] EXCEPT !.removal = Survival] ELSE cn[k]]
    /\ a = [k \in Keyword |-> IF k \in done \ DOMAIN cn THEN K!None ELSE acc[k]]

LEMMA ProcessOk ==
    ASSUME K!BurstConstants, NEW st, NEW cn, NEW acc, ServerOk(st, cn, acc),
           NEW done, done \subseteq Keyword, done \subseteq DOMAIN st,
           NEW c, NEW a, Processed(cn, acc, done, c, a)
    PROVE  ServerOk(st, c, a)
<1> HIDE DEF Ordered, Keeps, Counts
<1>c. /\ c = [k \in DOMAIN cn \cup done |->
                 IF k \notin DOMAIN cn THEN K!NewAggregator
                 ELSE IF k \in done THEN [cn[k] EXCEPT !.removal = -1]
                 ELSE IF cn[k].removal < 0 THEN [cn[k] EXCEPT !.removal = Survival] ELSE cn[k]]
      /\ a = [k \in Keyword |-> IF k \in done \ DOMAIN cn THEN K!None ELSE acc[k]]
  BY DEF Processed
<1>1. PICK new, zero : new = K!NewAggregator /\ zero = K!None
  OBVIOUS
<1>2. new \in Counter /\ zero \in [Position -> Nat] /\ Counts(new.inputs, zero)
  BY <1>1, NewOnes
<1>3. Survival \in 1..Survival
  BY DEF K!BurstConstants
<1>4. ASSUME NEW k \in DOMAIN c PROVE c[k] \in Counter /\ Counts(c[k].inputs, a[k])
  <2>1. k \in DOMAIN cn \cup done /\ k \in Keyword
    BY <1>c DEF ServerOk
  <2>2. CASE k \notin DOMAIN cn
    BY <1>1, <1>2, <1>c, <2>1, <2>2
  <2>3. CASE k \in DOMAIN cn
    <3>1. PICK w : w = cn[k]
      OBVIOUS
    <3>2. w \in Counter /\ Counts(w.inputs, acc[k])
      BY <2>3, <3>1 DEF ServerOk
    <3>3. \/ c[k] = [w EXCEPT !.removal = -1] \/ c[k] = [w EXCEPT !.removal = Survival] \/ c[k] = w
      BY <1>c, <2>1, <2>3, <3>1
    <3>4. c[k] \in Counter /\ c[k].inputs = w.inputs
      BY <1>3, <3>2, <3>3 DEF Counter
    <3>5. a[k] = acc[k]
      BY <1>c, <2>1, <2>3
    <3> QED BY <3>2, <3>4, <3>5
  <2> QED BY <2>2, <2>3
<1>5. a \in [Keyword -> [Position -> Nat]]
  BY <1>1, <1>2, <1>c DEF ServerOk
<1>6. DOMAIN c \subseteq DOMAIN st /\ DOMAIN c \subseteq Keyword
  BY <1>c DEF ServerOk
<1> HIDE DEF Counter
<1> QED BY <1>4, <1>5, <1>6 DEF ServerOk

\* Counters that change but for what they count and their time.
LEMMA SameCountersOk ==
    ASSUME NEW st, NEW cn, NEW acc, ServerOk(st, cn, acc), NEW c,
           DOMAIN c \subseteq DOMAIN cn,
           \A k \in DOMAIN c : c[k] \in Counter /\ Counts(c[k].inputs, acc[k]),
           NEW t, DOMAIN st \subseteq DOMAIN t, \A k \in DOMAIN t : Keeps(t[k])
    PROVE  ServerOk(t, c, acc)
<1> HIDE DEF Ordered, Keeps, Counter, Counts
<1> QED BY DEF ServerOk

LEMMA RestartOk ==
    ASSUME NEW st, NEW cn, NEW acc, ServerOk(st, cn, acc)
    PROVE  ServerOk(st, [k \in DOMAIN cn |-> [cn[k] EXCEPT !.removal = -1]], acc)
<1> HIDE DEF Ordered, Keeps, Counts
<1>1. PICK c : c = [k \in DOMAIN cn |-> [cn[k] EXCEPT !.removal = -1]]
  OBVIOUS
<1>2. ASSUME NEW k \in DOMAIN c PROVE c[k] \in Counter /\ Counts(c[k].inputs, acc[k])
  <2>1. PICK w : w = cn[k]
    OBVIOUS
  <2>2. w \in Counter /\ Counts(w.inputs, acc[k]) /\ c[k] = [w EXCEPT !.removal = -1]
    BY <1>1, <2>1 DEF ServerOk
  <2>3. c[k] \in Counter /\ c[k].inputs = w.inputs
    BY <2>2 DEF Counter
  <2> QED BY <2>2, <2>3
<1>3. DOMAIN c \subseteq DOMAIN cn /\ \A k \in DOMAIN st : Keeps(st[k])
  BY <1>1 DEF ServerOk
<1> HIDE DEF Counter
<1> QED BY <1>1, <1>2, <1>3, SameCountersOk

\* What add_document makes of the counters.
Documented(cn, acc, x, c, a) ==
    /\ DOMAIN c = DOMAIN cn
    /\ \A k \in DOMAIN cn : c[k] = [cn[k] EXCEPT !.inputs = K!Counted(K!Windows(cn[k].inputs, x), x)]
    /\ a = [k \in Keyword |-> IF k \in DOMAIN c /\ K!Has(c[k].inputs[1], x)
                               THEN [acc[k] EXCEPT ![x] = @ + 1] ELSE acc[k]]

\* One document more is counted in every window that has its batch, and is
\* accepted if the newest has.
LEMMA DocumentOk ==
    ASSUME K!BurstConstants, NEW st, NEW cn, NEW acc, ServerOk(st, cn, acc), NEW x \in Position,
           NEW c, NEW a, Documented(cn, acc, x, c, a)
    PROVE  ServerOk(st, c, a)
<1>c. /\ DOMAIN c = DOMAIN cn
      /\ \A k \in DOMAIN cn : c[k] = [cn[k] EXCEPT !.inputs = K!Counted(K!Windows(cn[k].inputs, x), x)]
      /\ a = [k \in Keyword |-> IF k \in DOMAIN c /\ K!Has(c[k].inputs[1], x)
                                 THEN [acc[k] EXCEPT ![x] = @ + 1] ELSE acc[k]]
  BY DEF Documented
<1> HIDE DEF Ordered, Keeps, Counts
<1>0. x \in Nat
  BY DEF K!BurstConstants
<1>1. ASSUME NEW k \in DOMAIN c PROVE c[k] \in Counter /\ Counts(c[k].inputs, a[k])
  <2>1. PICK w, ws, b : w = cn[k] /\ ws = w.inputs /\ b = acc[k]
    OBVIOUS
  <2>2. k \in Keyword /\ w \in Counter /\ Counts(ws, b) /\ b \in [Position -> Nat]
    BY <1>c, <2>1 DEF ServerOk
  <2>3. ws \in Ordered
    BY <2>1, <2>2 DEF Counter
  <2>4. PICK r : r = K!Windows(ws, x)
    OBVIOUS
  <2>5. r \in Ordered /\ r # <<>> /\ x < K!End(r[1]) /\ Counts(r, b)
    BY ONLY K!BurstConstants, <1>0, <2>2, <2>3, <2>4, WindowsIs
  <2>6. PICK e : e = K!Counted(r, x)
    OBVIOUS
  <2>7. /\ e \in Ordered /\ (K!Has(e[1], x) <=> K!Has(r[1], x))
        /\ Counts(e, IF K!Has(r[1], x) THEN [b EXCEPT ![x] = @ + 1] ELSE b)
    BY <2>2, <2>5, <2>6, CountedIs
  <2>8. c[k] = [w EXCEPT !.inputs = e]
    BY <1>c, <2>1, <2>4, <2>6
  <2>9. c[k] \in Counter /\ c[k].inputs = e
    BY <2>2, <2>7, <2>8 DEF Counter
  <2>10. a[k] = IF K!Has(e[1], x) THEN [b EXCEPT ![x] = @ + 1] ELSE b
    BY <1>c, <2>1, <2>2, <2>9
  <2> QED BY <2>7, <2>9, <2>10
<1>2. ASSUME NEW k \in Keyword PROVE a[k] \in [Position -> Nat]
  <2>1. PICK b : b = acc[k]
    OBVIOUS
  <2>2. b \in [Position -> Nat]
    BY <2>1 DEF ServerOk
  <2>3. [b EXCEPT ![x] = @ + 1] \in [Position -> Nat]
    BY <2>2
  <2>4. a[k] = b \/ a[k] = [b EXCEPT ![x] = @ + 1]
    BY <1>c, <2>1
  <2> QED BY <2>2, <2>3, <2>4
<1>3. a \in [Keyword -> [Position -> Nat]]
  BY <1>2, <1>c
<1> HIDE DEF Counter
<1> QED BY <1>1, <1>3, <1>c DEF ServerOk

LEMMA CalculateOk ==
    ASSUME K!BurstConstants, NEW st, NEW cn, NEW acc, ServerOk(st, cn, acc)
    PROVE  ServerOk([k \in DOMAIN st |-> IF k \notin DOMAIN cn THEN st[k]
                                         ELSE K!StoreAll(st[k], K!Reverse(cn[k].inputs), FALSE)],
                    [k \in DOMAIN cn |-> [cn[k] EXCEPT !.inputs = K!Flushed(@)]], acc)
<1> HIDE DEF Ordered, Keeps, Counts
<1>1. PICK t : t = [k \in DOMAIN st |-> IF k \notin DOMAIN cn THEN st[k]
                                        ELSE K!StoreAll(st[k], K!Reverse(cn[k].inputs), FALSE)]
  OBVIOUS
<1>2. PICK c : c = [k \in DOMAIN cn |-> [cn[k] EXCEPT !.inputs = K!Flushed(@)]]
  OBVIOUS
<1>3. ASSUME NEW k \in DOMAIN c PROVE c[k] \in Counter /\ Counts(c[k].inputs, acc[k])
  <2>1. PICK w, ws : w = cn[k] /\ ws = w.inputs
    OBVIOUS
  <2>2. w \in Counter /\ Counts(ws, acc[k])
    BY <1>2, <2>1 DEF ServerOk
  <2>3. ws \in Ordered
    BY <2>1, <2>2 DEF Counter
  <2>4. PICK f : f = K!Flushed(ws)
    OBVIOUS
  <2>5. f \in Ordered /\ Counts(f, acc[k])
    BY <2>2, <2>3, <2>4, FlushedIs
  <2>6. c[k] = [w EXCEPT !.inputs = f]
    BY <1>2, <2>1, <2>4
  <2>7. c[k] \in Counter /\ c[k].inputs = f
    BY <2>2, <2>5, <2>6 DEF Counter
  <2> QED BY <2>5, <2>7
<1>4. ASSUME NEW k \in DOMAIN t PROVE Keeps(t[k])
  <2>1. k \in DOMAIN st
    BY <1>1
  <2>2. Keeps(st[k])
    BY <2>1 DEF ServerOk
  <2>3. CASE k \notin DOMAIN cn
    BY <1>1, <2>1, <2>2, <2>3
  <2>4. CASE k \in DOMAIN cn
    <3>1. PICK w, ws, h : w = cn[k] /\ ws = w.inputs /\ h = st[k]
      OBVIOUS
    <3>2. ws \in Ordered
      BY <2>4, <3>1 DEF ServerOk, Counter
    <3>3. ws \in Seq(Win)
      BY <3>2 DEF Ordered
    <3>4. PICK r : r = K!Reverse(ws)
      OBVIOUS
    <3>5. r \in Seq(Win)
      BY ONLY <3>3, <3>4, ReverseIs
    <3>6. Keeps(h)
      BY <2>2, <3>1
    <3>7. Keeps(K!StoreAll(h, r, FALSE))
      BY ONLY K!BurstConstants, <3>5, <3>6, StoreAllIs
    <3>8. t[k] = K!StoreAll(h, r, FALSE)
      BY <1>1, <2>1, <2>4, <3>1, <3>4
    <3> QED BY <3>7, <3>8
  <2> QED BY <2>3, <2>4
<1>5. DOMAIN c \subseteq DOMAIN cn /\ DOMAIN st \subseteq DOMAIN t
  BY <1>1, <1>2
<1> HIDE DEF Counter
<1>6. ServerOk(t, c, acc)
  BY <1>3, <1>4, <1>5, SameCountersOk
<1> QED BY <1>1, <1>2, <1>6

\* What put_diff makes of storages and counters.
Stored(st, cn, mx, t, c) ==
    /\ DOMAIN t = DOMAIN st \cup DOMAIN mx
    /\ \A k \in DOMAIN t :
          t[k] = IF k \notin DOMAIN mx THEN st[k]
                 ELSE [K!StoreAll(IF k \in DOMAIN st THEN st[k] ELSE K!NewStorage, mx[k], TRUE)
                         EXCEPT !.oldest = K!Never]
    /\ DOMAIN c = DOMAIN cn \ {k \in DOMAIN cn : cn[k].removal = 1}
    /\ \A k \in DOMAIN c :
          c[k] = IF cn[k].removal > 0 THEN [cn[k] EXCEPT !.removal = @ - 1] ELSE cn[k]

LEMMA PutOk ==
    ASSUME K!BurstConstants, NEW st, NEW cn, NEW acc, ServerOk(st, cn, acc), NEW mx, GatheredOk(mx),
           NEW t, NEW c, Stored(st, cn, mx, t, c)
    PROVE  ServerOk(t, c, acc)
<1>c. /\ DOMAIN t = DOMAIN st \cup DOMAIN mx
      /\ \A k \in DOMAIN t :
            t[k] = IF k \notin DOMAIN mx THEN st[k]
                   ELSE [K!StoreAll(IF k \in DOMAIN st THEN st[k] ELSE K!NewStorage, mx[k], TRUE)
                           EXCEPT !.oldest = K!Never]
      /\ DOMAIN c = DOMAIN cn \ {k \in DOMAIN cn : cn[k].removal = 1}
      /\ \A k \in DOMAIN c :
            c[k] = IF cn[k].removal > 0 THEN [cn[k] EXCEPT !.removal = @ - 1] ELSE cn[k]
  BY DEF Stored
<1> HIDE DEF Ordered, Counts
<1>3. ASSUME NEW k \in DOMAIN c PROVE c[k] \in Counter /\ Counts(c[k].inputs, acc[k])
  <2>1. PICK w, n : w = cn[k] /\ n = w.removal
    OBVIOUS
  <2>2. w \in Counter /\ Counts(w.inputs, acc[k]) /\ n # 1
    BY <1>c, <2>1 DEF ServerOk
  <2>3. n \in {-1} \cup 1..Survival /\ Survival \in Nat
    BY <2>1, <2>2 DEF Counter, K!BurstConstants
  <2>4. CASE n > 0
    <3>1. PICK m : m = n - 1
      OBVIOUS
    <3>2. m \in 1..Survival
      BY <2>2, <2>3, <2>4, <3>1
    <3>3. c[k] = [w EXCEPT !.removal = m]
      BY <1>c, <2>1, <2>4, <3>1
    <3>4. c[k] \in Counter /\ c[k].inputs = w.inputs
      BY <2>2, <3>2, <3>3 DEF Counter
    <3> QED BY <2>2, <3>4
  <2>5. CASE ~(n > 0)
    BY <1>c, <2>1, <2>2, <2>5
  <2> QED BY <2>4, <2>5
<1>4. ASSUME NEW k \in DOMAIN t PROVE Keeps(t[k])
  <2>1. CASE k \notin DOMAIN mx
    BY <1>c, <2>1 DEF ServerOk
  <2>2. CASE k \in DOMAIN mx
    <3>1. PICK h, r : h = (IF k \in DOMAIN st THEN st[k] ELSE K!NewStorage) /\ r = mx[k]
      OBVIOUS
    <3>2. Keeps(h)
      BY <1>c, <3>1, NewOnes DEF ServerOk
    <3>3. r \in Seq(Win)
      BY <2>2, <3>1 DEF GatheredOk
    <3>4. PICK e : e = K!StoreAll(h, r, TRUE)
      OBVIOUS
    <3>5. Keeps(e)
      BY ONLY K!BurstConstants, <3>2, <3>3, <3>4, StoreAllIs
    <3>6. t[k] = [e EXCEPT !.oldest = K!Never]
      BY <1>c, <2>2, <3>1, <3>4
    <3> QED BY <3>5, <3>6 DEF Keeps
  <2> QED BY <2>1, <2>2
<1>5. DOMAIN c \subseteq DOMAIN cn /\ DOMAIN st \subseteq DOMAIN t
  BY <1>c
<1> HIDE DEF Counter, Keeps
<1> QED BY <1>3, <1>4, <1>5, SameCountersOk

LEMMA GatherOk ==
    ASSUME NEW st, NEW cn, NEW acc, ServerOk(st, cn, acc), NEW mx, GatheredOk(mx)
    PROVE  GatheredOk([k \in DOMAIN mx \cup DOMAIN cn |->
                          (IF k \in DOMAIN mx THEN mx[k] ELSE <<>>)
                              \o (IF k \in DOMAIN cn THEN K!Unmixed(st[k]) ELSE <<>>)])
<1> HIDE DEF Ordered, Counts, Counter, Win
<1>1. PICK g : g = [k \in DOMAIN mx \cup DOMAIN cn |->
                       (IF k \in DOMAIN mx THEN mx[k] ELSE <<>>)
                           \o (IF k \in DOMAIN cn THEN K!Unmixed(st[k]) ELSE <<>>)]
  OBVIOUS
<1>2. ASSUME NEW k \in DOMAIN g PROVE g[k] \in Seq(Win)
  <2>1. PICK u, v : /\ u = (IF k \in DOMAIN mx THEN mx[k] ELSE <<>>)
                    /\ v = (IF k \in DOMAIN cn THEN K!Unmixed(st[k]) ELSE <<>>)
    OBVIOUS
  <2>2. g[k] = u \o v
    BY <1>1, <2>1
  <2>3. <<>> \in Seq(Win)
    OBVIOUS
  <2>4. u \in Seq(Win)
    BY <2>1, <2>3 DEF GatheredOk
  <2>5. ASSUME k \in DOMAIN cn PROVE K!Unmixed(st[k]) \in Seq(Win)
    <3>1. PICK h : h = st[k]
      OBVIOUS
    <3>2. h.results \in Ordered
      BY <2>5, <3>1 DEF ServerOk, Keeps
    <3>3. K!Unmixed(h) \in Seq(Win)
      BY ONLY <3>2, UnmixedIs
    <3> QED BY <3>1, <3>3
  <2>6. v \in Seq(Win)
    BY <2>1, <2>3, <2>5
  <2>7. u \o v \in Seq(Win)
    BY ONLY <2>4, <2>6, ConcatProperties
  <2> QED BY <2>2, <2>7
<1> QED BY <1>1, <1>2 DEF GatheredOk

\* Every server has what it should.
Servers(st, cn, acc) ==
    /\ DOMAIN st = Node /\ DOMAIN cn = Node /\ DOMAIN acc = Node
    /\ \A s \in Node : ServerOk(st[s], cn[s], acc[s])

BurstInv == Servers(stored, counting, taken) /\ GatheredOk(folded)

\* g is f but for s.
Differ(f, g, s) == DOMAIN g = DOMAIN f /\ \A x \in DOMAIN f \ {s} : g[x] = f[x]

LEMMA ChangedAt ==
    ASSUME NEW f, NEW s \in DOMAIN f, NEW e
    PROVE  Differ(f, [f EXCEPT ![s] = e], s) /\ [f EXCEPT ![s] = e][s] = e
BY DEF Differ

LEMMA SameAt == \A f, s : Differ(f, f, s)
BY DEF Differ

LEMMA OneServer ==
    ASSUME NEW st, NEW cn, NEW acc, Servers(st, cn, acc), NEW s \in Node,
           NEW t, NEW c, NEW a, Differ(st, t, s), Differ(cn, c, s), Differ(acc, a, s),
           ServerOk(t[s], c[s], a[s])
    PROVE  Servers(t, c, a)
<1> HIDE DEF ServerOk
<1> QED BY DEF Servers, Differ

LEMMA BurstInitially ==
    ASSUME K!BurstConstants, K!Init
    PROVE  BurstInv
<1>1. GatheredOk(folded)
  BY DEF K!Init, GatheredOk
<1>2. ASSUME NEW s \in Node PROVE ServerOk(stored[s], counting[s], taken[s])
  <2>1. stored[s] = <<>> /\ counting[s] = <<>> /\ taken[s] = [k \in Keyword |-> K!None]
    BY DEF K!Init
  <2>2. taken[s] \in [Keyword -> [Position -> Nat]]
    BY <2>1, NewOnes
  <2>3. DOMAIN stored[s] = {} /\ DOMAIN counting[s] = {}
    BY <2>1
  <2> QED BY <2>2, <2>3 DEF ServerOk
<1> HIDE DEF ServerOk
<1> QED BY <1>1, <1>2 DEF K!Init, BurstInv, Servers

LEMMA BurstSteps == ASSUME K!BurstConstants, BurstInv, K!Next PROVE BurstInv'
<1> HIDE DEF ServerOk, GatheredOk
<1>1. Servers(stored, counting, taken) /\ GatheredOk(folded)
  BY DEF BurstInv
<1>2. \A s \in Node : /\ s \in DOMAIN stored /\ s \in DOMAIN counting /\ s \in DOMAIN taken
                      /\ ServerOk(stored[s], counting[s], taken[s])
  BY <1>1 DEF Servers
<1>3. ASSUME NEW s \in Node, Differ(stored, stored', s), Differ(counting, counting', s),
             Differ(taken, taken', s), ServerOk(stored'[s], counting'[s], taken'[s]), folded' = folded
      PROVE  BurstInv'
  BY <1>1, <1>3, OneServer DEF BurstInv
<1>4. ASSUME NEW s \in Node, NEW k \in Keyword, NEW processed \in BOOLEAN, K!add_keyword(s, k, processed)
      PROVE  BurstInv'
  <2>1. /\ stored' = [stored EXCEPT ![s] = K!With(stored[s], k, K!NewStorage)]
        /\ counting' = IF processed THEN [counting EXCEPT ![s] = K!With(counting[s], k, K!NewAggregator)]
                       ELSE counting
        /\ taken' = [taken EXCEPT ![s] = [taken[s] EXCEPT ![k] = K!None]]
        /\ k \notin DOMAIN counting[s] /\ folded' = folded
    BY <1>4 DEF K!add_keyword, K!Op, K!mixVars
  <2>2. Differ(stored, stored', s) /\ stored'[s] = K!With(stored[s], k, K!NewStorage)
    BY <1>2, <2>1, ChangedAt
  <2>3. /\ Differ(counting, counting', s)
        /\ counting'[s] = IF processed THEN K!With(counting[s], k, K!NewAggregator) ELSE counting[s]
    BY <1>2, <2>1, ChangedAt, SameAt
  <2>4. Differ(taken, taken', s) /\ taken'[s] = [taken[s] EXCEPT ![k] = K!None]
    BY <1>2, <2>1, ChangedAt
  <2>5. ServerOk(stored'[s], counting'[s], taken'[s])
    BY <1>2, <2>1, <2>2, <2>3, <2>4, AddOk
  <2> QED BY <1>3, <2>1, <2>2, <2>3, <2>4, <2>5
<1>5. ASSUME NEW s \in Node, NEW k \in Keyword, K!remove_keyword(s, k)
      PROVE  BurstInv'
  <2>1. /\ stored' = [stored EXCEPT ![s] = K!Without(stored[s], {k})]
        /\ counting' = [counting EXCEPT ![s] = K!Without(counting[s], {k})]
        /\ taken' = taken /\ folded' = folded
    BY <1>5 DEF K!remove_keyword, K!Op, K!mixVars
  <2>2. Differ(stored, stored', s) /\ stored'[s] = K!Without(stored[s], {k})
    BY <1>2, <2>1, ChangedAt
  <2>3. Differ(counting, counting', s) /\ counting'[s] = K!Without(counting[s], {k})
    BY <1>2, <2>1, ChangedAt
  <2>4. ServerOk(stored'[s], counting'[s], taken'[s])
    BY <1>2, <2>1, <2>2, <2>3, RemoveOk
  <2> QED BY <1>3, <2>1, <2>2, <2>3, <2>4, SameAt
<1>6. ASSUME NEW s \in Node, K!clear(s)
      PROVE  BurstInv'
  <2>1. /\ stored' = [stored EXCEPT ![s] = <<>>] /\ counting' = [counting EXCEPT ![s] = <<>>]
        /\ taken' = taken /\ folded' = folded
    BY <1>6 DEF K!clear, K!Op, K!mixVars
  <2>2. Differ(stored, stored', s) /\ stored'[s] = <<>>
    BY <1>2, <2>1, ChangedAt
  <2>3. Differ(counting, counting', s) /\ counting'[s] = <<>>
    BY <1>2, <2>1, ChangedAt
  <2>4. ServerOk(stored'[s], counting'[s], taken'[s])
    BY <1>2, <2>1, <2>2, <2>3, ClearOk
  <2> QED BY <1>3, <2>1, <2>2, <2>3, <2>4, SameAt
<1>7. ASSUME NEW s \in Node, NEW ks \in SUBSET Keyword, K!set_processed_keywords(s, ks)
      PROVE  BurstInv'
  <2>1. PICK order \in K!SetToSeqs(ks) :
           LET known_ == {i \in DOMAIN order : \A j \in 1..i : order[j] \in DOMAIN stored[s]}
               done == {order[i] : i \in known_}
           IN  /\ counting' = [counting EXCEPT ![s] =
                     [k \in DOMAIN @ \cup done |->
                         IF k \notin DOMAIN @ THEN K!NewAggregator
                         ELSE IF k \in done THEN [@[k] EXCEPT !.removal = -1]
                         ELSE IF @[k].removal < 0 THEN [@[k] EXCEPT !.removal = Survival] ELSE @[k]]]
               /\ taken' = [taken EXCEPT ![s] =
                     [k \in Keyword |-> IF k \in done \ DOMAIN counting[s] THEN K!None ELSE @[k]]]
    BY <1>7 DEF K!set_processed_keywords
  <2>2. stored' = stored /\ folded' = folded
    BY <1>7 DEF K!set_processed_keywords, K!Op, K!mixVars
  <2>3. PICK done : done = {order[i] : i \in {i \in DOMAIN order : \A j \in 1..i : order[j] \in DOMAIN stored[s]}}
    OBVIOUS
  <2>4. done \subseteq Keyword /\ done \subseteq DOMAIN stored[s]
    <3>1. order \in [1..K!Cardinality(ks) -> ks]
      BY <2>1 DEF K!SetToSeqs
    <3>2. ASSUME NEW i \in 1..K!Cardinality(ks) PROVE i \in 1..i /\ order[i] \in Keyword
      BY <3>1
    <3> QED BY <2>3, <3>1, <3>2
  <2>5. PICK c, a :
           /\ c = [k \in DOMAIN counting[s] \cup done |->
                      IF k \notin DOMAIN counting[s] THEN K!NewAggregator
                      ELSE IF k \in done THEN [counting[s][k] EXCEPT !.removal = -1]
                      ELSE IF counting[s][k].removal < 0 THEN [counting[s][k] EXCEPT !.removal = Survival]
                      ELSE counting[s][k]]
           /\ a = [k \in Keyword |-> IF k \in done \ DOMAIN counting[s] THEN K!None ELSE taken[s][k]]
    OBVIOUS
  <2>6. counting' = [counting EXCEPT ![s] = c] /\ taken' = [taken EXCEPT ![s] = a]
    BY <2>1, <2>3, <2>5
  <2>7. ServerOk(stored[s], c, a)
    <3>1. PICK st, cn, acc : st = stored[s] /\ cn = counting[s] /\ acc = taken[s]
      OBVIOUS
    <3>2. ServerOk(st, cn, acc) /\ done \subseteq Keyword /\ done \subseteq DOMAIN st
      BY <1>2, <2>4, <3>1
    <3>3. Processed(cn, acc, done, c, a)
      BY <2>5, <3>1 DEF Processed
    <3>4. ServerOk(st, c, a)
      BY ONLY K!BurstConstants, <3>2, <3>3, ProcessOk
    <3> QED BY <3>1, <3>4
  <2>8. Differ(counting, counting', s) /\ counting'[s] = c
    BY <1>2, <2>6, ChangedAt
  <2>9. Differ(taken, taken', s) /\ taken'[s] = a
    BY <1>2, <2>6, ChangedAt
  <2> QED BY <1>3, <2>2, <2>7, <2>8, <2>9, SameAt
<1>8. ASSUME NEW s \in Node, K!restart(s)
      PROVE  BurstInv'
  <2>1. PICK c : c = [k \in DOMAIN counting[s] |-> [counting[s][k] EXCEPT !.removal = -1]]
    OBVIOUS
  <2>2. counting' = [counting EXCEPT ![s] = c] /\ stored' = stored /\ taken' = taken /\ folded' = folded
    BY <1>8, <2>1 DEF K!restart, K!Op, K!mixVars
  <2>3. Differ(counting, counting', s) /\ counting'[s] = c
    BY <1>2, <2>2, ChangedAt
  <2>4. ServerOk(stored[s], c, taken[s])
    BY <1>2, <2>1, RestartOk
  <2> QED BY <1>3, <2>2, <2>3, <2>4, SameAt
<1>9. ASSUME NEW s \in Node, K!calculate_results(s)
      PROVE  BurstInv'
  <2>1. PICK t, c :
           /\ t = [k \in DOMAIN stored[s] |->
                      IF k \notin DOMAIN counting[s] THEN stored[s][k]
                      ELSE K!StoreAll(stored[s][k], K!Reverse(counting[s][k].inputs), FALSE)]
           /\ c = [k \in DOMAIN counting[s] |-> [counting[s][k] EXCEPT !.inputs = K!Flushed(@)]]
    OBVIOUS
  <2>2. /\ stored' = [stored EXCEPT ![s] = t] /\ counting' = [counting EXCEPT ![s] = c]
        /\ taken' = taken /\ folded' = folded
    BY <1>9, <2>1 DEF K!calculate_results, K!Op, K!mixVars
  <2>3. Differ(stored, stored', s) /\ stored'[s] = t
    BY <1>2, <2>2, ChangedAt
  <2>4. Differ(counting, counting', s) /\ counting'[s] = c
    BY <1>2, <2>2, ChangedAt
  <2>5. ServerOk(t, c, taken[s])
    <3>1. PICK st, cn, acc : st = stored[s] /\ cn = counting[s] /\ acc = taken[s]
      OBVIOUS
    <3>2. ServerOk(st, cn, acc)
      BY <1>2, <3>1
    <3>3. ServerOk([k \in DOMAIN st |-> IF k \notin DOMAIN cn THEN st[k]
                                         ELSE K!StoreAll(st[k], K!Reverse(cn[k].inputs), FALSE)],
                   [k \in DOMAIN cn |-> [cn[k] EXCEPT !.inputs = K!Flushed(@)]], acc)
      BY ONLY K!BurstConstants, <3>2, CalculateOk
    <3> QED BY <2>1, <3>1, <3>3
  <2> QED BY <1>3, <2>2, <2>3, <2>4, <2>5, SameAt
<1>10. ASSUME NEW s \in Node, NEW x \in Position, K!add_document(s, x)
       PROVE  BurstInv'
  <2>1. PICK c : c = [k \in DOMAIN counting[s] |->
                        [counting[s][k] EXCEPT !.inputs = K!Counted(K!Windows(counting[s][k].inputs, x), x)]]
    OBVIOUS
  <2>2. counting' = [counting EXCEPT ![s] = c] /\ stored' = stored /\ folded' = folded
    BY <1>10, <2>1 DEF K!add_document, K!mixVars
  <2>3. Differ(counting, counting', s) /\ counting'[s] = c
    BY <1>2, <2>2, ChangedAt
  <2>4. PICK a : a = [k \in Keyword |-> IF k \in DOMAIN c /\ K!Has(c[k].inputs[1], x)
                                        THEN [taken[s][k] EXCEPT ![x] = @ + 1] ELSE taken[s][k]]
    OBVIOUS
  <2>5. taken' = [taken EXCEPT ![s] = a]
    BY <1>10, <2>3, <2>4 DEF K!add_document
  <2>6. Differ(taken, taken', s) /\ taken'[s] = a
    BY <1>2, <2>5, ChangedAt
  <2>7. ServerOk(stored[s], c, a)
    <3>1. PICK st, cn, acc : st = stored[s] /\ cn = counting[s] /\ acc = taken[s]
      OBVIOUS
    <3>2. ServerOk(st, cn, acc)
      BY <1>2, <3>1
    <3>3. Documented(cn, acc, x, c, a)
      BY <2>1, <2>4, <3>1 DEF Documented
    <3>4. ServerOk(st, c, a)
      BY ONLY K!BurstConstants, x \in Position, <3>2, <3>3, DocumentOk
    <3> QED BY <3>1, <3>4
  <2> QED BY <1>3, <2>2, <2>3, <2>6, <2>7, SameAt
<1>11. CASE K!StartRound
  <2>1. folded' = <<>> /\ stored' = stored /\ counting' = counting /\ taken' = taken
    BY <1>11 DEF K!StartRound
  <2>2. GatheredOk(<<>>)
    <3>1. DOMAIN <<>> = {}
      OBVIOUS
    <3> QED BY <3>1 DEF GatheredOk
  <2> QED BY <1>1, <2>1, <2>2 DEF BurstInv
<1>12. ASSUME NEW s \in Node, K!Gather(s)
       PROVE  BurstInv'
  <2>1. PICK g : g = [k \in DOMAIN folded \cup DOMAIN counting[s] |->
                        (IF k \in DOMAIN folded THEN folded[k] ELSE <<>>)
                            \o (IF k \in DOMAIN counting[s] THEN K!Unmixed(stored[s][k]) ELSE <<>>)]
    OBVIOUS
  <2>2. folded' = g /\ stored' = stored /\ counting' = counting /\ taken' = taken
    BY <1>12, <2>1 DEF K!Gather
  <2>3. GatheredOk(g)
    <3>1. PICK st, cn, acc, mx : st = stored[s] /\ cn = counting[s] /\ acc = taken[s] /\ mx = folded
      OBVIOUS
    <3>2. ServerOk(st, cn, acc) /\ GatheredOk(mx)
      BY <1>1, <1>2, <3>1
    <3>3. GatheredOk([k \in DOMAIN mx \cup DOMAIN cn |->
                         (IF k \in DOMAIN mx THEN mx[k] ELSE <<>>)
                             \o (IF k \in DOMAIN cn THEN K!Unmixed(st[k]) ELSE <<>>)])
      BY ONLY <3>2, GatherOk
    <3> QED BY <2>1, <3>1, <3>3
  <2> QED BY <1>1, <2>2, <2>3 DEF BurstInv
<1>13. ASSUME NEW s \in Node, K!Put(s)
       PROVE  BurstInv'
  <2>1. PICK t, c :
           /\ t = [k \in DOMAIN stored[s] \cup DOMAIN folded |->
                      IF k \notin DOMAIN folded THEN stored[s][k]
                      ELSE [K!StoreAll(IF k \in DOMAIN stored[s] THEN stored[s][k] ELSE K!NewStorage,
                                       folded[k], TRUE) EXCEPT !.oldest = K!Never]]
           /\ c = [k \in DOMAIN counting[s] \ {k \in DOMAIN counting[s] : counting[s][k].removal = 1} |->
                      IF counting[s][k].removal > 0 THEN [counting[s][k] EXCEPT !.removal = @ - 1]
                      ELSE counting[s][k]]
    OBVIOUS
  <2>2. /\ stored' = [stored EXCEPT ![s] = t] /\ counting' = [counting EXCEPT ![s] = c]
        /\ taken' = taken /\ folded' = folded
    BY <1>13, <2>1 DEF K!Put
  <2>3. Differ(stored, stored', s) /\ stored'[s] = t
    BY <1>2, <2>2, ChangedAt
  <2>4. Differ(counting, counting', s) /\ counting'[s] = c
    BY <1>2, <2>2, ChangedAt
  <2>5. ServerOk(t, c, taken[s])
    <3>1. PICK st, cn, acc, mx : st = stored[s] /\ cn = counting[s] /\ acc = taken[s] /\ mx = folded
      OBVIOUS
    <3>2. ServerOk(st, cn, acc) /\ GatheredOk(mx)
      BY <1>1, <1>2, <3>1
    <3>3. Stored(st, cn, mx, t, c)
      BY <2>1, <3>1 DEF Stored
    <3>4. ServerOk(t, c, acc)
      BY ONLY K!BurstConstants, <3>2, <3>3, PutOk
    <3> QED BY <3>1, <3>4
  <2> QED BY <1>3, <2>2, <2>3, <2>4, <2>5, SameAt
<1> QED BY <1>4, <1>5, <1>6, <1>7, <1>8, <1>9, <1>10, <1>11, <1>12, <1>13 DEF K!Next

LEMMA BurstsSafe == ASSUME BurstInv PROVE K!StorageSound /\ K!WindowsCountDocuments
<1>1. ASSUME NEW s \in Node
      PROVE  ServerOk(stored[s], counting[s], taken[s])
  BY DEF BurstInv, Servers
<1>2. K!StorageSound
  <2>1. ASSUME NEW s \in Node, NEW k \in DOMAIN stored[s]
        PROVE  /\ Len(stored[s][k].results) <= RotateSize
               /\ \A i \in 2..Len(stored[s][k].results) :
                     stored[s][k].results[i - 1].start > stored[s][k].results[i].start
    <3>1. PICK rs : rs = stored[s][k].results
      OBVIOUS
    <3>2. rs \in Ordered
      BY <1>1, <3>1 DEF ServerOk, Keeps
    <3>3. ASSUME NEW i \in 2..Len(rs) PROVE rs[i - 1].start > rs[i].start
      <4>1. PICK j : j = i - 1
        OBVIOUS
      <4>2. j \in 1..Len(rs) /\ i \in 1..Len(rs) /\ j < i
        BY <3>2, <4>1, StartsFall
      <4>3. rs[j].start > rs[i].start
        BY <3>2, <4>2 DEF Ordered
      <4> QED BY <4>1, <4>3
    <3>4. Len(rs) <= RotateSize
      BY <3>2, StartsFall
    <3> QED BY <3>1, <3>3, <3>4
  <2>2. ASSUME NEW s \in Node
        PROVE  /\ DOMAIN counting[s] \subseteq DOMAIN stored[s]
               /\ \A k \in DOMAIN counting[s] : counting[s][k].removal \in {-1} \cup 1..Survival
    BY <1>1 DEF ServerOk, Counter
  <2> QED BY <2>1, <2>2 DEF K!StorageSound
<1>3. K!WindowsCountDocuments
  <2>1. ASSUME NEW s \in Node, NEW k \in DOMAIN counting[s], NEW i \in DOMAIN counting[s][k].inputs,
               NEW x \in Position, K!Has(counting[s][k].inputs[i], x)
        PROVE  counting[s][k].inputs[i].d[x - counting[s][k].inputs[i].start + 1] = taken[s][k][x]
    <3>1. PICK ws, w : ws = counting[s][k].inputs /\ w = ws[i]
      OBVIOUS
    <3>2. ws \in Ordered /\ Counts(ws, taken[s][k])
      BY <1>1, <3>1 DEF ServerOk, Counter
    <3>3. i \in 1..Len(ws)
      BY <3>1, <3>2, StartsFall
    <3>4. CountIn(w, x) = taken[s][k][x]
      BY <2>1, <3>1, <3>2, <3>3 DEF Counts
    <3> QED BY <3>1, <3>4 DEF CountIn
  <2> QED BY <2>1 DEF K!WindowsCountDocuments
<1> QED BY <1>2, <1>3

PartInv == part = "burst" => BurstInv

\* What a server stores is in order and fits, and every window of every
\* keyword counts exactly the documents taken in its batches (burst/burst,
\* aggregator, result_storage).
THEOREM BurstsStaySound == PartsSpec => []BurstsAreSound
<1>1. PartsInit => PartInv
  BY InstancesAssumption, BurstInitially DEF PartsInit, PartInv
<1>2. PartInv /\ [PartsNext]_partsVars => PartInv'
  <2> SUFFICES ASSUME PartInv, [PartsNext]_partsVars, part' = "burst" PROVE BurstInv'
    BY DEF PartInv
  <2>1. CASE part = "burst" /\ K!Next
    BY <2>1, InstancesAssumption, BurstSteps DEF PartInv
  <2>2. CASE part' = part /\ UNCHANGED <<stored, counting, taken, folded>>
    BY <2>2 DEF PartInv, BurstInv
  <2> QED BY <2>1, <2>2 DEF PartsNext, partsVars, burstVars, sharedVars
<1>3. PartInv => BurstsAreSound
  BY BurstsSafe DEF PartInv, BurstsAreSound
<1> QED BY <1>1, <1>2, <1>3, PTL DEF PartsSpec
=============================================================================
