----------------------------- MODULE SumTheorems -----------------------------
(***************************************************************************)
(* Least elements and sums over finite sets: what the proofs about totals, *)
(* averages and folds of this project rest on.                             *)
(*                                                                         *)
(* Induction is by least counterexample.  A set of finite subsets has one  *)
(* that is minimal (the strict subset ordering is well founded on finite   *)
(* sets), and so has a set of natural numbers.                             *)
(***************************************************************************)
EXTENDS Integers, FiniteSetTheorems, Functions, TLAPS

\* A nonempty set of subsets of a finite set has a minimal one.
LEMMA MinimalSubset ==
    ASSUME NEW S, IsFiniteSet(S), NEW T \in SUBSET (SUBSET S), T # {}
    PROVE  \E m \in T : \A k \in T : k \subseteq m => k = m
<1>1. IsWellFoundedOn(StrictSubsetOrdering(S), FiniteSubsetsOf(S))
  BY FS_StrictSubsetOrderingWellFounded
<1>2. T \subseteq FiniteSubsetsOf(S)
  BY FS_Subset DEF FiniteSubsetsOf
<1>3. PICK m \in T : \A k \in T : ~ (<<k, m>> \in StrictSubsetOrdering(S))
  BY <1>1, <1>2, WFMin
<1>4. QED
  BY <1>3 DEF StrictSubsetOrdering

\* A nonempty set of natural numbers has a least one.
LEMMA Least ==
    ASSUME NEW T \in SUBSET Nat, T # {}
    PROVE  \E m \in T : \A k \in T : m <= k
<1>1. PICK b \in T : TRUE
  OBVIOUS
<1> DEFINE Small == {k \in T : k <= b}
           Downs == {0..k : k \in Small}
<1>2. IsFiniteSet(0..b)
  BY FS_Interval
<1>3. Downs \in SUBSET (SUBSET (0..b)) /\ Downs # {}
  OBVIOUS
<1>9. \A D \in SUBSET (SUBSET (0..b)) : D # {} => \E d \in D : \A e \in D : e \subseteq d => e = d
  <2> DEFINE B == 0..b
  <2>1. IsFiniteSet(B)
    BY <1>2
  <2> HIDE DEF B
  <2>2. \A D \in SUBSET (SUBSET B) : D # {} => \E d \in D : \A e \in D : e \subseteq d => e = d
    BY <2>1, MinimalSubset
  <2>3. QED
    BY <2>2 DEF B
<1> HIDE DEF Downs
<1>4. PICK d \in Downs : \A e \in Downs : e \subseteq d => e = d
  BY <1>3, <1>9
<1>5. PICK m \in Small : d = 0..m
  BY <1>4 DEF Downs
<1>6. ASSUME NEW k \in T, k < m PROVE FALSE
  <2>1. 0..k \in Downs
    BY <1>6 DEF Downs
  <2>2. 0..k \subseteq 0..m /\ m \in 0..m /\ m \notin 0..k
    BY <1>6
  <2>3. QED
    BY <1>4, <1>5, <2>1, <2>2
<1>7. QED
  BY <1>6

\* A nonempty finite set of integers has a largest one.
LEMMA Largest ==
    ASSUME NEW S, IsFiniteSet(S), S # {}, S \subseteq Int
    PROVE  \E m \in S : \A k \in S : k <= m
<1>0. \A T \in SUBSET (SUBSET S) : T # {} => \E A \in T : \A B \in T : B \subseteq A => B = A
  BY ONLY IsFiniteSet(S), MinimalSubset
<1> DEFINE Bad == {A \in SUBSET S : A # {} /\ ~ \E m \in A : \A k \in A : k <= m}
<1> SUFFICES ASSUME Bad # {} PROVE FALSE
  OBVIOUS
<1>1. PICK A \in Bad : \A B \in Bad : B \subseteq A => B = A
  <2>1. Bad \in SUBSET (SUBSET S)
    OBVIOUS
  <2> HIDE DEF Bad
  <2>2. QED
    BY <1>0, <2>1
<1>2. PICK a \in A : TRUE
  OBVIOUS
<1>3. A \ {a} # {}
  BY <1>2
<1>4. PICK m \in A \ {a} : \A k \in A \ {a} : k <= m
  <2>1. A \ {a} \notin Bad
    BY <1>1, <1>2
  <2>2. QED
    BY <1>3, <2>1
<1>5. a <= m \/ m <= a
  BY <1>2, <1>4
<1>6. CASE a <= m
  BY <1>4, <1>6
<1>7. CASE m <= a
  <2>1. \A k \in A : k <= a
    BY <1>2, <1>4, <1>7
  <2>2. QED
    BY <1>2, <2>1
<1>8. QED
  BY <1>5, <1>6, <1>7

\* The values of a function on a finite set are finitely many.
LEMMA FiniteValues ==
    ASSUME NEW S, IsFiniteSet(S), NEW f
    PROVE  IsFiniteSet({f[x] : x \in S})
<1> DEFINE T == {f[x] : x \in S}
           g == [x \in S |-> f[x]]
<1>1. g \in Surjection(S, T)
  BY DEF Surjection
<1> HIDE DEF g, T
<1>2. IsFiniteSet(T)
  BY <1>1, FS_Surjection
<1>3. QED
  BY <1>2 DEF T

---------------------------------------------------------------------------
(* SumFunctionOnSet takes its elements in the order of one CHOOSE.         *)

Some(s) == CHOOSE x \in s : TRUE

IsSum(f, S, g) ==
    g = [s \in SUBSET S |-> IF s = {} THEN 0 ELSE f[Some(s)] + g[s \ {Some(s)}]]

\* One step of the recursion.
LEMMA SumStep ==
    ASSUME NEW f, NEW S, NEW g, IsSum(f, S, g), NEW A \in SUBSET S
    PROVE  /\ A = {} => g[A] = 0
           /\ A # {} => /\ Some(A) \in A
                        /\ A \ {Some(A)} \in SUBSET S
                        /\ g[A] = f[Some(A)] + g[A \ {Some(A)}]
  BY DEF IsSum, Some

\* The recursion has one solution, whatever set it is started from.
LEMMA SumUnique ==
    ASSUME NEW f, NEW S, IsFiniteSet(S), NEW T,
           NEW g, NEW h, IsSum(f, S, g), IsSum(f, T, h), NEW A \in SUBSET S, A \subseteq T
    PROVE  g[A] = h[A]
<1> DEFINE Bad == {B \in SUBSET S : B \subseteq T /\ g[B] # h[B]}
<1> SUFFICES ASSUME Bad # {} PROVE FALSE
  OBVIOUS
<1>1. PICK B \in Bad : \A C \in Bad : C \subseteq B => C = B
  <2>1. Bad \in SUBSET (SUBSET S)
    OBVIOUS
  <2> HIDE DEF Bad
  <2>2. QED
    BY <2>1, MinimalSubset
<1>2. B \in SUBSET S /\ B \in SUBSET T
  OBVIOUS
<1>3. B # {}
  BY <1>2, SumStep
<1>4. Some(B) \in B /\ g[B \ {Some(B)}] = h[B \ {Some(B)}]
  <2>1. Some(B) \in B
    BY <1>2, <1>3, SumStep
  <2>2. B \ {Some(B)} \notin Bad
    BY <1>1, <2>1
  <2>3. QED
    BY <2>1, <2>2
<1>5. g[B] = f[Some(B)] + g[B \ {Some(B)}] /\ h[B] = f[Some(B)] + h[B \ {Some(B)}]
  BY <1>2, <1>3, SumStep
<1>6. QED
  BY <1>1, <1>4, <1>5

\* It has a solution on finite sets.
LEMMA SumExists ==
    ASSUME NEW f, NEW S, IsFiniteSet(S)
    PROVE  \E g : IsSum(f, S, g)
<1> DEFINE Bad == {A \in SUBSET S : ~ \E g : IsSum(f, A, g)}
<1> SUFFICES ASSUME Bad # {} PROVE FALSE
  OBVIOUS
<1>1. PICK A \in Bad : \A B \in Bad : B \subseteq A => B = A
  <2>1. Bad \in SUBSET (SUBSET S)
    OBVIOUS
  <2> HIDE DEF Bad
  <2>2. QED
    BY <2>1, MinimalSubset
<1>2. A \in SUBSET S /\ ~ \E g : IsSum(f, A, g)
  OBVIOUS
<1>3. \A B \in SUBSET A : IsFiniteSet(B)
  BY <1>2, FS_Subset
<1> DEFINE G(B) == CHOOSE g : IsSum(f, B, g)
<1>4. \A B \in SUBSET A : B # A => IsSum(f, B, G(B))
  BY <1>1, <1>2
<1> DEFINE h == [s \in SUBSET A |-> IF s = {} THEN 0
                  ELSE f[Some(s)] + G(s \ {Some(s)})[s \ {Some(s)}]]
<1>5. ASSUME NEW s \in SUBSET A, s # {}
      PROVE  h[s \ {Some(s)}] = G(s \ {Some(s)})[s \ {Some(s)}]
  <2> DEFINE B == s \ {Some(s)}
             C == B \ {Some(B)}
  <2> HIDE DEF G
  <2>1. Some(s) \in s
    BY <1>5 DEF Some
  <2>2. B \in SUBSET A /\ B # A
    BY <2>1
  <2>3. IsSum(f, B, G(B))
    BY <1>4, <2>2
  <2>4. CASE B = {}
    <3>1. G(B)[B] = 0
      <4> HIDE DEF B
      <4>1. \A g : IsSum(f, B, g) => g[B] = 0
        BY <2>4, SumStep
      <4>2. QED
        BY <2>3, <4>1
    <3>2. h[B] = 0
      BY <2>2, <2>4
    <3>3. QED
      BY <3>1, <3>2
  <2>5. CASE B # {}
    <3>1. Some(B) \in B /\ C \in SUBSET B /\ C \in SUBSET A /\ C # A
      BY <2>2, <2>5 DEF Some
    <3>2. IsSum(f, C, G(C))
      BY <1>4, <3>1
    <3>3. G(B)[B] = f[Some(B)] + G(B)[C]
      <4> HIDE DEF B
      <4>1. \A g : IsSum(f, B, g) => g[B] = f[Some(B)] + g[C]
        BY <2>5, SumStep
      <4>2. QED
        BY <2>3, <4>1
    <3>4. G(B)[C] = G(C)[C]
      BY <1>3, <2>2, <2>3, <3>1, <3>2, SumUnique
    <3>5. h[B] = f[Some(B)] + G(C)[C]
      BY <2>2, <2>5
    <3>6. QED
      BY <3>3, <3>4, <3>5
  <2>6. QED
    BY <2>4, <2>5
<1>6. IsSum(f, A, h)
  <2>1. \A s \in SUBSET A :
            h[s] = IF s = {} THEN 0 ELSE f[Some(s)] + h[s \ {Some(s)}]
    <3> SUFFICES ASSUME NEW s \in SUBSET A
                 PROVE  h[s] = IF s = {} THEN 0 ELSE f[Some(s)] + h[s \ {Some(s)}]
      OBVIOUS
    <3> HIDE DEF G
    <3>1. h[s] = IF s = {} THEN 0 ELSE f[Some(s)] + G(s \ {Some(s)})[s \ {Some(s)}]
      OBVIOUS
    <3>2. s # {} => h[s \ {Some(s)}] = G(s \ {Some(s)})[s \ {Some(s)}]
      BY <1>5
    <3> HIDE DEF h
    <3>3. QED
      BY <3>1, <3>2
  <2>2. h = [s \in SUBSET A |-> h[s]]
    OBVIOUS
  <2> HIDE DEF h
  <2>3. [s \in SUBSET A |-> h[s]]
          = [s \in SUBSET A |-> IF s = {} THEN 0 ELSE f[Some(s)] + h[s \ {Some(s)}]]
    BY <2>1
  <2>4. QED
    BY <2>2, <2>3 DEF IsSum
<1>7. QED
  BY <1>2, <1>6

\* The library names its sums by these solutions.
LEMMA SumIsRecursive ==
    ASSUME NEW f, NEW S
    PROVE  SumFunctionOnSet(f, S) = (CHOOSE g : IsSum(f, S, g))[S]
  BY Zenon DEF SumFunctionOnSet, FoldFunctionOnSet, MapThenFoldSet, IsSum, Some

\* A sum is the value of any solution at the set.
LEMMA SumIs ==
    ASSUME NEW f, NEW S, IsFiniteSet(S), NEW g, IsSum(f, S, g), NEW A \in SUBSET S
    PROVE  SumFunctionOnSet(f, A) = g[A]
<1>1. IsFiniteSet(A)
  BY FS_Subset
<1> DEFINE h == CHOOSE k : IsSum(f, A, k)
<1>2. IsSum(f, A, h)
  BY <1>1, SumExists
<1>3. SumFunctionOnSet(f, A) = h[A]
  BY SumIsRecursive
<1> HIDE DEF h
<1>4. h[A] = g[A]
  <2>1. A \in SUBSET A /\ A \subseteq S
    OBVIOUS
  <2>2. \A k : IsSum(f, A, k) => k[A] = g[A]
    BY <1>1, <2>1, SumUnique
  <2>3. QED
    BY <1>2, <2>2
<1>5. QED
  BY <1>3, <1>4

---------------------------------------------------------------------------
\* The empty sum is zero.
LEMMA SumOfNone == ASSUME NEW f PROVE SumFunctionOnSet(f, {}) = 0
<1>1. IsFiniteSet({})
  BY FS_EmptySet
<1>2. PICK g : IsSum(f, {}, g)
  BY <1>1, SumExists
<1>3. {} \in SUBSET {}
  OBVIOUS
<1>4. SumFunctionOnSet(f, {}) = g[{}]
  BY <1>1, <1>2, <1>3, SumIs
<1>5. g[{}] = 0
  BY <1>2, <1>3, SumStep
<1>6. QED
  BY <1>4, <1>5

\* A sum is where its terms are, when that holds zero and is closed under +.
LEMMA SumStays ==
    ASSUME NEW f, NEW S, IsFiniteSet(S), NEW N, 0 \in N,
           \A a, b \in N : a + b \in N, \A x \in S : f[x] \in N
    PROVE  SumFunctionOnSet(f, S) \in N
<1>1. PICK g : IsSum(f, S, g)
  BY SumExists
<1> DEFINE Bad == {A \in SUBSET S : g[A] \notin N}
<1> SUFFICES ASSUME Bad # {} PROVE FALSE
  BY <1>1, SumIs
<1>2. PICK A \in Bad : \A B \in Bad : B \subseteq A => B = A
  <2>1. Bad \in SUBSET (SUBSET S)
    OBVIOUS
  <2> HIDE DEF Bad
  <2>2. QED
    BY <2>1, MinimalSubset
<1>3. A # {}
  <2>1. \A B \in SUBSET S : B = {} => g[B] = 0
    BY <1>1, SumStep
  <2>2. QED
    BY <2>1
<1>4. Some(A) \in A /\ g[A] = f[Some(A)] + g[A \ {Some(A)}]
  BY <1>1, <1>3, SumStep
<1>5. g[A \ {Some(A)}] \in N
  BY <1>2, <1>4
<1>6. f[Some(A)] \in N
  BY <1>4
<1>7. QED
  BY <1>4, <1>5, <1>6

\* A sum of integers is an integer, one of natural numbers a natural number.
LEMMA SumInt ==
    ASSUME NEW f, NEW S, IsFiniteSet(S), \A x \in S : f[x] \in Int
    PROVE  SumFunctionOnSet(f, S) \in Int
<1>1. 0 \in Int /\ \A a, b \in Int : a + b \in Int
  OBVIOUS
<1>2. QED
  BY <1>1, SumStays

\* Of natural numbers, a natural number.
LEMMA SumNat ==
    ASSUME NEW f, NEW S, IsFiniteSet(S), \A x \in S : f[x] \in Nat
    PROVE  SumFunctionOnSet(f, S) \in Nat
<1>1. 0 \in Nat /\ \A a, b \in Nat : a + b \in Nat
  OBVIOUS
<1>2. QED
  BY <1>1, SumStays

\* Any element can be taken out first.
LEMMA SumTake ==
    ASSUME NEW f, NEW S, IsFiniteSet(S), \A y \in S : f[y] \in Int, NEW x \in S
    PROVE  SumFunctionOnSet(f, S) = f[x] + SumFunctionOnSet(f, S \ {x})
<1>1. PICK g : IsSum(f, S, g)
  BY SumExists
<1> DEFINE Bad == {A \in SUBSET S : \E y \in A : g[A] # f[y] + g[A \ {y}]}
<1>2. \A A \in SUBSET S : g[A] \in Int
  <2> SUFFICES ASSUME NEW A \in SUBSET S PROVE g[A] \in Int
    OBVIOUS
  <2>1. IsFiniteSet(A) /\ \A y \in A : f[y] \in Int
    BY FS_Subset
  <2>2. SumFunctionOnSet(f, A) \in Int
    BY <2>1, SumInt
  <2>3. QED
    BY <1>1, <2>2, SumIs
<1>3. Bad = {}
  <2> SUFFICES ASSUME Bad # {} PROVE FALSE
    OBVIOUS
  <2>1. PICK A \in Bad : \A B \in Bad : B \subseteq A => B = A
    <3>1. Bad \in SUBSET (SUBSET S)
      OBVIOUS
    <3> HIDE DEF Bad
    <3>2. QED
      BY <3>1, MinimalSubset
  <2>2. PICK y \in A : g[A] # f[y] + g[A \ {y}]
    OBVIOUS
  <2> DEFINE z == Some(A)
  <2>3. A # {} /\ z \in A /\ g[A] = f[z] + g[A \ {z}]
    BY <1>1, <2>2, SumStep
  <2> HIDE DEF z
  <2>4. y # z
    BY <2>2, <2>3
  <2>5. /\ A \ {z} \notin Bad /\ A \ {y} \notin Bad
        /\ A \ {z} \in SUBSET S /\ A \ {y} \in SUBSET S
        /\ y \in A \ {z} /\ z \in A \ {y}
    BY <2>1, <2>3, <2>4
  <2> DEFINE C == A \ {y, z}
  <2>6. C \in SUBSET S /\ (A \ {z}) \ {y} = C /\ (A \ {y}) \ {z} = C
    OBVIOUS
  <2>7. g[A \ {z}] = f[y] + g[C] /\ g[A \ {y}] = f[z] + g[C]
    BY <2>5, <2>6
  <2>8. f[y] \in Int /\ f[z] \in Int /\ g[C] \in Int
    BY <1>2, <2>3, <2>6
  <2>9. g[A] # f[y] + g[A \ {y}] /\ g[A] = f[z] + g[A \ {z}]
    BY <2>2, <2>3
  <2> HIDE DEF C
  <2>10. QED
    BY <2>7, <2>8, <2>9
<1>4. g[S] = f[x] + g[S \ {x}]
  BY <1>3
<1>5. QED
  BY <1>1, <1>4, SumIs

\* An element that was not there is added.
LEMMA SumPut ==
    ASSUME NEW f, NEW S, IsFiniteSet(S), NEW x, x \notin S, \A y \in S \cup {x} : f[y] \in Int
    PROVE  SumFunctionOnSet(f, S \cup {x}) = f[x] + SumFunctionOnSet(f, S)
<1>1. IsFiniteSet(S \cup {x}) /\ (S \cup {x}) \ {x} = S
  BY FS_AddElement
<1>2. QED
  BY <1>1, SumTake

\* Only the values on the set count.
LEMMA SumSame ==
    ASSUME NEW f, NEW h, NEW S, IsFiniteSet(S), \A x \in S : f[x] = h[x]
    PROVE  SumFunctionOnSet(f, S) = SumFunctionOnSet(h, S)
<1>1. PICK g : IsSum(f, S, g)
  BY SumExists
<1>2. g = [s \in SUBSET S |-> IF s = {} THEN 0 ELSE f[Some(s)] + g[s \ {Some(s)}]]
  BY <1>1 DEF IsSum
<1>3. \A s \in SUBSET S : s # {} => f[Some(s)] = h[Some(s)]
  BY DEF Some
<1>4. [s \in SUBSET S |-> IF s = {} THEN 0 ELSE f[Some(s)] + g[s \ {Some(s)}]]
        = [s \in SUBSET S |-> IF s = {} THEN 0 ELSE h[Some(s)] + g[s \ {Some(s)}]]
  BY <1>3
<1>5. IsSum(h, S, g)
  BY <1>2, <1>4 DEF IsSum
<1>6. QED
  BY <1>1, <1>5, SumIs
\* Where one value differs, so do the sums.
LEMMA SumChange ==
    ASSUME NEW f, NEW h, NEW S, IsFiniteSet(S), \A y \in S : f[y] \in Int /\ h[y] \in Int,
           NEW x \in S, \A y \in S : y # x => f[y] = h[y]
    PROVE  SumFunctionOnSet(h, S) = SumFunctionOnSet(f, S) + (h[x] - f[x])
<1>1. IsFiniteSet(S \ {x})
  BY FS_Subset
<1>2. SumFunctionOnSet(f, S \ {x}) = SumFunctionOnSet(h, S \ {x})
  BY <1>1, SumSame
<1>3. SumFunctionOnSet(f, S \ {x}) \in Int
  BY <1>1, SumInt
<1>4. /\ SumFunctionOnSet(f, S) = f[x] + SumFunctionOnSet(f, S \ {x})
      /\ SumFunctionOnSet(h, S) = h[x] + SumFunctionOnSet(h, S \ {x})
  BY SumTake
<1>5. QED
  BY <1>2, <1>3, <1>4

\* A sum of sums.
LEMMA SumAdd ==
    ASSUME NEW f, NEW g, NEW h, NEW S, IsFiniteSet(S),
           \A x \in S : f[x] \in Int /\ g[x] \in Int /\ h[x] = f[x] + g[x]
    PROVE  SumFunctionOnSet(h, S) = SumFunctionOnSet(f, S) + SumFunctionOnSet(g, S)
<1> DEFINE Bad == {A \in SUBSET S : SumFunctionOnSet(h, A) # SumFunctionOnSet(f, A) + SumFunctionOnSet(g, A)}
<1> SUFFICES ASSUME Bad # {} PROVE FALSE
  OBVIOUS
<1>1. PICK A \in Bad : \A B \in Bad : B \subseteq A => B = A
  <2>1. Bad \in SUBSET (SUBSET S)
    OBVIOUS
  <2> HIDE DEF Bad
  <2>2. QED
    BY <2>1, MinimalSubset
<1>2. A \in SUBSET S /\ SumFunctionOnSet(h, A) # SumFunctionOnSet(f, A) + SumFunctionOnSet(g, A)
  OBVIOUS
<1>3. A # {}
  BY <1>2, SumOfNone
<1>4. PICK x \in A : TRUE
  BY <1>3
<1> DEFINE B == A \ {x}
<1>5. IsFiniteSet(A) /\ IsFiniteSet(B) /\ \A y \in A : f[y] \in Int /\ g[y] \in Int /\ h[y] \in Int
  BY <1>2, FS_Subset
<1>6. SumFunctionOnSet(h, B) = SumFunctionOnSet(f, B) + SumFunctionOnSet(g, B)
  <2>1. B \notin Bad /\ B \in SUBSET S
    BY <1>1
  <2>2. QED
    BY <2>1
<1>7. /\ SumFunctionOnSet(h, A) = h[x] + SumFunctionOnSet(h, B)
      /\ SumFunctionOnSet(f, A) = f[x] + SumFunctionOnSet(f, B)
      /\ SumFunctionOnSet(g, A) = g[x] + SumFunctionOnSet(g, B)
  BY <1>5, SumTake
<1>8. SumFunctionOnSet(f, B) \in Int /\ SumFunctionOnSet(g, B) \in Int
  BY <1>5, SumInt
<1>9. h[x] = f[x] + g[x] /\ f[x] \in Int /\ g[x] \in Int
  BY <1>2
<1> HIDE DEF B, Bad
<1>10. QED
  BY <1>2, <1>6, <1>7, <1>8, <1>9

\* No term is larger, no sum is.
LEMMA SumLess ==
    ASSUME NEW f, NEW h, NEW S, IsFiniteSet(S),
           \A x \in S : f[x] \in Int /\ h[x] \in Int /\ f[x] <= h[x]
    PROVE  SumFunctionOnSet(f, S) <= SumFunctionOnSet(h, S)
<1> DEFINE d == [x \in S |-> h[x] - f[x]]
<1>1. \A x \in S : d[x] \in Nat /\ d[x] \in Int /\ h[x] = f[x] + d[x]
  OBVIOUS
<1> HIDE DEF d
<1>2. SumFunctionOnSet(d, S) \in Nat
  BY <1>1, SumNat
<1>3. SumFunctionOnSet(h, S) = SumFunctionOnSet(f, S) + SumFunctionOnSet(d, S)
  BY <1>1, SumAdd
<1>4. SumFunctionOnSet(f, S) \in Int
  BY SumInt
<1>5. QED
  BY <1>2, <1>3, <1>4

\* A term of a sum of natural numbers is not more than the sum.
LEMMA SumCovers ==
    ASSUME NEW f, NEW S, IsFiniteSet(S), \A y \in S : f[y] \in Nat, NEW x \in S
    PROVE  f[x] <= SumFunctionOnSet(f, S)
<1>1. IsFiniteSet(S \ {x})
  BY FS_Subset
<1>2. SumFunctionOnSet(f, S \ {x}) \in Nat
  BY <1>1, SumNat
<1>3. SumFunctionOnSet(f, S) = f[x] + SumFunctionOnSet(f, S \ {x})
  BY SumTake
<1>4. QED
  BY <1>2, <1>3

\* A sum of zeros is zero.
LEMMA SumOfZeros ==
    ASSUME NEW f, NEW S, IsFiniteSet(S), \A x \in S : f[x] = 0
    PROVE  SumFunctionOnSet(f, S) = 0
<1>1. 0 \in {0} /\ \A a, b \in {0} : a + b \in {0}
  OBVIOUS
<1>2. \A x \in S : f[x] \in {0}
  OBVIOUS
<1>3. SumFunctionOnSet(f, S) \in {0}
  <2> DEFINE N == {0}
  <2>1. 0 \in N /\ (\A a, b \in N : a + b \in N) /\ \A x \in S : f[x] \in N
    BY <1>1, <1>2
  <2> HIDE DEF N
  <2>2. SumFunctionOnSet(f, S) \in N
    BY <2>1, SumStays
  <2>3. QED
    BY <2>2 DEF N
<1>4. QED
  BY <1>3

\* Zeros can be left out.
LEMMA SumWithZeros ==
    ASSUME NEW f, NEW S, IsFiniteSet(S), NEW A \in SUBSET S,
           \A x \in S : f[x] \in Int, \A x \in S \ A : f[x] = 0
    PROVE  SumFunctionOnSet(f, S) = SumFunctionOnSet(f, A)
<1> DEFINE Bad == {B \in SUBSET S : SumFunctionOnSet(f, B) # SumFunctionOnSet(f, B \cap A)}
<1>1. Bad = {}
  <2> SUFFICES ASSUME Bad # {} PROVE FALSE
    OBVIOUS
  <2>1. PICK B \in Bad : \A C \in Bad : C \subseteq B => C = B
    <3>1. Bad \in SUBSET (SUBSET S)
      OBVIOUS
    <3> HIDE DEF Bad
    <3>2. QED
      BY <3>1, MinimalSubset
  <2>2. B \in SUBSET S /\ SumFunctionOnSet(f, B) # SumFunctionOnSet(f, B \cap A)
    OBVIOUS
  <2>3. PICK x \in B : x \notin A
    <3>1. B \cap A # B
      BY <2>2
    <3>2. QED
      BY <3>1
  <2>4. IsFiniteSet(B) /\ \A y \in B : f[y] \in Int
    BY <2>2, FS_Subset
  <2>5. SumFunctionOnSet(f, B) = f[x] + SumFunctionOnSet(f, B \ {x})
    BY <2>4, SumTake
  <2>6. f[x] = 0 /\ SumFunctionOnSet(f, B \ {x}) \in Int
    <3>1. IsFiniteSet(B \ {x})
      BY <2>4, FS_Subset
    <3>2. QED
      BY <2>2, <2>3, <2>4, <3>1, SumInt
  <2>7. B \ {x} \notin Bad /\ B \ {x} \in SUBSET S /\ (B \ {x}) \cap A = B \cap A
    BY <2>1, <2>3
  <2>8. SumFunctionOnSet(f, B \ {x}) = SumFunctionOnSet(f, B \cap A)
    BY <2>7
  <2> HIDE DEF Bad
  <2>9. QED
    BY <2>2, <2>5, <2>6, <2>8
<1>2. S \in SUBSET S /\ S \cap A = A
  OBVIOUS
<1>3. QED
  BY <1>1, <1>2

\* A set has as many elements as it has ones.
LEMMA SumOfOnes ==
    ASSUME NEW f, NEW S, IsFiniteSet(S), \A x \in S : f[x] = 1
    PROVE  SumFunctionOnSet(f, S) = Cardinality(S)
<1> DEFINE Bad == {B \in SUBSET S : SumFunctionOnSet(f, B) # Cardinality(B)}
<1>1. Bad = {}
  <2> SUFFICES ASSUME Bad # {} PROVE FALSE
    OBVIOUS
  <2>1. PICK B \in Bad : \A C \in Bad : C \subseteq B => C = B
    <3>1. Bad \in SUBSET (SUBSET S)
      OBVIOUS
    <3> HIDE DEF Bad
    <3>2. QED
      BY <3>1, MinimalSubset
  <2>2. B \in SUBSET S /\ SumFunctionOnSet(f, B) # Cardinality(B)
    OBVIOUS
  <2>3. PICK x \in B : TRUE
    BY <2>2, SumOfNone, FS_EmptySet
  <2>4. IsFiniteSet(B) /\ \A y \in B : f[y] \in Int
    BY <2>2, FS_Subset
  <2>5. SumFunctionOnSet(f, B) = f[x] + SumFunctionOnSet(f, B \ {x})
    BY <2>4, SumTake
  <2>6. Cardinality(B \ {x}) = Cardinality(B) - 1 /\ Cardinality(B) \in Nat
    BY <2>3, <2>4, FS_RemoveElement, FS_CardinalityType
  <2>7. B \ {x} \notin Bad /\ B \ {x} \in SUBSET S
    BY <2>1, <2>3
  <2>8. SumFunctionOnSet(f, B \ {x}) = Cardinality(B \ {x}) /\ f[x] = 1
    BY <2>2, <2>7
  <2> HIDE DEF Bad
  <2>9. QED
    BY <2>2, <2>5, <2>6, <2>8
<1>2. QED
  BY <1>1

\* A sum stays when what is added is called otherwise.
LEMMA SumMoved ==
    ASSUME NEW f, NEW h, NEW b, NEW S, IsFiniteSet(S),
           \A x \in S : h[x] \in Int /\ f[b[x]] = h[x],
           \A x, y \in S : b[x] = b[y] => x = y
    PROVE  SumFunctionOnSet(f, {b[x] : x \in S}) = SumFunctionOnSet(h, S)
<1> DEFINE Image(B) == {b[x] : x \in B}
           Bad == {B \in SUBSET S : SumFunctionOnSet(f, Image(B)) # SumFunctionOnSet(h, B)}
<1>1. Bad = {}
  <2> SUFFICES ASSUME Bad # {} PROVE FALSE
    OBVIOUS
  <2>1. PICK B \in Bad : \A C \in Bad : C \subseteq B => C = B
    <3>1. Bad \in SUBSET (SUBSET S)
      OBVIOUS
    <3> HIDE DEF Bad
    <3>2. QED
      BY <3>1, MinimalSubset
  <2>2. B \in SUBSET S /\ SumFunctionOnSet(f, Image(B)) # SumFunctionOnSet(h, B)
    OBVIOUS
  <2>3. PICK x \in B : TRUE
    <3>1. Image({}) = {}
      OBVIOUS
    <3>2. SumFunctionOnSet(f, Image({})) = SumFunctionOnSet(h, {})
      BY <3>1, SumOfNone
    <3>3. B # {}
      <4> HIDE DEF Image, Bad
      <4>1. QED
        BY <2>2, <3>2
    <3>4. QED
      BY <3>3
  <2>4. IsFiniteSet(B) /\ IsFiniteSet(Image(B))
    <3>1. IsFiniteSet(B)
      BY <2>2, FS_Subset
    <3>2. QED
      BY <3>1, FiniteValues
  <2>5. (\A y \in B : h[y] \in Int) /\ \A y \in Image(B) : f[y] \in Int
    BY <2>2
  <2>6. b[x] \in Image(B) /\ Image(B) \ {b[x]} = Image(B \ {x})
    BY <2>2, <2>3
  <2>7. SumFunctionOnSet(h, B) = h[x] + SumFunctionOnSet(h, B \ {x})
    BY <2>4, <2>5, SumTake
  <2>8. SumFunctionOnSet(f, Image(B)) = f[b[x]] + SumFunctionOnSet(f, Image(B \ {x}))
    <3> HIDE DEF Image, Bad
    <3>1. SumFunctionOnSet(f, Image(B)) = f[b[x]] + SumFunctionOnSet(f, Image(B) \ {b[x]})
      BY <2>4, <2>5, <2>6, SumTake
    <3>2. QED
      BY <3>1, <2>6
  <2>9. B \ {x} \notin Bad /\ B \ {x} \in SUBSET S
    BY <2>1, <2>3
  <2>10. SumFunctionOnSet(f, Image(B \ {x})) = SumFunctionOnSet(h, B \ {x}) /\ f[b[x]] = h[x]
    BY <2>2, <2>9
  <2> HIDE DEF Bad, Image
  <2>11. QED
    BY <2>2, <2>7, <2>8, <2>10
<1>2. QED
  BY <1>1

\* The sets P[x] have nothing in common, and are U together.
Parts(P, S, U) ==
    /\ U = UNION {P[x] : x \in S}
    /\ \A x, y \in S : x # y => P[x] \cap P[y] = {}

\* A sum of their counts is that of all of it.
LEMMA SumOfParts ==
    ASSUME NEW f, NEW P, NEW S, IsFiniteSet(S), NEW U, Parts(P, S, U),
           \A x \in S : IsFiniteSet(P[x]) /\ f[x] = Cardinality(P[x])
    PROVE  IsFiniteSet(U) /\ SumFunctionOnSet(f, S) = Cardinality(U)
<1> DEFINE All(B) == UNION {P[x] : x \in B}
           Right(B) == IsFiniteSet(All(B)) /\ SumFunctionOnSet(f, B) = Cardinality(All(B))
           Bad == {B \in SUBSET S : ~Right(B)}
<1>1. Bad = {}
  <2> SUFFICES ASSUME Bad # {} PROVE FALSE
    OBVIOUS
  <2>1. PICK B \in Bad : \A C \in Bad : C \subseteq B => C = B
    <3>1. Bad \in SUBSET (SUBSET S)
      OBVIOUS
    <3> HIDE DEF Bad
    <3>2. QED
      BY <3>1, MinimalSubset
  <2>2. B \in SUBSET S /\ ~Right(B)
    OBVIOUS
  <2>3. PICK x \in B : TRUE
    <3>1. All({}) = {}
      OBVIOUS
    <3>2. SumFunctionOnSet(f, {}) = 0 /\ IsFiniteSet({}) /\ Cardinality({}) = 0
      BY SumOfNone, FS_EmptySet
    <3>3. Right({})
      BY <3>1, <3>2
    <3> HIDE DEF Right, Bad
    <3>4. B # {}
      BY <2>2, <3>3
    <3>5. QED
      BY <3>4
  <2>4. IsFiniteSet(B) /\ \A y \in B : f[y] \in Int
    BY <2>2, FS_Subset, FS_CardinalityType
  <2>5. SumFunctionOnSet(f, B) = f[x] + SumFunctionOnSet(f, B \ {x})
    BY <2>4, SumTake
  <2>6. B \ {x} \notin Bad /\ B \ {x} \in SUBSET S
    BY <2>1, <2>3
  <2>7. Right(B \ {x})
    BY <2>6
  <2>8. All(B) = All(B \ {x}) \cup P[x] /\ All(B \ {x}) \cap P[x] = {}
    BY <2>2, <2>3 DEF Parts
  <2>9. IsFiniteSet(P[x]) /\ f[x] = Cardinality(P[x]) /\ Cardinality(P[x]) \in Nat
    BY <2>2, FS_CardinalityType
  <2>10. IsFiniteSet(All(B \ {x})) /\ SumFunctionOnSet(f, B \ {x}) = Cardinality(All(B \ {x}))
    BY <2>7
  <2> HIDE DEF All
  <2>11. Cardinality(All(B \ {x})) \in Nat
    BY <2>10, FS_CardinalityType
  <2>12. IsFiniteSet(All(B)) /\ Cardinality(All(B)) = Cardinality(All(B \ {x})) + Cardinality(P[x])
    <3>1. PICK A, C : A = All(B \ {x}) /\ C = P[x]
      OBVIOUS
    <3>2. IsFiniteSet(A) /\ IsFiniteSet(C) /\ A \cap C = {} /\ All(B) = A \cup C
      BY <2>8, <2>9, <2>10, <3>1
    <3>3. /\ IsFiniteSet(A \cup C)
          /\ Cardinality(A \cup C) = Cardinality(A) + Cardinality(C) - Cardinality(A \cap C)
      BY <3>2, FS_Union
    <3>4. Cardinality(A \cap C) = 0
      BY <3>2, FS_EmptySet
    <3>5. Cardinality(A) \in Nat /\ Cardinality(C) \in Nat
      BY <3>2, FS_CardinalityType
    <3>6. Cardinality(A \cup C) = Cardinality(A) + Cardinality(C)
      BY ONLY <3>3, <3>4, <3>5
    <3>7. Cardinality(All(B)) = Cardinality(A \cup C) /\ IsFiniteSet(All(B))
      BY <3>2, <3>3
    <3>8. QED
      BY ONLY <3>1, <3>6, <3>7
  <2>13. QED
    BY <2>2, <2>5, <2>9, <2>10, <2>11, <2>12
<1>2. Right(S)
  BY <1>1
<1>3. U = All(S)
  BY DEF Parts
<1>4. QED
  BY <1>2, <1>3

\* The greatest of a set of integers, and the least.
Greatest(S) == CHOOSE x \in S : \A y \in S : x >= y
Lowest(S) == CHOOSE x \in S : \A y \in S : x <= y

LEMMA GreatestIs ==
    ASSUME NEW S \in SUBSET Int, NEW m \in S, \A x \in S : x <= m
    PROVE  Greatest(S) = m
<1>1. \E x \in S : \A y \in S : x >= y
  <2>1. \A y \in S : m >= y
    OBVIOUS
  <2>2. QED
    BY <2>1
<1>2. Greatest(S) \in S /\ \A y \in S : Greatest(S) >= y
  BY <1>1, Zenon DEF Greatest
<1>3. Greatest(S) \in Int /\ m \in Int /\ Greatest(S) >= m /\ Greatest(S) <= m
  BY <1>2
<1>4. QED
  BY <1>3

LEMMA LowestIs ==
    ASSUME NEW S \in SUBSET Int, NEW m \in S, \A x \in S : m <= x
    PROVE  Lowest(S) = m
<1>1. \E x \in S : \A y \in S : x <= y
  OBVIOUS
<1>2. Lowest(S) \in S /\ \A y \in S : Lowest(S) <= y
  BY <1>1, Zenon DEF Lowest
<1>3. Lowest(S) \in Int /\ m \in Int /\ Lowest(S) <= m /\ m <= Lowest(S)
  BY <1>2
<1>4. QED
  BY <1>3

LEMMA GreatestOf ==
    ASSUME NEW S \in SUBSET Int, IsFiniteSet(S), S # {}
    PROVE  Greatest(S) \in S /\ \A x \in S : x <= Greatest(S)
<1>1. PICK m \in S : \A x \in S : x <= m
  BY Largest
<1>2. Greatest(S) = m
  BY <1>1, GreatestIs
<1>3. QED
  BY <1>1, <1>2

LEMMA LowestOf ==
    ASSUME NEW S \in SUBSET Int, IsFiniteSet(S), S # {}
    PROVE  Lowest(S) \in S /\ \A x \in S : Lowest(S) <= x
<1> DEFINE minus == [x \in S |-> 0 - x]
           N == {minus[x] : x \in S}
<1>1. IsFiniteSet(N)
  BY FiniteValues
<1>2. N # {} /\ N \subseteq Int
  <2>1. PICK x \in S : TRUE
    OBVIOUS
  <2>2. minus[x] \in N
    OBVIOUS
  <2>3. \A y \in S : minus[y] \in Int
    OBVIOUS
  <2>4. QED
    BY <2>2, <2>3
<1>3. PICK n \in N : \A x \in N : x <= n
  <2> HIDE DEF N
  <2>1. QED
    BY <1>1, <1>2, Largest
<1>4. PICK m \in S : n = 0 - m
  OBVIOUS
<1>5. \A x \in S : m <= x
  BY <1>3, <1>4
<1>6. Lowest(S) = m
  BY <1>5, LowestIs
<1>7. QED
  BY <1>5, <1>6

\* The greatest of some integers and one more.
LEMMA GreatestMore ==
    ASSUME NEW S \in SUBSET Int, IsFiniteSet(S), NEW d \in Int
    PROVE  /\ S # {} => Greatest(S \cup {d}) = Greatest({Greatest(S), d})
           /\ S # {} /\ Greatest(S \cup {d}) # d => Greatest(S \cup {d}) = Greatest(S)
           /\ S = {} => Greatest(S \cup {d}) = d
<1>1. CASE S = {}
  <2>1. S \cup {d} \in SUBSET Int /\ d \in S \cup {d} /\ \A x \in S \cup {d} : x <= d
    BY <1>1
  <2>2. Greatest(S \cup {d}) = d
    BY <2>1, GreatestIs
  <2>3. QED
    BY <1>1, <2>2
<1>2. CASE S # {}
  <2>1. PICK g : g = Greatest(S)
    OBVIOUS
  <2>2. g \in S /\ \A x \in S : x <= g
    BY <1>2, <2>1, GreatestOf
  <2>3. g \in Int /\ {g, d} \in SUBSET Int /\ S \cup {d} \in SUBSET Int
    BY <2>2
  <2>4. CASE g <= d
    <3>1. d \in {g, d} /\ d \in S \cup {d} /\ \A x \in {g, d} : x <= d
      BY <2>3, <2>4
    <3>2. \A x \in S \cup {d} : x <= d
      <4>1. \A x \in S : x \in Int /\ x <= g
        BY <2>2
      <4>2. QED
        BY <2>3, <2>4, <4>1
    <3>3. Greatest({g, d}) = d
      BY <2>3, <3>1, GreatestIs
    <3>4. Greatest(S \cup {d}) = d
      BY <2>3, <3>1, <3>2, GreatestIs
    <3>5. QED
      BY <1>2, <2>1, <3>3, <3>4
  <2>5. CASE ~(g <= d)
    <3>1. g \in {g, d} /\ g \in S \cup {d} /\ \A x \in {g, d} : x <= g
      BY <2>2, <2>3, <2>5
    <3>2. \A x \in S \cup {d} : x <= g
      BY <2>2, <2>3, <2>5
    <3>3. Greatest({g, d}) = g
      BY <2>3, <3>1, GreatestIs
    <3>4. Greatest(S \cup {d}) = g
      BY <2>3, <3>1, <3>2, GreatestIs
    <3>5. QED
      BY <1>2, <2>1, <3>3, <3>4
  <2>6. QED
    BY <2>4, <2>5
<1>3. QED
  BY <1>1, <1>2

\* The least of some integers and one more.
LEMMA LowestMore ==
    ASSUME NEW S \in SUBSET Int, IsFiniteSet(S), NEW d \in Int
    PROVE  /\ S # {} => Lowest(S \cup {d}) = Lowest({Lowest(S), d})
           /\ S # {} /\ Lowest(S \cup {d}) # d => Lowest(S \cup {d}) = Lowest(S)
           /\ S = {} => Lowest(S \cup {d}) = d
<1>1. CASE S = {}
  <2>1. S \cup {d} \in SUBSET Int /\ d \in S \cup {d} /\ \A x \in S \cup {d} : d <= x
    BY <1>1
  <2>2. Lowest(S \cup {d}) = d
    BY <2>1, LowestIs
  <2>3. QED
    BY <1>1, <2>2
<1>2. CASE S # {}
  <2>1. PICK g : g = Lowest(S)
    OBVIOUS
  <2>2. g \in S /\ \A x \in S : g <= x
    BY <1>2, <2>1, LowestOf
  <2>3. g \in Int /\ {g, d} \in SUBSET Int /\ S \cup {d} \in SUBSET Int
    BY <2>2
  <2>4. CASE d <= g
    <3>1. d \in {g, d} /\ d \in S \cup {d} /\ \A x \in {g, d} : d <= x
      BY <2>3, <2>4
    <3>2. \A x \in S \cup {d} : d <= x
      <4>1. \A x \in S : x \in Int /\ g <= x
        BY <2>2
      <4>2. QED
        BY <2>3, <2>4, <4>1
    <3>3. Lowest({g, d}) = d
      BY <2>3, <3>1, LowestIs
    <3>4. Lowest(S \cup {d}) = d
      BY <2>3, <3>1, <3>2, LowestIs
    <3>5. QED
      BY <1>2, <2>1, <3>3, <3>4
  <2>5. CASE ~(d <= g)
    <3>1. g \in {g, d} /\ g \in S \cup {d} /\ \A x \in {g, d} : g <= x
      BY <2>2, <2>3, <2>5
    <3>2. \A x \in S \cup {d} : g <= x
      BY <2>2, <2>3, <2>5
    <3>3. Lowest({g, d}) = g
      BY <2>3, <3>1, LowestIs
    <3>4. Lowest(S \cup {d}) = g
      BY <2>3, <3>1, <3>2, LowestIs
    <3>5. QED
      BY <1>2, <2>1, <3>3, <3>4
  <2>6. QED
    BY <2>4, <2>5
<1>3. QED
  BY <1>1, <1>2

\* As many are what they are mapped to one by one.
LEMMA AsManyMoved ==
    ASSUME NEW S, IsFiniteSet(S), NEW b, \A x, y \in S : b[x] = b[y] => x = y
    PROVE  Cardinality({b[x] : x \in S}) = Cardinality(S) /\ IsFiniteSet({b[x] : x \in S})
<1>1. PICK T : T = {b[x] : x \in S}
  OBVIOUS
<1>2. IsFiniteSet(T)
  BY <1>1, FiniteValues
<1>3. PICK f : f = [y \in T |-> 1]
  OBVIOUS
<1>4. PICK h : h = [x \in S |-> 1]
  OBVIOUS
<1>5. \A x \in S : h[x] \in Int /\ f[b[x]] = h[x]
  BY <1>1, <1>3, <1>4
<1>6. SumFunctionOnSet(f, T) = SumFunctionOnSet(h, S)
  BY <1>1, <1>5, SumMoved
<1>7. SumFunctionOnSet(f, T) = Cardinality(T)
  BY <1>2, <1>3, SumOfOnes
<1>8. SumFunctionOnSet(h, S) = Cardinality(S)
  BY <1>4, SumOfOnes
<1>9. QED
  BY <1>1, <1>2, <1>6, <1>7, <1>8

\* X of two numbers' sum is at least X of the one and of the other.
Superadditive(X, M) ==
    /\ X \in [0..M -> Int] /\ X[0] = 0
    /\ \A a, b \in 0..M : a + b \in 0..M => X[a] + X[b] <= X[a + b]

\* So is X of the sum of any numbers at least the sum of what X is of each.
LEMMA SumOfSums ==
    ASSUME NEW M \in Nat, NEW X, Superadditive(X, M), NEW S, IsFiniteSet(S), NEW f, NEW h,
           \A x \in S : f[x] \in Nat /\ h[x] = X[f[x]], SumFunctionOnSet(f, S) <= M
    PROVE  /\ SumFunctionOnSet(h, S) \in Int /\ SumFunctionOnSet(f, S) \in 0..M
           /\ SumFunctionOnSet(h, S) <= X[SumFunctionOnSet(f, S)]
<1> DEFINE Right(A) == /\ SumFunctionOnSet(h, A) \in Int
                       /\ SumFunctionOnSet(h, A) <= X[SumFunctionOnSet(f, A)]
           Bad == {A \in SUBSET S : SumFunctionOnSet(f, A) <= M /\ ~Right(A)}
<1>0. (\A c \in 0..M : X[c] \in Int) /\ X[0] = 0
  BY DEF Superadditive
<1>1. Bad = {}
  <2> SUFFICES ASSUME Bad # {} PROVE FALSE
    OBVIOUS
  <2>1. PICK B \in Bad : \A C \in Bad : C \subseteq B => C = B
    <3>1. Bad \in SUBSET (SUBSET S)
      OBVIOUS
    <3> HIDE DEF Bad
    <3>2. QED
      BY <3>1, MinimalSubset
  <2>2. B \in SUBSET S /\ SumFunctionOnSet(f, B) <= M /\ ~Right(B)
    OBVIOUS
  <2>3. PICK x \in B : TRUE
    <3>1. SumFunctionOnSet(f, {}) = 0 /\ SumFunctionOnSet(h, {}) = 0
      BY SumOfNone
    <3>2. Right({})
      BY <1>0, <3>1
    <3>3. B # {}
      BY <2>2, <3>2
    <3>4. QED
      BY <3>3
  <2>4. IsFiniteSet(B) /\ IsFiniteSet(B \ {x}) /\ \A y \in B : f[y] \in Nat
    BY <2>2, FS_Subset
  <2>5. PICK n : n = SumFunctionOnSet(f, B)
    OBVIOUS
  <2>6. PICK p : p = SumFunctionOnSet(f, B \ {x})
    OBVIOUS
  <2>7. n \in Nat /\ p \in Nat /\ n = f[x] + p /\ f[x] \in Nat /\ n <= M
    <3>1. n = f[x] + p
      BY <2>4, <2>5, <2>6, SumTake
    <3>2. n \in Nat
      BY <2>4, <2>5, SumNat
    <3>3. p \in Nat
      BY <2>4, <2>6, SumNat
    <3>4. QED
      BY <2>2, <2>4, <2>5, <3>1, <3>2, <3>3
  <2>8. p \in 0..M /\ f[x] \in 0..M /\ n \in 0..M
    BY <2>7
  <2>9. Right(B \ {x})
    <3>1. B \ {x} \notin Bad /\ B \ {x} \in SUBSET S
      BY <2>1, <2>3
    <3>2. SumFunctionOnSet(f, B \ {x}) <= M
      BY <2>6, <2>8
    <3> HIDE DEF Right
    <3>3. QED
      BY <3>1, <3>2
  <2>10. \A y \in B : h[y] \in Int
    <3> SUFFICES ASSUME NEW y \in B PROVE h[y] \in Int
      OBVIOUS
    <3>1. PICK q : q = SumFunctionOnSet(f, B \ {y})
      OBVIOUS
    <3>2. n = f[y] + q
      BY <2>4, <2>5, <3>1, SumTake
    <3>3. IsFiniteSet(B \ {y}) /\ \A z \in B \ {y} : f[z] \in Nat
      BY <2>4, FS_Subset
    <3>4. q \in Nat
      BY <3>1, <3>3, SumNat
    <3>5. f[y] \in 0..M
      BY <2>4, <2>7, <3>2, <3>4
    <3>6. h[y] = X[f[y]]
      BY <2>2
    <3>7. QED
      BY <1>0, <3>5, <3>6
  <2>11. SumFunctionOnSet(h, B) = h[x] + SumFunctionOnSet(h, B \ {x})
    BY <2>4, <2>10, SumTake
  <2>12. h[x] = X[f[x]] /\ h[x] \in Int
    BY <2>2, <2>10
  <2>13. PICK r : r = SumFunctionOnSet(h, B \ {x})
    OBVIOUS
  <2>14. r \in Int /\ r <= X[p] /\ X[p] \in Int /\ X[n] \in Int
    BY <1>0, <2>6, <2>8, <2>9, <2>13
  <2>15. X[f[x]] + X[p] <= X[n]
    <3>1. PICK c : c = f[x]
      OBVIOUS
    <3>2. c \in 0..M /\ p \in 0..M /\ c + p = n /\ n \in 0..M
      BY <2>7, <2>8, <3>1
    <3>3. X[c] + X[p] <= X[c + p]
      BY <3>2 DEF Superadditive
    <3>4. QED
      BY <3>1, <3>2, <3>3
  <2>16. PICK u : u = SumFunctionOnSet(h, B)
    OBVIOUS
  <2>17. u \in Int /\ u <= X[n]
    BY <2>11, <2>12, <2>13, <2>14, <2>15, <2>16
  <2>18. Right(B)
    BY <2>5, <2>16, <2>17
  <2> HIDE DEF Right, Bad
  <2>19. QED
    BY <2>2, <2>18
<1>2. Right(S)
  <2>1. S \notin Bad /\ S \in SUBSET S
    BY <1>1
  <2> HIDE DEF Right
  <2>2. QED
    BY <2>1
<1>3. SumFunctionOnSet(f, S) \in Nat
  BY SumNat
<1>4. QED
  BY <1>2, <1>3
==============================================================================
