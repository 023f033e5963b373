------------------------------ MODULE Vectors -------------------------------
(***************************************************************************)
(* Vectors of pairs of a key and a number, and what core does with two of  *)
(* them: storage::detail::binop, common::merge_vector, the arithmetic of   *)
(* clustering/util, common::assoc_vector, and the fixed_size_heap that     *)
(* keeps the best of many.  Keys are numbers, for their order.  The second *)
(* part is the order in which the buckets near a hash are probed.          *)
(***************************************************************************)
EXTENDS Integers, FiniteSets, SequencesExt, FiniteSetsExt

CONSTANTS Key, Value, MaxCalls

VARIABLES l, r,     \* two vectors without a key twice
          op,       \* what was made of them
          result,
          assoc,    \* data_ of an assoc_vector
          expected, \* history: what was stored in it
          heap,     \* data_ of a fixed_size_heap, greatest first
          max_size,
          pushed,   \* history: what was pushed
          calls

vars == <<l, r, op, result, assoc, expected, heap, max_size, pushed, calls>>

ByKey(a, b) == a[1] < b[1]
Sorted(v) == SortSeq(v, ByKey)
Keys(v) == {v[i][1] : i \in DOMAIN v}
At(v, k) == LET i == SelectInSeq(v, LAMBDA x : x[1] = k) IN IF i = 0 THEN 0 ELSE v[i][2]
Distinct(S) == UNION {{f \in [1..n -> S] : \A i, j \in 1..n : i # j => f[i][1] # f[j][1]} : n \in 0..Cardinality(Key)}

Init ==
    /\ l \in Distinct(Key \X Value) /\ r \in Distinct(Key \X Value)
    /\ op = "none" /\ result = <<>>
    /\ assoc = <<>> /\ expected = <<>>
    /\ heap = <<>> /\ max_size \in (IF l = r THEN 0..2 ELSE {0}) /\ pushed = <<>> /\ calls = 0

---------------------------------------------------------------------------
\* Mutant of Walk: what is left of the second vector is forgotten.
WalkShort(a, x, b, y) ==
    LET rest[i \in 1..Len(a) + 1, j \in 1..Len(b) + 1] ==
            CASE i > Len(a) -> <<>>
              [] i <= Len(a) /\ (j > Len(b) \/ a[i][1] < b[j][1]) -> <<<<a[i][1], x * a[i][2]>>>> \o rest[i + 1, j]
              [] i <= Len(a) /\ j <= Len(b) /\ a[i][1] > b[j][1] -> <<<<b[j][1], y * b[j][2]>>>> \o rest[i, j + 1]
              [] OTHER -> <<<<a[i][1], x * a[i][2] + y * b[j][2]>>>> \o rest[i + 1, j + 1]
    IN  rest[1, 1]

\* x times one sorted vector and y times another, going through both at once.
Walk(a, x, b, y) ==
    LET rest[i \in 1..Len(a) + 1, j \in 1..Len(b) + 1] ==
            CASE i > Len(a) /\ j > Len(b) -> <<>>
              [] i <= Len(a) /\ (j > Len(b) \/ a[i][1] < b[j][1]) -> <<<<a[i][1], x * a[i][2]>>>> \o rest[i + 1, j]
              [] j <= Len(b) /\ (i > Len(a) \/ a[i][1] > b[j][1]) -> <<<<b[j][1], y * b[j][2]>>>> \o rest[i, j + 1]
              [] OTHER -> <<<<a[i][1], x * a[i][2] + y * b[j][2]>>>> \o rest[i + 1, j + 1]
    IN  rest[1, 1]

add(a, b) == Walk(a, 1, b, 1)
sub(a, b) == Walk(a, 1, b, -1)
scalar_mul_and_add(a, s, b) == Walk(a, s, b, 1)
scalar_dot(a, s) == [i \in DOMAIN a |-> <<a[i][1], a[i][2] * s>>]
sum(a) == FoldLeft(LAMBDA t, x : t + x[2], 0, a)

\* binop, of plus and minus, sorts both and puts the keys of the second alone at
\* the end.
binop(a, b, y) ==
    LET mine == Sorted(a)
        new == SelectSeq(Sorted(b), LAMBDA x : x[1] \notin Keys(a))
    IN  [i \in DOMAIN mine |-> <<mine[i][1], mine[i][2] + y * At(b, mine[i][1])>>]
          \o scalar_dot(new, y)

\* merge_vector: the numbers of the second, in the places of the first.
merge_vector(a, b) ==
    [i \in DOMAIN a |-> IF a[i][1] \in Keys(b) THEN <<a[i][1], At(b, a[i][1])>> ELSE a[i]]
      \o SelectSeq(b, LAMBDA x : x[1] \notin Keys(a))

Made ==
    {<<"add", add(Sorted(l), Sorted(r))>>, <<"sub", sub(Sorted(l), Sorted(r))>>,
     <<"scalar_mul_and_add", scalar_mul_and_add(Sorted(l), 2, Sorted(r))>>,
     <<"dot", add(scalar_dot(Sorted(l), 2), Sorted(r))>>,
     <<"+=", binop(l, r, 1)>>, <<"-=", binop(l, r, -1)>>, <<"merge_vector", merge_vector(l, r)>>}

Combine ==
    /\ op = "none"
    /\ \E m \in Made : op' = m[1] /\ result' = m[2]
    /\ UNCHANGED <<l, r, assoc, expected, heap, max_size, pushed, calls>>

---------------------------------------------------------------------------
Fresh == l = <<>> /\ r = <<>> /\ op = "none" /\ calls < MaxCalls
Called == calls' = calls + 1 /\ UNCHANGED <<l, r, op, result, max_size>>

\* Mutant of lower_bound: the place after the first key not less.
upper_bound(k) == Cardinality({i \in DOMAIN assoc : assoc[i][1] <= k}) + 1

\* The first place whose key is not less, by halving.
lower_bound(k) ==
    LET f[lo \in 1..Len(assoc) + 1, n \in 0..Len(assoc)] ==
            IF n = 0 THEN lo
            ELSE LET half == n \div 2
                 IN  IF assoc[lo + half][1] < k THEN f[lo + half + 1, n - half - 1] ELSE f[lo, half]
    IN  f[1, Len(assoc)]

Found(k) == lower_bound(k) <= Len(assoc) /\ assoc[lower_bound(k)][1] = k

\* operator[], to assign a number or to look and so to make a zero.
Index(k, v) ==
    /\ Fresh /\ Called
    /\ assoc' = IF Found(k) THEN [assoc EXCEPT ![lower_bound(k)] = IF v = {} THEN @ ELSE <<k, CHOOSE x \in v : TRUE>>]
                ELSE InsertAt(assoc, lower_bound(k), <<k, IF v = {} THEN 0 ELSE CHOOSE x \in v : TRUE>>)
    /\ expected' = IF v = {} THEN (k :> IF k \in DOMAIN expected THEN expected[k] ELSE 0) @@ expected
                   ELSE (k :> CHOOSE x \in v : TRUE) @@ expected
    /\ UNCHANGED <<heap, pushed>>

Erase(k) ==
    /\ Fresh /\ Called
    /\ assoc' = IF Found(k) THEN RemoveAt(assoc, lower_bound(k)) ELSE assoc
    /\ expected' = [x \in DOMAIN expected \ {k} |-> expected[x]]
    /\ UNCHANGED <<heap, pushed>>

\* The greatest of a heap is at its front.
Greatest(s) == SortSeq(s, LAMBDA a, b : a > b)
Push(v) ==
    /\ Fresh /\ Called
    /\ heap' = CASE Len(heap) < max_size -> Greatest(Append(heap, v))
                 [] Len(heap) >= max_size /\ max_size > 0 /\ v < heap[1] -> Greatest(Append(Tail(heap), v))
                 [] OTHER -> heap
    /\ pushed' = Append(pushed, v)
    /\ UNCHANGED <<assoc, expected>>

get_sorted == Reverse(heap)

Next ==
    \/ Combine
    \/ \E k \in Key : Erase(k) \/ \E v \in {{}} \cup {{x} : x \in Value} : Index(k, v)
    \/ \E v \in Value : Push(v)
Spec == Init /\ [][Next]_vars

---------------------------------------------------------------------------
\* What is made of two vectors has every key of either once, with the number
\* that is due; sorted vectors give sorted ones; an assoc_vector has what was
\* stored last, in order; and of all that was pushed the least are kept.
VectorsAreRight ==
    /\ \A k \in Key :
          LET x == At(l, k)
              y == At(r, k)
          IN  op # "none" =>
                 At(result, k) =
                    CASE op \in {"add", "+="} -> x + y [] op \in {"sub", "-="} -> x - y
                      [] op \in {"scalar_mul_and_add", "dot"} -> 2 * x + y
                      [] op = "merge_vector" -> IF k \in Keys(r) THEN y ELSE x
    /\ Cardinality(Keys(result)) = Len(result)
    /\ op # "none" => Keys(result) = Keys(l) \cup Keys(r)
    /\ op \in {"add", "sub", "scalar_mul_and_add", "dot"} => Sorted(result) = result
    /\ op \in {"sub", "-="} => sum(result) = sum(l) - sum(r)
    /\ Sorted(assoc) = assoc /\ Keys(assoc) = DOMAIN expected
    /\ \A k \in DOMAIN expected : At(assoc, k) = expected[k]
    /\ get_sorted = SubSeq(SortSeq(pushed, LAMBDA a, b : a < b), 1,
                           IF Len(pushed) < max_size THEN Len(pushed) ELSE max_size)

---------------------------------------------------------------------------
(***************************************************************************)
(* storage::lsh_probe_generator, with which lsh_index_storage::similar_row *)
(* visits the buckets near a hash: for every hash table the bucket the hash*)
(* falls in, then neighbours of these, the nearest first.  Hashes are in   *)
(* units of 1/Scale; a perturbation is what one number of a hash moves by, *)
(* <<score, place, step>>, in the order of the scores; a probe moves some  *)
(* of them, as an increasing sequence of their numbers.                    *)
(***************************************************************************)

CONSTANTS Hash,   \* the hashes asked for
          Scale,
          Tables  \* num_hash_tables

VARIABLES hash,   \* hash_, by table
          perturbation_sets,
          probe_heap,   \* of [score, table, diff]
          bases,  \* how many tables' own buckets similar_row has visited
          probes  \* the probes it got since, in order

probeVars == <<hash, perturbation_sets, probe_heap, bases, probes>>

partition(h) ==
    LET size == Len(h) \div Tables IN [i \in 1..Tables |-> SubSeq(h, (i - 1) * size + 1, i * size)]

threshold(h) == [j \in DOMAIN h |-> h[j] \div Scale]
base(i) == threshold(hash[i])

Before(a, b) ==
    \/ a[1] < b[1]
    \/ a[1] = b[1] /\ (a[2] * a[3] < b[2] * b[3])

\* Up, by what is left to the next bucket, and down, by what it is past its own.
Perturbations(h) ==
    LET dist(j) == h[j] % Scale
        cands == {<<(Scale - dist(j)) * (Scale - dist(j)), j, 1>> : j \in DOMAIN h}
                   \cup {<<dist(j) * dist(j), j, -1>> : j \in DOMAIN h}
    IN  SetToSortSeq(cands, Before)

Entry(score, i, diff) == [score |-> score, table |-> i, diff |-> diff]

ProbeInit ==
    /\ \E h \in Hash : hash = partition(h)
    /\ perturbation_sets = <<>> /\ probe_heap = {} /\ bases = 0 /\ probes = <<>>

VisitBase ==
    /\ bases < Tables
    /\ bases' = bases + 1
    /\ UNCHANGED <<hash, perturbation_sets, probe_heap, probes>>

init ==
    /\ bases = Tables /\ perturbation_sets = <<>>
    /\ perturbation_sets' = [i \in 1..Tables |-> Perturbations(hash[i])]
    /\ probe_heap' = {Entry(perturbation_sets'[i][1][1], i, <<1>>) : i \in 1..Tables}
    /\ UNCHANGED <<hash, bases, probes>>

\* Mutant of Shifted: the score of the one before is not taken off.
ShiftedHeavier(e) ==
    LET cands == perturbation_sets[e.table]
        k == Last(e.diff)
    IN  IF k = Len(cands) THEN {}
        ELSE {Entry(e.score + cands[k + 1][1], e.table, ReplaceAt(e.diff, Len(e.diff), k + 1))}

\* The last of the moves is exchanged for the next, or the next comes along too.
Shifted(e) ==
    LET cands == perturbation_sets[e.table]
        k == Last(e.diff)
    IN  IF k = Len(cands) THEN {}
        ELSE {Entry(e.score + cands[k + 1][1] - cands[k][1], e.table, ReplaceAt(e.diff, Len(e.diff), k + 1))}

Expanded(e) ==
    LET cands == perturbation_sets[e.table]
        k == Last(e.diff)
    IN  IF k = Len(cands) THEN {}
        ELSE {Entry(e.score + cands[k + 1][1], e.table, Append(e.diff, k + 1))}

\* perturbe: where the moves of a probe lead.
perturbe(i, diff) ==
    [j \in DOMAIN hash[i] |->
        base(i)[j] + FoldLeft(LAMBDA s, d : LET c == perturbation_sets[i][d] IN s + (IF c[2] = j THEN c[3] ELSE 0),
                              0, diff)]

\* The order of the probe_heap: by score, then by table, then by the moves in turn.
Smaller(e, o) ==
    \/ e.score < o.score
    \/ e.score = o.score /\ e.table < o.table
    \/ /\ e.score = o.score /\ e.table = o.table
       /\ \E n \in 1..Len(o.diff) :
             /\ SubSeq(e.diff, 1, n - 1) = SubSeq(o.diff, 1, n - 1)
             /\ n > Len(e.diff) \/ e.diff[n] < o.diff[n]

get_next_table_and_vector ==
    /\ \E e \in probe_heap :
          /\ \A o \in probe_heap \ {e} : Smaller(e, o)
          /\ probe_heap' = (probe_heap \ {e}) \cup Shifted(e) \cup Expanded(e)
          /\ probes' = Append(probes, <<e.score, e.table, e.diff, perturbe(e.table, e.diff)>>)
    /\ UNCHANGED <<hash, perturbation_sets, bases>>

ProbeNext == VisitBase \/ init \/ get_next_table_and_vector
ProbeSpec == ProbeInit /\ [][ProbeNext]_vars

---------------------------------------------------------------------------
\* How far a bucket is from the hash in the places where it differs from its own.
Distance(i, v) ==
    LET dist(j) == hash[i][j] % Scale
        off(j) == IF v[j] > base(i)[j] THEN Scale - dist(j) ELSE IF v[j] < base(i)[j] THEN dist(j) ELSE 0
    IN  FoldLeft(LAMBDA s, x : s + x * x, 0, [j \in DOMAIN v |-> off(j)])

Moves(i, diff) == {<<perturbation_sets[i][d][2], perturbation_sets[i][d][3]>> : d \in ToSet(diff)}
Opposed(i, diff) == \E j \in DOMAIN hash[i] : {<<j, 1>>, <<j, -1>>} \subseteq Moves(i, diff)

\* Buckets are visited in the order of their distance, none twice but by probes
\* that move a number up and down again, which lead where others do; and when
\* no probe is left every bucket of every table one step away in any numbers was
\* visited.
ProbesAreNearestFirst ==
    /\ \A n \in 1..Len(probes) - 1 : probes[n][1] <= probes[n + 1][1]
    /\ \A n \in DOMAIN probes :
          LET p == probes[n]
          IN  ~Opposed(p[2], p[3]) =>
                 /\ p[1] = Distance(p[2], p[4])
                 /\ \A m \in 1..n - 1 : ~Opposed(probes[m][2], probes[m][3]) => <<probes[m][2], probes[m][4]>> # <<p[2], p[4]>>
    /\ perturbation_sets # <<>> /\ probe_heap = {} =>
          \A i \in 1..Tables : \A v \in [DOMAIN hash[i] -> {-1, 0, 1}] :
             (\E j \in DOMAIN v : v[j] # 0)
                => \E n \in DOMAIN probes : probes[n][2] = i /\ probes[n][4] = [j \in DOMAIN v |-> base(i)[j] + v[j]]
=============================================================================
