----------------------------- MODULE Clustering -----------------------------
(***************************************************************************)
(* clustering::storage of several nodes, simple or compressive, its MIX and*)
(* the clustering told of every revision.  Points are only counted: a list *)
(* of them is [size, decayed], how many it has and how many of the points  *)
(* they stand for had their weight decayed how often.  A compressor makes  *)
(* at most dstsize points, and here gives them the weight of the others;   *)
(* that they may weigh more is seen in BatchClustering, CoresetsWeigh.     *)
(***************************************************************************)
EXTENDS Integers, FiniteSets, Sequences, SequencesExt, FiniteSetsExt

CONSTANTS Node,
          bucket_size, bucket_length, compressed_bucket_size,
          ForgetLevel,  \* first bucket number of which reach_forgetting_threshold
          MaxAdds, MaxRounds, MaxResets,
          MaxLevel      \* no point of MaxAdds is carried up further

ParamAssumption ==
    bucket_size \in Nat \ {0} /\ bucket_length \in Nat \ {0, 1} /\ compressed_bucket_size \in 1..bucket_size

VARIABLES kind,      \* "simple" or "compressive", fixed
          mine,      \* node -> sequence of buckets; a simple storage has one
          status,    \* node -> how many buckets were compressed
          common,    \* node -> sequence of [name, points]: those of the others
          revision,
          cnt,       \* node -> the static counter of simple_storage::add
          unseen,    \* history: points added since the clusters were computed
          added,     \* history: points added since the storage was cleared
          mixed, todo, phase,
          adds, rounds, resets

nodeVars == <<kind, mine, status, common, revision, cnt, unseen, added>>
mixVars == <<mixed, todo, phase, rounds>>
vars == <<nodeVars, mixVars, adds, resets>>

NoPoints == [size |-> 0, decayed |-> [a \in 0..MaxLevel |-> 0]]
NewPoint == [size |-> 1, decayed |-> [a \in 0..MaxLevel |-> IF a = 0 THEN 1 ELSE 0]]

Init ==
    /\ kind \in {"simple", "compressive"}
    /\ mine = [n \in Node |-> <<NoPoints>>] /\ common = [n \in Node |-> <<>>]
    /\ status = [n \in Node |-> 0] /\ revision = status /\ cnt = status
    /\ unseen = status /\ added = status
    /\ mixed = <<>> /\ todo = {} /\ phase = "idle"
    /\ adds = 0 /\ rounds = 0 /\ resets = 0

---------------------------------------------------------------------------
concat(src, dst) ==
    [size |-> dst.size + src.size, decayed |-> [a \in 0..MaxLevel |-> dst.decayed[a] + src.decayed[a]]]
compress(src, dstsize) == IF dstsize >= src.size THEN src ELSE [src EXCEPT !.size = dstsize]
forget_weight(p) ==
    [p EXCEPT !.decayed = [a \in 0..MaxLevel |->
        CASE a = 0 -> 0 [] a = MaxLevel -> @[a] + @[a - 1] [] OTHER -> @[a - 1]]]

digit(num, r) == (num \div bucket_length ^ r) % bucket_length
is_next_bucket_full(st, r) == digit(st - 1, r) = bucket_length - 1

\* Mutant of Carried: only a bucket that is moved as it is decays.
CarriedLazy(m0, st, r) ==
    LET m == IF r >= Len(m0) - 1 THEN Append(m0, NoPoints) ELSE m0
        this == IF is_next_bucket_full(st, r) THEN m[r + 1] ELSE forget_weight(m[r + 1])
        next == m[r + 2]
        dstsize == IF r = 0 THEN compressed_bucket_size ELSE 2 * r * r * compressed_bucket_size
    IN  [m EXCEPT ![r + 1] = NoPoints,
                  ![r + 2] = IF is_next_bucket_full(st, r) THEN compress(concat(this, next), dstsize)
                             ELSE concat(this, next)]

\* Bucket r, counted from 0, moves into the next one: with its points, instead
\* of them once they are forgotten, or, when that is full, compressed with them.
Carried(m0, st, r) ==
    LET m == IF r >= Len(m0) - 1 THEN Append(m0, NoPoints) ELSE m0
        this == forget_weight(m[r + 1])
        next == m[r + 2]
        alone == \A i \in DOMAIN m : i = r + 1 \/ m[i].size = 0
        dstsize == IF r = 0 THEN compressed_bucket_size ELSE 2 * r * r * compressed_bucket_size
        merged == CASE is_next_bucket_full(st, r) -> compress(concat(this, next), dstsize)
                    [] ~is_next_bucket_full(st, r) /\ (r + 1 < ForgetLevel \/ alone) -> concat(this, next)
                    [] OTHER -> this
    IN  [m EXCEPT ![r + 1] = NoPoints, ![r + 2] = merged]

\* carry_up calls itself for the next bucket as long as that one was full.
LastCarried(st) ==
    CHOOSE r \in 0..st : /\ ~is_next_bucket_full(st, r)
                         /\ \A i \in 0..(r - 1) : is_next_bucket_full(st, i)
carry_up(m, st) ==
    FoldLeft(LAMBDA b, r : Carried(b, st, r), m, [i \in 1..LastCarried(st) + 1 |-> i - 1])

---------------------------------------------------------------------------
Add(n) ==
    /\ adds < MaxAdds /\ adds' = adds + 1
    /\ added' = [added EXCEPT ![n] = @ + 1]
    /\ UNCHANGED <<kind, common, mixVars, resets>>

\* The clusters are computed before the point that fills the bucket is there.
simple_add(n) ==
    /\ kind = "simple" /\ Add(n)
    /\ cnt' = [cnt EXCEPT ![n] = @ + 1]
    /\ LET full == cnt'[n] % bucket_size = 0
       IN  /\ revision' = [revision EXCEPT ![n] = IF full THEN @ + 1 ELSE @]
           /\ unseen' = [unseen EXCEPT ![n] = IF full THEN 1 ELSE @ + 1]
    /\ mine' = [mine EXCEPT ![n][1] = concat(NewPoint, @)]
    /\ UNCHANGED status

compressive_add(n) ==
    LET c0 == concat(NewPoint, mine[n][1])
        full == c0.size >= bucket_size
    IN  /\ kind = "compressive" /\ Add(n)
        /\ status' = [status EXCEPT ![n] = IF full THEN @ + 1 ELSE @]
        /\ mine' = [mine EXCEPT ![n] =
                IF full THEN carry_up([@ EXCEPT ![1] = compress(c0, compressed_bucket_size)], status'[n])
                ELSE [@ EXCEPT ![1] = c0]]
        /\ revision' = [revision EXCEPT ![n] = IF full THEN @ + 1 ELSE @]
        /\ unseen' = [unseen EXCEPT ![n] = IF full THEN 0 ELSE @ + 1]
        /\ UNCHANGED cnt

clear(n) ==
    /\ resets < MaxResets /\ resets' = resets + 1
    /\ mine' = [mine EXCEPT ![n] = <<NoPoints>>] /\ common' = [common EXCEPT ![n] = <<>>]
    /\ status' = [status EXCEPT ![n] = 0] /\ revision' = [revision EXCEPT ![n] = 0]
    /\ unseen' = [unseen EXCEPT ![n] = 0] /\ added' = [added EXCEPT ![n] = 0]
    /\ UNCHANGED <<kind, cnt, mixVars, adds>>

\* The process starts again and loads what pack() wrote.
Reload(n) ==
    /\ resets < MaxResets /\ resets' = resets + 1
    /\ cnt' = [cnt EXCEPT ![n] = 0] /\ unseen' = [unseen EXCEPT ![n] = 0]
    /\ UNCHANGED <<kind, mine, status, common, revision, added, mixVars, adds>>

---------------------------------------------------------------------------
get_mine(n) == FoldLeft(LAMBDA a, b : concat(b, a), NoPoints, mine[n])

StartRound ==
    /\ phase = "idle" /\ rounds < MaxRounds
    /\ phase' = "gather" /\ todo' = Node /\ mixed' = <<>> /\ rounds' = rounds + 1
    /\ UNCHANGED <<nodeVars, adds, resets>>

\* storage::mix of the difference of one node, whose names stay in order
mix(name, points, ret) ==
    LET before == SelectSeq(ret, LAMBDA d : d.name < name)
        same == SelectSeq(ret, LAMBDA d : d.name = name)
        after == SelectSeq(ret, LAMBDA d : d.name > name)
        all == IF same = <<>> THEN points ELSE concat(points, same[1].points)
    IN  before \o <<[name |-> name, points |-> all]>> \o after

Gather(n) ==
    /\ phase = "gather" /\ n \in todo
    /\ mixed' = mix(n, get_mine(n), mixed)
    /\ todo' = todo \ {n}
    /\ UNCHANGED <<nodeVars, phase, rounds, adds, resets>>

StartPut ==
    /\ phase = "gather" /\ todo = {}
    /\ phase' = "put" /\ todo' = Node
    /\ UNCHANGED <<nodeVars, mixed, rounds, adds, resets>>

\* Mutant of Others: a node takes its own points too.
OthersAndOwn(n, diff) == diff

Others(n, diff) == SelectSeq(diff, LAMBDA d : d.name # n)

put_diff(n) ==
    /\ phase = "put" /\ n \in todo
    /\ common' = [common EXCEPT ![n] = Others(n, mixed)]
    /\ revision' = [revision EXCEPT ![n] = @ + 1]
    /\ unseen' = [unseen EXCEPT ![n] = 0]
    /\ todo' = todo \ {n}
    /\ UNCHANGED <<kind, mine, status, cnt, added, mixed, phase, rounds, adds, resets>>

EndRound ==
    /\ phase = "put" /\ todo = {}
    /\ phase' = "idle"
    /\ UNCHANGED <<nodeVars, mixed, todo, rounds, adds, resets>>

Next ==
    \/ \E n \in Node : simple_add(n)
    \/ \E n \in Node : compressive_add(n)
    \/ \E n \in Node : clear(n)
    \/ \E n \in Node : Reload(n)
    \/ StartRound
    \/ \E n \in Node : Gather(n)
    \/ StartPut
    \/ \E n \in Node : put_diff(n)
    \/ EndRound

Spec == Init /\ [][Next]_vars

---------------------------------------------------------------------------
Total(p) == FoldFunction(+, 0, p.decayed)
BucketBound(i) ==
    IF i = 1 THEN bucket_size - 1
    ELSE (bucket_length - 1) * compressed_bucket_size * (IF i = 2 THEN 1 ELSE Max({1, 2 * (i - 3) * (i - 3)}))

\* What carrying up keeps: the weight of a point in bucket r was decayed r
\* times, on whatever way it came there; no bucket outgrows its place; and no
\* point is lost unless its bucket may be forgotten.
BucketsAreSound ==
    kind = "compressive" => \A n \in Node :
        /\ \A i \in DOMAIN mine[n] :
            /\ mine[n][i].size <= BucketBound(i)
            /\ \A a \in 0..MaxLevel : a # i - 1 => mine[n][i].decayed[a] = 0
            /\ mine[n][i].size = 0 <=> Total(mine[n][i]) = 0
        /\ Total(get_mine(n)) <= added[n]
        /\ Len(mine[n]) <= ForgetLevel => Total(get_mine(n)) = added[n]

\* What a node clusters has the points of every other node once and its own
\* once, and misses at most one bucket of the points it was given.
ClusteredOnce ==
    \A n \in Node :
        /\ \A i \in DOMAIN common[n] : common[n][i].name # n
        /\ \A i, j \in DOMAIN common[n] : i < j => common[n][i].name < common[n][j].name
        /\ unseen[n] <= IF kind = "simple" THEN bucket_size ELSE bucket_size - 1
=============================================================================
