-------------------------- MODULE BatchClustering ---------------------------
(***************************************************************************)
(* batch_update of kmeans_clustering_method and dbscan_clustering_method:  *)
(* the choice of the first centers, Lloyd's iteration until nothing moves, *)
(* and the expansion of dense clusters. Points are integers with a weight, *)
(* the distance is exact and a center is the rational <<num, den>>. The    *)
(* second part is the compressor, which makes the coresets clustered.      *)
(***************************************************************************)
EXTENDS Integers, FiniteSets, SequencesExt, FiniteSetsExt

CONSTANTS Batch,             \* the points handed over: sequences of [x, weight]
          k, eps, min_core_point

VARIABLES method, points,
          kcenters,          \* sequence of rationals
          point_states, clusters,
          next_point,                 \* the next point of dbscan::batch
          phase              \* "choose", "iterate", "expand" or "done"

vars == <<method, points, kcenters, point_states, clusters, next_point, phase>>

Abs(x) == IF x < 0 THEN -x ELSE x

Init ==
    /\ points \in Batch
    /\ kcenters = <<>> /\ clusters = <<>> /\ next_point = 1
    /\ point_states = [p \in DOMAIN points |-> "UNCLASSIFIED"]
    /\ \/ method = "kmeans" /\ phase = IF Len(points) < k THEN "done" ELSE "choose"
       \/ method = "dbscan" /\ phase = "expand"

---------------------------------------------------------------------------
\* discrete_distribution: running sums of the weights, and the binary search for
\* the place a number d of 0..sum falls on.
whist(w) == [j \in DOMAIN w |-> MapThenSumSet(LAMBDA o : w[o], 1..j)]

convert(h, d) ==
    LET search[low \in 1..Len(h), high \in 1..Len(h)] ==
            LET mid == (low + high) \div 2
            IN  IF low >= high THEN high
                ELSE IF h[mid] < d THEN IF low = mid THEN high ELSE search[mid, high]
                ELSE IF high = mid THEN high ELSE search[low, mid]
    IN  search[1, Len(h)]

\* |x - c| times the denominators of all centers of c's list.
Scale(cs) == LET f[j \in 0..Len(cs)] == IF j = 0 THEN 1 ELSE f[j - 1] * cs[j][2] IN f[Len(cs)]
Far(x, cs, j) == Abs(x * cs[j][2] - cs[j][1]) * (Scale(cs) \div cs[j][2])

\* The first of the nearest centers.
min_dist(x, cs) ==
    CHOOSE j \in DOMAIN cs : \A o \in DOMAIN cs : \/ Far(x, cs, j) < Far(x, cs, o)
                                                  \/ (Far(x, cs, j) = Far(x, cs, o) /\ j <= o)

\* initialize_centers: the first point, then points drawn by their distance to
\* the centers so far.
ChooseFirst ==
    /\ phase = "choose" /\ kcenters = <<>>
    /\ kcenters' = <<<<points[1].x, 1>>>>
    /\ phase' = IF k = 1 THEN "iterate" ELSE "choose"
    /\ UNCHANGED <<method, points, point_states, clusters, next_point>>

DrawWeights ==
    [p \in DOMAIN points |->
        points[p].weight * Min({Far(points[p].x, kcenters, j) : j \in DOMAIN kcenters})]

ChooseNext ==
    /\ phase = "choose" /\ kcenters # <<>>
    /\ LET w == DrawWeights
           h == whist(w)
       IN  \E d \in 0..h[Len(h)] : kcenters' = Append(kcenters, <<points[convert(h, d)].x, 1>>)
    /\ phase' = IF Len(kcenters') = k THEN "iterate" ELSE "choose"
    /\ UNCHANGED <<method, points, point_states, clusters, next_point>>

Members(cs, j) == {p \in DOMAIN points : min_dist(points[p].x, cs) = j}

\* Mutant of Mean: points count once, whatever their weight.
MeanUnweighted(cs, j) ==
    LET mine == Members(cs, j)
    IN  IF mine = {} THEN cs[j]
        ELSE <<MapThenSumSet(LAMBDA p : points[p].x * points[p].weight, mine), Cardinality(mine)>>

\* Where center j goes: to the weighted mean of the points nearest to it, or,
\* without any, nowhere.
Mean(cs, j) ==
    LET mine == Members(cs, j)
    IN  IF mine = {} THEN cs[j]
        ELSE <<MapThenSumSet(LAMBDA p : points[p].x * points[p].weight, mine),
               MapThenSumSet(LAMBDA p : points[p].weight, mine)>>

Same(a, b) == a[1] * b[2] = b[1] * a[2]

\* Mutant of Iterate: the new centers are compared and then forgotten.
IterateForgets ==
    /\ phase = "iterate"
    /\ phase' = IF \A j \in 1..k : Same(Mean(kcenters, j), kcenters[j]) THEN "done" ELSE "iterate"
    /\ UNCHANGED <<method, points, kcenters, point_states, clusters, next_point>>

\* One round of do_batch_update.
Iterate ==
    /\ phase = "iterate"
    /\ kcenters' = [j \in 1..k |-> Mean(kcenters, j)]
    /\ phase' = IF \A j \in 1..k : Same(kcenters'[j], kcenters[j]) THEN "done" ELSE "iterate"
    /\ UNCHANGED <<method, points, point_states, clusters, next_point>>

---------------------------------------------------------------------------
region_query(p) == {q \in DOMAIN points : Abs(points[q].x - points[p].x) < eps}
IsCore(p) == Cardinality(region_query(p)) >= min_core_point

\* The points of one generation are visited one after the other; c is the state
\* of the expansion: who is classified, the cluster, the next generation.
\* Mutant of Visit: points that were noise are left where they are.
VisitKeepsNoise(c, p) ==
    IF c.states[p] = "CLASSIFIED" THEN c
    ELSE LET one == [c EXCEPT !.states[p] = "CLASSIFIED", !.cluster = @ \cup {p}]
         IN  IF ~IsCore(p) THEN one
             ELSE [one EXCEPT !.added = @ \cup {q \in region_query(p) : one.states[q] = "UNCLASSIFIED"}]

Visit(c, p) ==
    IF c.states[p] = "CLASSIFIED" THEN c
    ELSE LET one == [c EXCEPT !.states[p] = "CLASSIFIED", !.cluster = @ \cup {p}]
             noise == {q \in region_query(p) : one.states[q] = "NOISE"}
         IN  IF ~IsCore(p) THEN one
             ELSE [states |-> [q \in DOMAIN points |-> IF q \in noise THEN "CLASSIFIED" ELSE one.states[q]],
                   cluster |-> one.cluster \cup noise,
                   added |-> one.added \cup {q \in region_query(p) : one.states[q] = "UNCLASSIFIED"}]

Generation(c, core) ==
    LET visited[p \in 0..Len(points)] ==
            IF p = 0 THEN [c EXCEPT !.added = {}]
            ELSE LET before == visited[p - 1] IN IF p \in core THEN Visit(before, p) ELSE before
    IN  visited[Len(points)]

expand_cluster(idx) ==
    LET first == [states |-> [point_states EXCEPT ![idx] = "CLASSIFIED"], cluster |-> {idx}, added |-> {}]
        grow[n \in 0..Len(points)] ==
            IF n = 0 THEN Generation(first, region_query(idx))
            ELSE LET c == grow[n - 1] IN IF c.added = {} THEN c ELSE Generation(c, c.added)
    IN  IF IsCore(idx) THEN grow[Len(points)]
        ELSE [states |-> [point_states EXCEPT ![idx] = "NOISE"], cluster |-> {}, added |-> {}]

Expand ==
    /\ phase = "expand" /\ next_point <= Len(points)
    /\ LET grown == expand_cluster(next_point)
       IN  IF point_states[next_point] # "UNCLASSIFIED" THEN UNCHANGED <<point_states, clusters>>
           ELSE /\ point_states' = grown.states
                /\ clusters' = IF Cardinality(grown.cluster) >= min_core_point
                               THEN Append(clusters, grown.cluster) ELSE clusters
    /\ next_point' = next_point + 1 /\ phase' = IF next_point = Len(points) THEN "done" ELSE phase
    /\ UNCHANGED <<method, points, kcenters>>

Next == ChooseFirst \/ ChooseNext \/ Iterate \/ Expand

\* The loops of a call run on until they end.  expand_cluster is one step for
\* every point and needs no fairness to end.
Fairness == WF_vars(ChooseFirst) /\ WF_vars(ChooseNext) /\ WF_vars(Iterate)

Spec == Init /\ [][Next]_vars /\ Fairness

---------------------------------------------------------------------------
\* Lloyd's iteration comes to rest, from whatever centers the draw gave.
Ended == method = "kmeans" => phase = "done"
BatchEnds == <>Ended

\* At rest every center is the mean of the points get_clusters gives it, and no
\* draw falls on a point that has a center already while there are others.
\* dbscan: dense points near each other share a cluster, every point of a
\* cluster is near one of its dense points, and noise is near no dense point.
ClustersAreRight ==
    /\ method = "kmeans" /\ phase = "done" /\ Len(points) >= k =>
        \A j \in 1..k : LET c == kcenters[j] IN
            MapThenSumSet(LAMBDA p : points[p].weight * (points[p].x * c[2] - c[1]), Members(kcenters, j)) = 0
    /\ method = "kmeans" /\ phase = "choose" /\ kcenters # <<>> =>
        LET w == DrawWeights
            h == whist(w)
        IN  \A d \in 1..h[Len(h)] : w[convert(h, d)] > 0
    /\ method = "dbscan" /\ phase = "done" =>
        /\ \A c \in DOMAIN clusters : \A p \in clusters[c] :
            /\ \A o \in DOMAIN clusters \ {c} : p \notin clusters[o]
            /\ \E q \in clusters[c] \cap region_query(p) : IsCore(q)
            /\ IsCore(p) => \A q \in region_query(p) : IsCore(q) => q \in clusters[c]
        /\ \A p \in DOMAIN points :
            point_states[p] = "NOISE" <=> \A q \in region_query(p) : ~IsCore(q)

---------------------------------------------------------------------------
(***************************************************************************)
(* clustering::compressor::kmeans_compressor: a call of compress, which    *)
(* makes dstsize weighted points of more.  Points are on a line with exact *)
(* distances; a weight is a multiple of 1/unit, the sampled points being   *)
(* weighted by the inverse of their probability.                           *)
(***************************************************************************)

CONSTANTS Sources,  \* what is compressed: sequences of [x, weight]
          Sizes,    \* the sizes asked for
          Bases,    \* bicriteria_base_size
          Ratios    \* what is kept in a round, <<num, den>>; between 0.1 and 0.5

VARIABLES src, bsize, dstsize, r,
          resid, bic,  \* get_bicriteria: the points left, and the points drawn
          dst, unit,
          stage        \* "draw", "fill", "weigh" or "done"

compressVars == <<src, bsize, dstsize, r, resid, bic, dst, unit, stage>>

WeightOf(s) == FoldLeft(LAMBDA t, p : t + p.weight, 0, s)
SumOver(w) == FoldLeft(LAMBDA t, x : t + x, 0, w)
Dist(p, q) == IF p.x < q.x THEN q.x - p.x ELSE p.x - q.x

\* The first of the nearest.
nearest_place(p, s) ==
    CHOOSE j \in DOMAIN s : \A o \in DOMAIN s : \/ Dist(p, s[j]) < Dist(p, s[o])
                                                \/ (Dist(p, s[j]) = Dist(p, s[o]) /\ j <= o)
Nearest(p, s) == Dist(p, s[nearest_place(p, s)])

\* The places discrete_distribution may give: of some weight, or the first.
Drawable(w) == {i \in DOMAIN w : w[i] > 0} \cup {1}

CompressInit ==
    /\ src \in Sources /\ dstsize \in Sizes /\ bsize \in Bases /\ r \in Ratios
    /\ resid = src /\ bic = <<>> /\ unit = 1
    /\ \/ dstsize >= Len(src) /\ dst = src /\ stage = "done"
       \/ dstsize < Len(src) /\ dst = <<>> /\ stage = "draw"

---------------------------------------------------------------------------
InOrder(s, o) == [j \in DOMAIN o |-> s[o[j]]]

Kept(n) == IF (n * r[1]) \div r[2] = 0 THEN 1 ELSE (n * r[1]) \div r[2]

\* get_bicriteria: up to bsize points are drawn and stay; those farthest from all
\* drawn so far are left for the next round.
Draw ==
    /\ stage = "draw" /\ Len(resid) > 1 /\ Len(bic) < dstsize
    /\ \E ind \in SUBSET Drawable([i \in DOMAIN resid |-> resid[i].weight]) :
          /\ Cardinality(ind) \in 1..bsize
          /\ bic' = bic \o InOrder(resid, SetToSortSeq(ind, LAMBDA i, j : i < j))
    /\ LET far(i) == Nearest(resid[i], bic')
       IN  \E left \in kSubset(Kept(Len(resid)), DOMAIN resid) :
              /\ \A i \in left, j \in DOMAIN resid \ left : far(i) >= far(j)
              /\ resid' = InOrder(resid, SetToSortSeq(left,
                                LAMBDA i, j : far(i) > far(j) \/ (far(i) = far(j) /\ i < j)))
    /\ UNCHANGED <<src, bsize, dstsize, r, dst, unit, stage>>

EndDraw ==
    /\ stage = "draw" /\ ~(Len(resid) > 1 /\ Len(bic) < dstsize)
    /\ stage' = IF Len(bic) < dstsize THEN "fill" ELSE "weigh"
    /\ UNCHANGED <<src, bsize, dstsize, r, resid, bic, dst, unit>>

\* get_probability: rounded up, and one more, so that no point has none.
Spread == FoldLeft(LAMBDA t, p : t + Nearest(p, bic) * Nearest(p, bic) * p.weight, 0, src)
get_probability(p) ==
    LET share == WeightOf(src) * Nearest(p, bic) * Nearest(p, bic) * p.weight
    IN  1 + (IF Spread = 0 THEN 0 ELSE (share + Spread - 1) \div Spread)

\* bicriteria_to_coreset: the places that are left go to points drawn by their
\* distance to what there is.
bicriteria_to_coreset ==
    /\ stage = "fill"
    /\ LET n == dstsize - Len(bic)
           prob == [i \in DOMAIN src |-> get_probability(src[i])]
           common == n * FoldLeft(LAMBDA t, x : t * x, 1, prob)
       IN  \E ind \in [1..n -> DOMAIN src] :
              /\ unit' = common
              /\ dst' = [j \in 1..n |->
                    [src[ind[j]] EXCEPT !.weight = @ * SumOver(prob) * (common \div (n * prob[ind[j]]))]]
    /\ stage' = "weigh"
    /\ UNCHANGED <<src, bsize, dstsize, r, resid, bic>>

\* Mutant of Weighed: what was drawn before is not taken off.
WeighedTwice(centers) ==
    [j \in DOMAIN centers |->
        [centers[j] EXCEPT !.weight = unit * WeightOf(SelectSeq(src, LAMBDA p : nearest_place(p, centers) = j))]]

\* The centers weigh as much as the points nearest to them, less what was drawn
\* of those before.
Weighed(centers) ==
    [j \in DOMAIN centers |->
        LET nearest(p) == nearest_place(p, centers) = j
        IN  [centers[j] EXCEPT !.weight = unit * WeightOf(SelectSeq(src, nearest))
                                             - WeightOf(SelectSeq(dst, nearest))]]

bicriteria_as_coreset ==
    /\ stage = "weigh"
    /\ LET all == dst \o Weighed(SubSeq(bic, 1, dstsize - Len(dst)))
       IN  dst' = [j \in DOMAIN all |-> [all[j] EXCEPT !.weight = IF @ < 0 THEN 0 ELSE @]]
    /\ stage' = "done"
    /\ UNCHANGED <<src, bsize, dstsize, r, resid, bic, unit>>

CompressNext == Draw \/ EndDraw \/ bicriteria_to_coreset \/ bicriteria_as_coreset
CompressSpec == CompressInit /\ [][CompressNext]_vars

---------------------------------------------------------------------------
\* A coreset has the size asked for, of points that were there.  Around each
\* center it weighs what the points weigh, or what was drawn there besides if that
\* is more: so never less than the points, and exactly as much when every place
\* went to a center.
CoresetsWeigh ==
    stage = "done" /\ dstsize < Len(src) =>
        LET drawn == SubSeq(dst, 1, dstsize - Len(bic))
            centers == SubSeq(bic, 1, dstsize - Len(drawn))
            around(s, j) == WeightOf(SelectSeq(s, LAMBDA p : nearest_place(p, centers) = j))
        IN  /\ Len(dst) = dstsize
            /\ \A j \in DOMAIN dst : dst[j].weight >= 0 /\ \E i \in DOMAIN src : src[i].x = dst[j].x
            /\ \A j \in DOMAIN centers :
                  around(dst, j) = Max({unit * around(src, j), around(drawn, j)})
=============================================================================
