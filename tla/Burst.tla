------------------------------- MODULE Burst --------------------------------
(***************************************************************************)
(* burst/burst behind driver::burst on several servers: every server       *)
(* stores the results of every keyword, those that process a keyword also  *)
(* count documents in windows of WindowSize batches and turn them into     *)
(* results, and MIX exchanges results. A window is its first batch and the *)
(* number of documents in each batch; a position is the batch it falls in. *)
(* What burst_detect makes of the counts is the second part's subject.     *)
(***************************************************************************)
EXTENDS Integers, FiniteSets, Sequences, SequencesExt

CONSTANTS Server,
          Keyword,
          Position,     \* the batches documents fall in
          WindowSize,   \* window_batch_size
          RotateSize,   \* result_window_rotate_size
          Survival,     \* survival_mix_count_from_set_unprocessed
          MaxDocs, MaxOps, MaxRounds  \* bounds

BurstConstants ==
    /\ Position \subseteq Nat
    /\ WindowSize \in Nat \ {0} /\ RotateSize \in Nat \ {0} /\ Survival \in Nat \ {0}

VARIABLES stored,   \* storages_: server -> keyword -> [results, oldest]
          counting, \* aggregators_: server -> keyword -> [inputs, removal]
          accepted, \* server -> keyword -> documents counted, by position
          mixed,    \* keyword -> the results gathered
          todo, phase,
          docs, ops, rounds

mixVars == <<mixed, todo, phase, rounds>>
vars == <<stored, counting, accepted, mixVars, docs, ops>>

Never == 1 + CHOOSE p \in Position : \A q \in Position : q <= p  \* DBL_MAX
NewStorage == [results |-> <<>>, oldest |-> Never]
NewAggregator == [inputs |-> <<>>, removal |-> -1]
None == [p \in Position |-> 0]

Init ==
    /\ stored = [s \in Server |-> <<>>]
    /\ counting = [s \in Server |-> <<>>]
    /\ accepted = [s \in Server |-> [k \in Keyword |-> None]]
    /\ mixed = <<>> /\ todo = {} /\ phase = "idle"
    /\ docs = 0 /\ ops = 0 /\ rounds = 0

With(f, k, v) == [x \in DOMAIN f \cup {k} |-> IF x = k THEN v ELSE f[x]]
Without(f, ks) == [k \in DOMAIN f \ ks |-> f[k]]
Sum(seq) == FoldLeft(+, 0, seq)

Op == ops < MaxOps /\ ops' = ops + 1 /\ UNCHANGED <<mixVars, docs>>

add_keyword(s, k, processed) ==
    /\ Op
    /\ k \notin DOMAIN stored[s] \cup DOMAIN counting[s]
    /\ stored' = [stored EXCEPT ![s] = With(@, k, NewStorage)]
    /\ counting' = IF processed THEN [counting EXCEPT ![s] = With(@, k, NewAggregator)] ELSE counting
    /\ accepted' = [accepted EXCEPT ![s][k] = None]

remove_keyword(s, k) ==
    /\ Op
    /\ k \in DOMAIN stored[s]
    /\ stored' = [stored EXCEPT ![s] = Without(@, {k})]
    /\ counting' = [counting EXCEPT ![s] = Without(@, {k})]
    /\ UNCHANGED accepted

\* clear, and remove_all_keywords
clear(s) ==
    /\ Op
    /\ stored' = [stored EXCEPT ![s] = <<>>]
    /\ counting' = [counting EXCEPT ![s] = <<>>]
    /\ UNCHANGED accepted

\* set_processed_keywords: the others are counted for some rounds more; it
\* throws at the first keyword that is not stored, what was done stays
set_processed_keywords(s, ks) ==
    /\ Op
    /\ \E order \in SetToSeqs(ks) :
          LET known == {i \in DOMAIN order : \A j \in 1..i : order[j] \in DOMAIN stored[s]}
              done == {order[i] : i \in known}
          IN  /\ counting' = [counting EXCEPT ![s] =
                     [k \in DOMAIN @ \cup done |->
                         IF k \notin DOMAIN @ THEN NewAggregator
                         ELSE IF k \in done THEN [@[k] EXCEPT !.removal = -1]
                         ELSE IF @[k].removal < 0 THEN [@[k] EXCEPT !.removal = Survival] ELSE @[k]]]
              /\ accepted' = [accepted EXCEPT ![s] =
                     [k \in Keyword |-> IF k \in done \ DOMAIN counting[s] THEN None ELSE @[k]]]
    /\ UNCHANGED stored

\* pack and unpack: how long a keyword is counted on is not saved
restart(s) ==
    /\ Op
    /\ counting' = [counting EXCEPT ![s] = [k \in DOMAIN @ |-> [@[k] EXCEPT !.removal = -1]]]
    /\ UNCHANGED <<stored, accepted>>

---------------------------------------------------------------------------
(* Documents, windows and results.                                         *)

End(w) == w.start + Len(w.d)
Has(w, p) == w.start <= p /\ p < End(w)

\* Mutant of make_new_window_: batches are copied without their offset.
make_new_window_NoOffset(p, prev) ==
    LET start == p - WindowSize \div 2
    IN  [start |-> start, d |-> [i \in 1..WindowSize |-> IF i <= Len(prev.d) /\ start + i - 1 < End(prev)
                                                          THEN prev.d[i] ELSE 0]]

\* The position in the middle, the counts of the window before kept
make_new_window_(p, prev) ==
    LET start == p - WindowSize \div 2
    IN  [start |-> start,
         d |-> [i \in 1..WindowSize |->
                   IF Has(prev, start + i - 1) THEN prev.d[start + i - prev.start] ELSE 0]]

\* The windows add_document counts in: a new one in front when the document
\* is past the first, and no more than RotateSize
Windows(inputs, p) ==
    IF inputs = <<>> THEN <<make_new_window_(p, [start |-> 0, d |-> <<>>])>>
    ELSE IF End(inputs[1]) > p THEN inputs
    ELSE SubSeq(<<make_new_window_(p, inputs[1])>> \o inputs, 1,
                IF Len(inputs) + 1 < RotateSize THEN Len(inputs) + 1 ELSE RotateSize)

\* It stops at the first window that does not have the position.
Counted(inputs, p) ==
    [i \in DOMAIN inputs |->
        IF \A j \in 1..i : Has(inputs[j], p)
        THEN [inputs[i] EXCEPT !.d[p - inputs[i].start + 1] = @ + 1] ELSE inputs[i]]

add_document(s, p) ==
    /\ docs < MaxDocs
    /\ docs' = docs + 1
    /\ counting' = [counting EXCEPT ![s] =
          [k \in DOMAIN @ |-> [counting[s][k] EXCEPT !.inputs = Counted(Windows(@, p), p)]]]
    /\ accepted' = [accepted EXCEPT ![s] =
          [k \in Keyword |-> IF k \in DOMAIN counting'[s] /\ Has(counting'[s][k].inputs[1], p)
                             THEN [accepted[s][k] EXCEPT ![p] = @ + 1] ELSE @[k]]]
    /\ UNCHANGED <<stored, mixVars, ops>>

\* Mutant of Store: a result is put behind the first older one.
StoreBehind(rs, r, merge) ==
    IF rs = <<>> \/ rs[1].start < r.start THEN SubSeq(<<r>> \o rs, 1, IF Len(rs) < RotateSize THEN Len(rs) + 1 ELSE RotateSize)
    ELSE IF Len(rs) < RotateSize THEN Append(rs, r) ELSE rs

\* result_storage::store, newest first: a result is put before the first older
\* one or takes the place of the one of its window, unless merged and that has
\* as many documents; one older than all is dropped.
Store(rs, r, merge) ==
    LET at == {i \in DOMAIN rs : rs[i].start <= r.start}
        i == CHOOSE i \in at : \A j \in at : i <= j
        new == IF rs = <<>> THEN <<r>>
               ELSE IF at = {} THEN rs
               ELSE IF rs[i].start < r.start THEN InsertAt(rs, i, r)
               ELSE IF merge /\ Sum(rs[i].d) >= Sum(r.d) THEN rs
               ELSE [rs EXCEPT ![i] = r]
    IN  SubSeq(new, 1, IF Len(new) < RotateSize THEN Len(new) ELSE RotateSize)

StoreIn(st, r, merge) ==
    [results |-> Store(st.results, r, merge), oldest |-> IF r.start < st.oldest THEN r.start ELSE st.oldest]

\* Results stored one after the other.
StoreAll(st, rs, merge) ==
    LET after[n \in 0..Len(rs)] == IF n = 0 THEN st ELSE StoreIn(after[n - 1], rs[n], merge)
    IN  after[Len(rs)]

\* flush_results stores all windows, the oldest first, and forgets those that
\* do not overlap the first
Flushed(inputs) ==
    LET apart == {i \in DOMAIN inputs : \A j \in i..Len(inputs) : End(inputs[j]) <= inputs[1].start}
    IN  SubSeq(inputs, 1, Len(inputs) - Cardinality(apart))

calculate_results(s) ==
    /\ Op
    /\ stored' = [stored EXCEPT ![s] =
          [k \in DOMAIN @ |-> IF k \notin DOMAIN counting[s] THEN @[k]
                              ELSE StoreAll(@[k], Reverse(counting[s][k].inputs), FALSE)]]
    /\ counting' = [counting EXCEPT ![s] = [k \in DOMAIN @ |-> [counting[s][k] EXCEPT !.inputs = Flushed(@)]]]
    /\ UNCHANGED accepted

---------------------------------------------------------------------------
(* MIX.                                                                    *)

\* get_diff of a storage: the newest results, down to the oldest not mixed
Unmixed(st) ==
    LET old == {i \in DOMAIN st.results : st.results[i].start < st.oldest}
    IN  SubSeq(st.results, 1, IF old = {} THEN Len(st.results) ELSE Min(old) - 1)

StartRound ==
    /\ phase = "idle" /\ rounds < MaxRounds
    /\ rounds' = rounds + 1 /\ phase' = "gather" /\ todo' = Server /\ mixed' = <<>>
    /\ UNCHANGED <<stored, counting, accepted, docs, ops>>

\* get_diff for the keywords processed here, and mix: results are appended
Gather(s) ==
    /\ phase = "gather" /\ s \in todo
    /\ mixed' = [k \in DOMAIN mixed \cup DOMAIN counting[s] |->
          (IF k \in DOMAIN mixed THEN mixed[k] ELSE <<>>)
              \o (IF k \in DOMAIN counting[s] THEN Unmixed(stored[s][k]) ELSE <<>>)]
    /\ todo' = IF todo = {s} THEN Server ELSE todo \ {s}
    /\ phase' = IF todo = {s} THEN "put" ELSE phase
    /\ UNCHANGED <<stored, counting, accepted, docs, ops, rounds>>

\* put_diff merges the results of every keyword, storing unknown ones, and
\* counts down the keywords processed elsewhere
Put(s) ==
    /\ phase = "put" /\ s \in todo
    /\ stored' = [stored EXCEPT ![s] =
          [k \in DOMAIN @ \cup DOMAIN mixed |->
              IF k \notin DOMAIN mixed THEN @[k]
              ELSE LET st == IF k \in DOMAIN @ THEN @[k] ELSE NewStorage
                   IN  [StoreAll(st, mixed[k], TRUE) EXCEPT !.oldest = Never]]]
    /\ LET left == {k \in DOMAIN counting[s] : counting[s][k].removal = 1}
       IN  counting' = [counting EXCEPT ![s] =
              [k \in DOMAIN @ \ left |->
                  IF @[k].removal > 0 THEN [counting[s][k] EXCEPT !.removal = @ - 1] ELSE @[k]]]
    /\ todo' = todo \ {s}
    /\ phase' = IF todo = {s} THEN "idle" ELSE phase
    /\ UNCHANGED <<accepted, mixed, docs, ops, rounds>>

Next ==
    \/ \E s \in Server, k \in Keyword :
          remove_keyword(s, k) \/ \E processed \in BOOLEAN : add_keyword(s, k, processed)
    \/ \E s \in Server, ks \in SUBSET Keyword : set_processed_keywords(s, ks)
    \/ \E s \in Server : clear(s) \/ restart(s) \/ calculate_results(s) \/ Gather(s) \/ Put(s)
    \/ \E s \in Server, p \in Position : add_document(s, p)
    \/ StartRound

Spec == Init /\ [][Next]_vars

---------------------------------------------------------------------------
\* Type invariant and structure: what is counted is stored, results are in
\* order, one for a window, and no more than fit.
StorageSound ==
    \A s \in Server :
        /\ DOMAIN counting[s] \subseteq DOMAIN stored[s]
        /\ \A k \in DOMAIN counting[s] : counting[s][k].removal \in {-1} \cup 1..Survival
        /\ \A k \in DOMAIN stored[s] :
              LET rs == stored[s][k].results
              IN  Len(rs) <= RotateSize /\ \A i \in 2..Len(rs) : rs[i - 1].start > rs[i].start

\* Every window has counted exactly the documents taken in its batches since
\* the keyword is processed here, those before the window was opened too,
\* however windows overlap, are flushed or are dropped in between.
WindowsCountDocuments ==
    \A s \in Server : \A k \in DOMAIN counting[s] : \A i \in DOMAIN counting[s][k].inputs :
        LET w == counting[s][k].inputs[i]
        IN  \A p \in Position : Has(w, p) => w.d[p - w.start + 1] = accepted[s][k][p]

---------------------------------------------------------------------------
(***************************************************************************)
(* burst/engine: burst_detect, which finds the cheapest sequence of base   *)
(* and burst states for the batches of a window and keeps what it found for*)
(* the batches that were in the window before.  The costs of a batch in    *)
(* either state, sigma, are inputs; entering the burst state costs Tau.    *)
(***************************************************************************)

CONSTANTS Costs,     \* what sigma may be
          Tau,       \* tau of entering the burst state: gamma * log(window_size)
          Cut,       \* burst_cut_threshold * log(window_size)
          Infinite,  \* INFINITY: more than any sum of costs
          MaxBatches \* bound on the window

DetectConstants == Costs \subseteq Nat /\ {Tau, Cut, Infinite} \subseteq Nat \ {0}

VARIABLES batches, \* [zero, base, burst]: whether there is no document, and sigma
          reused,  \* weights kept from the result before
          ratio,   \* what p_vector is: "usual", "over" one or "none"
          weights  \* the answer, <<>> before

detectVars == <<batches, reused, ratio, weights>>

Batch == {[zero |-> FALSE, base |-> b, burst |-> u] : b, u \in Costs} \cup {[zero |-> TRUE, base |-> 0, burst |-> 0]}
State == {"base", "burst"}

DetectInit ==
    /\ batches \in UNION {[1..n -> Batch] : n \in 1..MaxBatches}
    /\ reused \in UNION {[1..n -> {0, 1, Infinite}] : n \in 0..(Len(batches) - 1)}
    /\ ratio \in {"usual", "over", "none"}
    /\ weights = <<>>

Plus(a, b) == IF a + b < Infinite THEN a + b ELSE Infinite
tau(from, to) == IF from = "base" /\ to = "burst" THEN Tau ELSE 0
get_batch_weight(i) == IF batches[i].base > batches[i].burst THEN batches[i].base - batches[i].burst ELSE 0
check_branch_cuttable(i) == batches[i].burst - batches[i].base > Cut

\* A batch without documents, or far cheaper in the base state, is left from it.
Forced(i) == batches[i].zero \/ check_branch_cuttable(i)

\* Mutant of calc_previous_optimal_state: entering the burst state is free.
calc_previousFree(cost, now) == IF cost["base"] > cost["burst"] THEN "burst" ELSE "base"

calc_previous_optimal_state(cost, now) ==
    IF Plus(cost["base"], tau("base", now)) > Plus(cost["burst"], tau("burst", now)) THEN "burst" ELSE "base"

\* One turn of the loop: the cheapest way to either state at batch i
Step(acc, i) ==
    LET Prev(now) == IF i > 1 /\ Forced(i - 1) THEN "base" ELSE calc_previous_optimal_state(acc.cost, now)
    IN  [cost |-> [now \in State |-> Plus(Plus(acc.cost[Prev(now)], tau(Prev(now), now)), batches[i][now])],
         seq |-> [now \in State |-> Append(acc.seq[Prev(now)], now)]]

\* The state the last weight kept stands for
Before == IF reused # <<>> /\ 0 < Last(reused) THEN "burst" ELSE "base"

optimal_states_seq ==
    LET m == Len(reused)
        n == Len(batches)
        start == [cost |-> [s \in State |-> IF s = Before THEN 0 ELSE Infinite],
                  seq |-> [s \in State |-> <<>>]]
        end == FoldLeft(Step, start, [j \in 1..(n - m) |-> m + j])
    IN  IF Forced(n) \/ end.cost["base"] <= end.cost["burst"] THEN end.seq["base"] ELSE end.seq["burst"]

burst_detect ==
    LET m == Len(reused)
        n == Len(batches)
    IN  IF ratio # "usual"
        THEN [i \in 1..n |-> IF i <= m THEN reused[i] ELSE IF ratio = "over" THEN Infinite ELSE 0]
        ELSE [i \in 1..n |-> IF i <= m THEN (IF 0 < reused[i] THEN get_batch_weight(i) ELSE reused[i])
                             ELSE IF optimal_states_seq[i - m] = "burst" THEN get_batch_weight(i) ELSE 0]

Detect ==
    /\ weights = <<>>
    /\ weights' = burst_detect
    /\ UNCHANGED <<batches, reused, ratio>>

DetectNext == Detect

DetectSpec == DetectInit /\ [][DetectNext]_vars

---------------------------------------------------------------------------
\* The cost of the states t for the batches after those kept.
Cost(t) ==
    LET m == Len(reused)
        At(j) == IF j = 0 THEN Before ELSE t[j]
    IN  FoldLeft(LAMBDA c, j : c + tau(At(j - 1), At(j)) + batches[m + j][At(j)], 0, [j \in 1..Len(t) |-> j])

\* No sequence of states is cheaper than the one burst_detect finds, among
\* those that leave no batch without documents, and none cut, in the burst
\* state; unless the last weight kept says burst where the batch is now to be
\* left from the base state.
SequenceIsOptimal ==
    LET m == Len(reused)
        n == Len(batches) - m
        Allowed == {t \in [1..n -> State] : \A j \in 1..n : Forced(m + j) => t[j] = "base"}
    IN  weights # <<>> /\ ratio = "usual" /\ (Before = "burst" => ~Forced(m)) =>
            /\ optimal_states_seq \in Allowed
            /\ \A t \in Allowed : Cost(optimal_states_seq) <= Cost(t)

\* The same whatever was kept: what the comments in burst_detect call the
\* optimal sequence.
AlwaysOptimal ==
    LET n == Len(batches) - Len(reused)
        Allowed == {t \in [1..n -> State] : \A j \in 1..n : Forced(Len(reused) + j) => t[j] = "base"}
    IN  weights # <<>> /\ ratio = "usual" => \A t \in Allowed : Cost(optimal_states_seq) <= Cost(t)
=============================================================================
