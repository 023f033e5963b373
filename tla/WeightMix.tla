----------------------------- MODULE WeightMix -----------------------------
(***************************************************************************)
(* driver::recommender on several nodes: its mixable_holder mixes the rows *)
(* and, behind them, the fv_converter's weight_manager.  The rows (see     *)
(* InvertedIndexMix) are here the documents they were made of: the row     *)
(* storage accepts every difference, the weight manager only one of its own*)
(* version.                                                                *)
(***************************************************************************)
EXTENDS Integers, FiniteSets, Sequences, SequencesExt, FiniteSetsExt

CONSTANTS Node, Word,
          Document,     \* the feature vectors: sequences of words, not merged
          UserWeight,   \* the values of add_weight
          MaxUpdates, MaxRounds, MaxResets  \* bounds

WordAssumption ==
    /\ IsFiniteSet(Word) /\ Word # {}
    /\ IsFiniteSet(Document) /\ Document # {} /\ \A fv \in Document : fv \in Seq(Word)
BoundAssumption == MaxUpdates \in Nat /\ MaxRounds \in Nat /\ MaxResets \in Nat

VARIABLES rows,     \* node -> [diff, master]: the documents rows were made of
          weights,  \* node -> [version, diff, master]: its weight_manager
          refused,  \* history: nodes that reported a refused put since they were last loaded
          mixed,    \* the difference folded so far: [rows, version, weights]
          todo, phase,
          counted,  \* history: node -> the documents its weights were made of
          apart,    \* history: nodes cleared, or loaded while a round gathers, since then
          left_out, \* history: documents whose weights a fold left out
          updates, resets, rounds

nodeVars == <<rows, weights, refused, counted, apart>>
mixVars == <<mixed, todo, phase, left_out, rounds>>
vars == <<nodeVars, mixVars, updates, resets>>

keyword_weights == [document_count |-> 0, document_frequencies |-> [w \in Word |-> 0],
                    total_length |-> 0, user |-> [w \in {} |-> 0]]
NoDocs == [diff |-> {}, master |-> {}]
NoMix == [rows |-> {}, version |-> -1, weights |-> keyword_weights, counted |-> {}]

Init ==
    /\ rows = [n \in Node |-> NoDocs] /\ counted = rows /\ apart = {}
    /\ left_out = {}
    /\ weights = [n \in Node |-> [version |-> 0, diff |-> keyword_weights, master |-> keyword_weights]]
    /\ refused = {}
    /\ mixed = NoMix /\ todo = {} /\ phase = "idle"
    /\ updates = 0 /\ resets = 0 /\ rounds = 0

---------------------------------------------------------------------------
Occurrences(fv, w) == Cardinality({i \in DOMAIN fv : fv[i] = w})

\* The features of a document are counted as converted, before they are merged.
update_document_frequency(k, fv) ==
    [document_count |-> k.document_count + 1,
     document_frequencies |-> [w \in Word |-> k.document_frequencies[w] + Occurrences(fv, w)],
     total_length |-> k.total_length + Len(fv),
     user |-> k.user]

\* The values of f, and those of g for the other words.
Over(f, g) == [w \in DOMAIN f \cup DOMAIN g |-> IF w \in DOMAIN f THEN f[w] ELSE g[w]]

\* Mutant of merge: the count of the documents is not added.
mergeNoCount(k, w) ==
    [document_count |-> k.document_count,
     document_frequencies |-> [v \in Word |-> k.document_frequencies[v] + w.document_frequencies[v]],
     total_length |-> k.total_length + w.total_length,
     user |-> Over(w.user, k.user)]

\* Frequencies add up; the user weights of w override those of k.
merge(k, w) ==
    [document_count |-> k.document_count + w.document_count,
     document_frequencies |-> [v \in Word |-> k.document_frequencies[v] + w.document_frequencies[v]],
     total_length |-> k.total_length + w.total_length,
     user |-> Over(w.user, k.user)]

---------------------------------------------------------------------------
\* recommender::update_row: convert_and_update_weight, then the row
update_row(n, fv) ==
    /\ updates < MaxUpdates /\ updates' = updates + 1
    /\ weights' = [weights EXCEPT ![n].diff = update_document_frequency(@, fv)]
    /\ counted' = [counted EXCEPT ![n].diff = @ \cup {updates'}]
    /\ rows' = [rows EXCEPT ![n].diff = @ \cup {updates'}]
    /\ UNCHANGED <<refused, apart, mixVars, resets>>

add_weight(n, w, x) ==
    /\ updates < MaxUpdates /\ updates' = updates + 1
    /\ weights' = [weights EXCEPT ![n].diff.user = Over([v \in {w} |-> x], @)]
    /\ UNCHANGED <<rows, counted, refused, apart, mixVars, resets>>

\* Everything but the version goes.
clear(n) ==
    /\ resets < MaxResets /\ resets' = resets + 1
    /\ rows' = [rows EXCEPT ![n] = NoDocs]
    /\ counted' = [counted EXCEPT ![n] = NoDocs]
    /\ weights' = [weights EXCEPT ![n] = [version |-> @.version, diff |-> keyword_weights,
                                        master |-> keyword_weights]]
    /\ apart' = apart \cup {n}
    /\ UNCHANGED <<refused, mixVars, updates>>

\* n loads what pack() wrote at m: the server does so when a put was refused.
unpack(n, m) ==
    /\ n # m /\ resets < MaxResets /\ resets' = resets + 1
    /\ rows' = [rows EXCEPT ![n] = rows[m]]
    /\ counted' = [counted EXCEPT ![n] = counted[m]]
    /\ weights' = [weights EXCEPT ![n] = weights[m]]
    /\ refused' = IF m \in refused THEN refused \cup {n} ELSE refused \ {n}
    /\ apart' = IF m \in apart \/ phase = "gather" THEN apart \cup {n} ELSE apart \ {n}
    /\ UNCHANGED <<mixVars, updates>>

---------------------------------------------------------------------------
StartRound ==
    /\ phase = "idle" /\ rounds < MaxRounds
    /\ phase' = "gather" /\ todo' = Node /\ mixed' = NoMix /\ rounds' = rounds + 1
    /\ UNCHANGED <<nodeVars, left_out, updates, resets>>

\* The weights of the newest version are folded, older ones are left out.
mix(lhs, acc) ==
    LET all == acc.rows \cup lhs.rows
    IN  IF lhs.version = acc.version
        THEN [rows |-> all, version |-> acc.version, weights |-> merge(acc.weights, lhs.weights),
              counted |-> acc.counted \cup lhs.counted]
        ELSE [(IF lhs.version > acc.version THEN lhs ELSE acc) EXCEPT !.rows = all]

\* mixable_holder::get_diff asks one mixable after the other.
get_diff(n) ==
    [rows |-> rows[n].diff, version |-> weights[n].version,
     weights |-> weights[n].diff, counted |-> counted[n].diff]

Gather(n) ==
    /\ phase = "gather" /\ n \in todo
    /\ mixed' = mix(get_diff(n), mixed)
    /\ left_out' = left_out \cup ((counted[n].diff \cup mixed.counted) \ mixed'.counted)
    /\ todo' = todo \ {n}
    /\ UNCHANGED <<nodeVars, phase, rounds, updates, resets>>

StartPut ==
    /\ phase = "gather" /\ todo = {}
    /\ phase' = "put" /\ todo' = Node
    /\ UNCHANGED <<nodeVars, mixed, left_out, rounds, updates, resets>>

put_rows(n) == [diff |-> {}, master |-> rows[n].master \cup mixed.rows]

\* Mutant of put_weights: a difference of any version is taken.
put_weightsAnyVersion(n) ==
    [version |-> weights[n].version + 1, diff |-> keyword_weights,
     master |-> merge(weights[n].master, mixed.weights)]

\* weight_manager::put_diff
put_weights(n) ==
    IF mixed.version = weights[n].version
    THEN [version |-> weights[n].version + 1, diff |-> keyword_weights,
          master |-> merge(weights[n].master, mixed.weights)]
    ELSE weights[n]

\* Mutant of Success: the holder reports what its first mixable said.
SuccessOfFirst(n) == TRUE

Success(n) == mixed.version = weights[n].version

\* mixable_holder::put_diff: every mixable gets its part, refused or not
Put(n) ==
    /\ phase = "put" /\ n \in todo
    /\ rows' = [rows EXCEPT ![n] = put_rows(n)]
    /\ weights' = [weights EXCEPT ![n] = put_weights(n)]
    /\ counted' = IF mixed.version = weights[n].version
                  THEN [counted EXCEPT ![n] = [diff |-> {}, master |-> @.master \cup mixed.counted]]
                  ELSE counted
    /\ refused' = IF Success(n) THEN refused ELSE refused \cup {n}
    /\ todo' = todo \ {n}
    /\ UNCHANGED <<apart, mixed, phase, left_out, rounds, updates, resets>>

LosePut(n) ==
    /\ phase = "put" /\ n \in todo
    /\ todo' = todo \ {n}
    /\ UNCHANGED <<nodeVars, mixed, phase, left_out, rounds, updates, resets>>

EndRound ==
    /\ phase = "put" /\ todo = {}
    /\ phase' = "idle" /\ mixed' = NoMix
    /\ UNCHANGED <<nodeVars, todo, left_out, rounds, updates, resets>>

Next ==
    \/ \E n \in Node, fv \in Document : update_row(n, fv)
    \/ \E n \in Node, w \in Word, x \in UserWeight : add_weight(n, w, x)
    \/ \E n \in Node : clear(n)
    \/ \E n, m \in Node : unpack(n, m)
    \/ StartRound
    \/ \E n \in Node : Gather(n)
    \/ StartPut
    \/ \E n \in Node : Put(n)
    \/ \E n \in Node : LosePut(n)
    \/ EndRound

Spec == Init /\ [][Next]_vars

---------------------------------------------------------------------------
Repeats == Max({Occurrences(fv, w) : fv \in Document, w \in Word})
LongestDocument == Max({Len(fv) : fv \in Document})

\* What idf and bm25 divide: no word is in more documents, as often as a
\* document may repeat it, than are counted, and no length comes from a
\* document that is not, whatever was mixed, cleared and loaded.
FrequenciesFit ==
    \A n \in Node :
        LET w == merge(weights[n].master, weights[n].diff)
        IN  /\ \A v \in Word : w.document_frequencies[v] <= Repeats * w.document_count
            /\ w.total_length <= LongestDocument * w.document_count

\* Nodes of the same version agree on the weights of every word, unless one was
\* cleared, which leaves the version as it was, or was loaded with a version that
\* the mixer had not gathered yet and may not gather any more.
WeightsAgree ==
    \A n, m \in Node \ apart :
        weights[n].version = weights[m].version => weights[n].master = weights[m].master

\* As long as a node reported no refused put, nor the node it was loaded from,
\* the documents whose rows it holds are counted in its weights too, but for
\* those a fold left out because their node was behind: a holder that hides the
\* refusal of one mixable leaves a model whose parts are of different rounds.
RowsAreCounted ==
    \A n \in Node \ refused :
        rows[n].diff \cup rows[n].master \subseteq counted[n].diff \cup counted[n].master \cup left_out

\* All three.
WeightsAreSound == FrequenciesFit /\ RowsAreCounted /\ WeightsAgree
=============================================================================
