----------------------------- MODULE StatWindow -----------------------------
(***************************************************************************)
(* driver::stat on several nodes: a sliding window over all keys, running  *)
(* totals for every key of it, and a MIX that adds up what the entropy     *)
(* needs.  Values are integers; XLogX tabulates n * log(n).                *)
(***************************************************************************)
EXTENDS Integers, FiniteSets, Sequences, SequencesExt, FiniteSetsExt

CONSTANTS Node, Key, Value,
          XLogX,              \* n * log(n) for the counts that occur
          window_size,
          MaxPushes, MaxRounds  \* bounds

\* n * log(n) of a sum is not less than the sum of those of its parts.
WindowAssumption ==
    /\ IsFiniteSet(Node) /\ Value \subseteq Int /\ window_size \in Nat \ {0}
    /\ XLogX \in [0..(Cardinality(Node) * window_size) -> Int] /\ XLogX[0] = 0
    /\ \A a, b \in DOMAIN XLogX : a + b \in DOMAIN XLogX => XLogX[a] + XLogX[b] <= XLogX[a + b]

VARIABLES window,  \* node -> sequence of [key, val]
          stats,   \* node -> key -> [n, sum, sum2, max, min] of the keys in it
          e, n,    \* node -> what the last MIX gave
          mixed, todo, phase,
          pushes, rounds

vars == <<window, stats, e, n, mixed, todo, phase, pushes, rounds>>

Init ==
    /\ window = [s \in Node |-> <<>>] /\ stats = [s \in Node |-> <<>>]
    /\ e = [s \in Node |-> 0] /\ n = e
    /\ mixed = [e |-> 0, n |-> 0] /\ todo = {} /\ phase = "idle"
    /\ pushes = 0 /\ rounds = 0

stat_val == [n |-> 0, sum |-> 0, sum2 |-> 0, max |-> 0, min |-> 0]
StatOf(st, k) == IF k \in DOMAIN st THEN st[k] ELSE stat_val

add(st, d) ==
    [n |-> st.n + 1, sum |-> st.sum + d, sum2 |-> st.sum2 + d * d,
     max |-> IF st.n > 0 THEN Max({st.max, d}) ELSE d,
     min |-> IF st.n > 0 THEN Min({st.min, d}) ELSE d]

KeysOf(w) == {w[i].key : i \in DOMAIN w}
Places(w, k) == {i \in DOMAIN w : w[i].key = k}
ValuesIn(w, k) == {w[i].val : i \in Places(w, k)}

\* The extremes are looked for in w only when the value that left was one.
rem(st, d, k, w) ==
    LET left == ValuesIn(w, k)
    IN  [n |-> st.n - 1, sum |-> st.sum - d, sum2 |-> st.sum2 - d * d,
         max |-> IF st.max # d THEN st.max ELSE IF st.n > 1 THEN Max(left) ELSE 0,
         min |-> IF st.min # d THEN st.min ELSE IF st.n > 1 THEN Min(left) ELSE 0]

\* Mutant of Shrink: the totals are corrected before the value leaves the window.
ShrinkLate(w, st) ==
    LET k == w[1].key
        rest == rem(st[k], w[1].val, k, w)
    IN  [window |-> Tail(w),
         stats |-> [j \in DOMAIN st \ (IF rest.n = 0 THEN {k} ELSE {}) |-> IF j = k THEN rest ELSE st[j]]]

\* The oldest value leaves; a key with none left is forgotten.
Shrink(w, st) ==
    LET k == w[1].key
        rest == rem(st[k], w[1].val, k, Tail(w))
    IN  [window |-> Tail(w),
         stats |-> [j \in DOMAIN st \ (IF rest.n = 0 THEN {k} ELSE {}) |-> IF j = k THEN rest ELSE st[j]]]

push(s, k, v) ==
    LET w == Append(window[s], [key |-> k, val |-> v])
        st == [j \in DOMAIN stats[s] \cup {k} |->
                 IF j = k THEN add(StatOf(stats[s], k), v) ELSE stats[s][j]]
        kept == IF Len(w) > window_size THEN Shrink(w, st) ELSE [window |-> w, stats |-> st]
    IN  /\ pushes < MaxPushes /\ pushes' = pushes + 1
        /\ window' = [window EXCEPT ![s] = kept.window]
        /\ stats' = [stats EXCEPT ![s] = kept.stats]
        /\ UNCHANGED <<e, n, mixed, todo, phase, rounds>>

\* clear() leaves what the last MIX gave.
clear(s) ==
    /\ window[s] # <<>>
    /\ window' = [window EXCEPT ![s] = <<>>] /\ stats' = [stats EXCEPT ![s] = <<>>]
    /\ UNCHANGED <<e, n, mixed, todo, phase, pushes, rounds>>

Total(f) == SumFunctionOnSet(f, DOMAIN f)
get_diff(s) ==
    [e |-> Total([k \in DOMAIN stats[s] |-> XLogX[stats[s][k].n]]),
     n |-> Total([k \in DOMAIN stats[s] |-> stats[s][k].n])]

\* entropy() times the number of values, from the MIX or, before any, from here
entropy(s) ==
    LET own == get_diff(s)
    IN  IF n[s] = 0 THEN (IF own.n = 0 THEN 0 ELSE XLogX[own.n] - own.e)
                    ELSE XLogX[n[s]] - e[s]

\* Mutant of mix: the counts of the nodes are not added.
mixNoCount(lhs, acc) == [e |-> acc.e + lhs.e, n |-> Max({acc.n, lhs.n})]

mix(lhs, acc) == [e |-> acc.e + lhs.e, n |-> acc.n + lhs.n]

StartRound ==
    /\ phase = "idle" /\ rounds < MaxRounds
    /\ phase' = "gather" /\ todo' = Node /\ mixed' = [e |-> 0, n |-> 0] /\ rounds' = rounds + 1
    /\ UNCHANGED <<window, stats, e, n, pushes>>

Gather(s) ==
    /\ phase = "gather" /\ s \in todo
    /\ mixed' = mix(get_diff(s), mixed)
    /\ todo' = todo \ {s}
    /\ UNCHANGED <<window, stats, e, n, phase, pushes, rounds>>

StartPut ==
    /\ phase = "gather" /\ todo = {}
    /\ phase' = "put" /\ todo' = Node
    /\ UNCHANGED <<window, stats, e, n, mixed, pushes, rounds>>

put_diff(s) ==
    /\ phase = "put" /\ s \in todo
    /\ e' = [e EXCEPT ![s] = mixed.e] /\ n' = [n EXCEPT ![s] = mixed.n]
    /\ todo' = todo \ {s}
    /\ UNCHANGED <<window, stats, mixed, phase, pushes, rounds>>

EndRound ==
    /\ phase = "put" /\ todo = {}
    /\ phase' = "idle"
    /\ UNCHANGED <<window, stats, e, n, mixed, todo, pushes, rounds>>

Next ==
    \/ \E s \in Node, k \in Key, v \in Value : push(s, k, v)
    \/ \E s \in Node : clear(s)
    \/ StartRound
    \/ \E s \in Node : Gather(s)
    \/ StartPut
    \/ \E s \in Node : put_diff(s)
    \/ EndRound

Spec == Init /\ [][Next]_vars

---------------------------------------------------------------------------
\* The totals recomputed from the window alone
Recount(w, k) ==
    [n |-> Cardinality(Places(w, k)),
     sum |-> SumFunctionOnSet([i \in DOMAIN w |-> w[i].val], Places(w, k)),
     sum2 |-> SumFunctionOnSet([i \in DOMAIN w |-> w[i].val * w[i].val], Places(w, k)),
     max |-> Max(ValuesIn(w, k)), min |-> Min(ValuesIn(w, k))]

\* After any sequence of pushes the running totals of every key, its extremes
\* among them, are those of its values in the window, and the keys with none
\* are gone: rem() looks for an extreme only when one left.
StatsMatchWindow ==
    \A s \in Node :
        /\ Len(window[s]) <= window_size
        /\ stats[s] = [k \in KeysOf(window[s]) |-> Recount(window[s], k)]

\* The entropy is never negative, before a MIX and after it.
EntropyNotNegative == \A s \in Node : entropy(s) >= 0
=============================================================================
