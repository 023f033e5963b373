------------------------------ MODULE MCRounds ------------------------------
(***************************************************************************)
(* Model-checking instance of what rounds of MIX keep alike, one of them in*)
(* each behaviour: the column tables (TableMix, extended), the weights of  *)
(* features, bandits and statistics.  All but the tables share the         *)
(* variables of a round; what a component does not use is empty and stays  *)
(* so.                                                                     *)
(***************************************************************************)
EXTENDS TableMix, TLC

CONSTANTS Server,                                          \* of all but the tables
          Word, Document, UserWeight, MaxUpdates, MaxResets,  \* of WeightMix
          Player, MaxOps,                                     \* of Bandit
          Value, XLogX, window_size, MaxPushes, MaxMixes,     \* of StatWindow
          MaxTurns                                            \* rounds of the others

VARIABLES part, rows, weights, refused, counted, left_out, updates, resets,
          method, assume_unrewarded, arm_ids, bandits, total, saved, given, again, ops,
          window, stats, entropy, number, pushes, turns, leg, due, folded, apart

Wgt == INSTANCE WeightMix
        WITH Node <- Server, MaxRounds <- MaxTurns,
             rounds <- turns, phase <- leg, todo <- due, mixed <- folded

Bnd == INSTANCE Bandit
        WITH Arm <- Key, MaxRounds <- MaxTurns, table <- bandits,
             rounds <- turns, phase <- leg, todo <- due

Sts == INSTANCE StatWindow
        WITH Node <- Server, MaxRounds <- MaxMixes, e <- entropy, n <- number,
             rounds <- turns, phase <- leg, todo <- due, mixed <- folded

ASSUME InstancesAssumption ==
    Wgt!WordAssumption /\ Wgt!BoundAssumption /\ Bnd!SetsAssumption /\ Sts!WindowAssumption

\* Two documents, the numbers pushed, and n * log(n), in thousandths.
Documents == {<<"a">>, <<"a", "b", "b">>}
Samples == -1..1
Logs == [c \in 0..4 |-> IF c = 0 THEN 0 ELSE <<0, 1386, 3296, 5545>>[c]]

weightVars == <<rows, weights, refused, counted, left_out, updates, resets>>
banditVars == <<method, assume_unrewarded, arm_ids, bandits, total, saved, given, again, ops>>
statVars == <<window, stats, entropy, number, pushes>>
roundVars == <<turns, leg, due, folded, apart>>

\* What a component that does not run has instead of its state.
Nothing == <<>>
NoWeight ==
    /\ rows = Nothing /\ weights = Nothing /\ refused = Nothing
    /\ counted = Nothing /\ left_out = Nothing /\ updates = Nothing
    /\ resets = Nothing /\ apart = Nothing
NoBandit ==
    /\ method = Nothing /\ assume_unrewarded = Nothing /\ arm_ids = Nothing
    /\ bandits = Nothing /\ total = Nothing /\ saved = Nothing
    /\ given = Nothing /\ again = Nothing /\ ops = Nothing
NoStat ==
    /\ window = Nothing /\ stats = Nothing /\ entropy = Nothing
    /\ number = Nothing /\ pushes = Nothing
NoRound == turns = Nothing /\ leg = Nothing /\ due = Nothing

PartsInit ==
    /\ Init
    /\ \/ /\ part = "tables" /\ NoWeight /\ NoBandit /\ NoStat /\ NoRound /\ folded = Nothing
       \/ /\ part = "weight" /\ Wgt!Init /\ NoBandit /\ NoStat
       \/ /\ part = "bandit" /\ Bnd!Init /\ NoWeight /\ NoStat /\ folded = Nothing
       \/ /\ part = "stat" /\ Sts!Init /\ NoWeight /\ NoBandit

PartsNext ==
    \/ /\ part = "tables" /\ Next
       /\ UNCHANGED <<part, weightVars, banditVars, statVars, roundVars>>
    \/ /\ part = "weight" /\ Wgt!Next
       /\ UNCHANGED <<part, vars, banditVars, statVars>>
    \/ /\ part = "bandit" /\ Bnd!Next
       /\ UNCHANGED <<part, vars, weightVars, statVars, folded, apart>>
    \/ /\ part = "stat" /\ Sts!Next
       /\ UNCHANGED <<part, vars, weightVars, banditVars, apart>>

partsVars == <<part, vars, weightVars, banditVars, statVars, roundVars>>

PartsSpec == PartsInit /\ [][PartsNext]_partsVars

\* Nodes, keys and writes are interchangeable, and so are servers; only
\* safety is checked.
Symmetry ==
    Permutations(Node) \cup Permutations(Key) \cup Permutations(Write)
    \cup Permutations(Server)

\* Scope is the union of three scenarios of the tables, each closed under
\* prefixes: linear rounds only, gossip only, and everything together on a smaller
\* number of writes.
Writes(n) == Cardinality(used) + refreshes <= n

LinearOnly == pulls = 0 /\ deletes = 0 /\ ~lost /\ Writes(3)
GossipOnly == rounds = 0 /\ deletes = 0 /\ Writes(2)
Together ==
    /\ Writes(2) /\ refreshes = 0
    /\ rounds <= 1 /\ pulls <= 1

Scope == LinearOnly \/ GossipOnly \/ Together

---------------------------------------------------------------------------
\* Frequencies fit the documents counted, rows and their weights arrive
\* together, and nodes that are up to date have the same weights.
WeightsAreSound == part = "weight" => Wgt!WeightsAreSound

\* A player's totals are those of its arms, and no trial is counted twice.
ArmsAddUp == part = "bandit" => Bnd!ArmsAddUp

\* Sums are those of the window and the entropy mixed is one.
StatsAreSound == part = "stat" => Sts!StatsMatchWindow /\ Sts!EntropyNotNegative
=============================================================================
