----------------------------- MODULE MCLearners -----------------------------
(***************************************************************************)
(* Model-checking instance of learners, one of them in each behaviour: the *)
(* classifier by nearest neighbours (NNClassifier, extended), the other    *)
(* users of such an engine, the linear classifiers, the numbers these and  *)
(* the regressions learn, and the graph.  What a component does not use is *)
(* empty and stays so.                                                     *)
(***************************************************************************)
EXTENDS NNClassifier, Sequences, TLC

VARIABLES part, method, setters, key2id, next_id, tbl, counted, known, rw,
          um, at, arg, neg, old, calls, rule, table, tally, doing, last,
          spoilt, trains, user, max_size, servers, made, turn, leg, due,
          gathered, disturbed, peers, nodes, edges, spts, eigen, mixed,
          asked, phase, edits, rounds, ever, changed, quiet

CONSTANTS i1, i2, i3, i4, la, lb,
          Name, Feature, NoName, StickyName, MaxNames,      \* of LinearClassifier
          Server, RowId, StickyRow, Column, Users, MaxSizes, MaxTurns, \* of NeighborTables
          MaxCalls                                           \* of both

\* Four ids of the nearest neighbour classifier, two of each label.
MCId == {i1, i2, i3, i4}
MCLabel == {la, lb}
MCLabelOf == (i1 :> la) @@ (i2 :> la) @@ (i3 :> lb) @@ (i4 :> lb)

\* One row to evict and one that cannot be.
MCRowId == {-1, -2}
MCStickyRow == {-2}

L == INSTANCE LinearClassifier
        WITH Label <- Name, NoLabel <- NoName, Sticky <- StickyName, MaxSize <- MaxNames,
             memory <- known, pc <- at

\* Every algorithm, with a loose and a tight bound; a vector of zeros.
Methods == {"perceptron", "passive_aggressive", "passive_aggressive_1", "passive_aggressive_2",
            "confidence_weighted", "arow", "normal_herd"}
Rules ==
    [task : {"classifier"}, method : Methods, C : {<<1, 2>>, <<2, 1>>}, sensitivity : {<<0, 1>>}]
    \cup [task : {"regression"}, method : Methods, C : {<<1, 2>>, <<2, 1>>},
          sensitivity : {<<0, 1>>, <<1, 2>>}]
Vectors == {("f" :> 1) @@ ("g" :> 1), ("f" :> 2), ("f" :> 0), ("g" :> -1) @@ ("f" :> 2)}

R == INSTANCE UpdateRules
        WITH Thread <- {1, 2}, Feature <- {"f", "g"}, Rule <- Rules, Vector <- Vectors,
             Target <- ("classifier" :> {"a", "b"}) @@ ("regression" :> {-2, 2}),
             Root <- 4, Limit <- 300, MaxTrains <- 2, w <- table

N == INSTANCE NeighborTables
        WITH Id <- RowId, Sticky <- StickyRow, MaxRounds <- MaxTurns,
             srv <- servers, calls <- made, rounds <- turn,
             phase <- leg, asked <- due, mixed <- gathered

\* Three nodes in a row, the middle one on the other server, and an edge back
\* from the last, for a circle that misses the first; all match the query.
G == INSTANCE GraphMix
        WITH Server <- {"s1", "s2"}, Order <- <<2, 1, 3>>, Home <- <<"s1", "s2", "s1">>,
             Edge <- {"e", "f", "g"},
             Ends <- ("e" :> <<1, 2>>) @@ ("f" :> <<2, 3>>) @@ ("g" :> <<3, 2>>),
             Prop <- {"x"}, Query <- {"x"}, NodeQuery <- ("x" :> {"x"}),
             EdgeQuery <- ("x" :> {"e", "f", "g"}), EmptyQuery <- "all", LandmarkNum <- 1,
             MaxEdits <- 1, MaxRounds <- 3, todo <- asked

ASSUME InstancesAssumption ==
    /\ L!LabelAssumption /\ L!CallBounds
    /\ N!NeighborAssumption /\ G!GraphConstants

linearVars == <<method, setters, key2id, next_id, tbl, counted, known, rw,
                um, at, arg, neg, old, calls>>
rulesVars == <<rule, table, tally, doing, last, spoilt, trains>>
tablesVars == <<user, max_size, servers, made, turn, leg, due, gathered,
                disturbed>>
graphVars == <<peers, nodes, edges, spts, eigen, mixed, asked, phase, edits,
               rounds, ever, changed, quiet>>

\* What a component that does not run has instead of its state.
Nothing == <<>>
NoLinear ==
    /\ method = Nothing /\ setters = Nothing /\ key2id = Nothing
    /\ next_id = Nothing /\ tbl = Nothing /\ counted = Nothing
    /\ known = Nothing /\ rw = Nothing /\ um = Nothing /\ at = Nothing
    /\ arg = Nothing /\ neg = Nothing /\ old = Nothing /\ calls = Nothing
NoRules ==
    /\ rule = Nothing /\ table = Nothing /\ tally = Nothing /\ doing = Nothing
    /\ last = Nothing /\ spoilt = Nothing /\ trains = Nothing
NoTables ==
    /\ user = Nothing /\ max_size = Nothing /\ servers = Nothing
    /\ made = Nothing /\ turn = Nothing /\ leg = Nothing /\ due = Nothing
    /\ gathered = Nothing /\ disturbed = Nothing
NoGraph ==
    /\ peers = Nothing /\ nodes = Nothing /\ edges = Nothing /\ spts = Nothing
    /\ eigen = Nothing /\ mixed = Nothing /\ asked = Nothing
    /\ phase = Nothing /\ edits = Nothing /\ rounds = Nothing
    /\ ever = Nothing /\ changed = Nothing /\ quiet = Nothing

PartsInit ==
    \/ /\ part = "nn" /\ Init /\ NoLinear /\ NoRules /\ NoTables /\ NoGraph
    \/ /\ part = "linear" /\ L!Init /\ Init /\ NoRules /\ NoTables /\ NoGraph
    \/ /\ part = "rules" /\ R!Init /\ Init /\ NoLinear /\ NoTables /\ NoGraph
    \/ /\ part = "tables" /\ N!Init /\ Init /\ NoLinear /\ NoRules /\ NoGraph
    \/ /\ part = "graph" /\ G!Init /\ Init /\ NoLinear /\ NoRules /\ NoTables

\* The graph changes until its second round begins, and a third is explored only
\* if nothing changed since before the first; the edge back comes last, and
\* then nothing but nodes and edges is added.
GraphScope ==
    /\ (rounds = 2 => quiet > 0) /\ (rounds = 3 => quiet = 3)
    /\ "g" \in ever => {"e", "f"} \subseteq ever /\ edits = 0

PartsNext ==
    \/ /\ part = "nn" /\ Next
       /\ UNCHANGED <<part, linearVars, rulesVars, tablesVars, graphVars>>
    \/ /\ part = "linear" /\ L!Next
       /\ UNCHANGED <<part, vars, rulesVars, tablesVars, graphVars>>
    \/ /\ part = "rules" /\ R!Next
       /\ UNCHANGED <<part, vars, linearVars, tablesVars, graphVars>>
    \/ /\ part = "tables" /\ N!Next
       /\ UNCHANGED <<part, vars, linearVars, rulesVars, graphVars>>
    \/ /\ part = "graph" /\ G!Next
       /\ UNCHANGED <<part, vars, linearVars, rulesVars, tablesVars>>
       /\ GraphScope'

partsVars == <<part, vars, linearVars, rulesVars, tablesVars, graphVars>>

PartsSpec == PartsInit /\ [][PartsNext]_partsVars

\* The nearest neighbour classifier alone.
NNSpec == (part = "nn" /\ PartsInit) /\ [][PartsNext]_partsVars

PartsSymmetry ==
    Permutations(Thread) \cup Permutations(StickyName) \cup Permutations(Name \ StickyName)
    \cup Permutations(Server)
    \cup Permutations({i1, i2}) \cup Permutations({i3, i4})

---------------------------------------------------------------------------
\* No label of a linear classifier inherits what another learned, and the
\* algorithms that touch a label with the lock held leave no weight behind.
LabelsAreSafe == part = "linear" => L!TypeOK /\ L!NothingInherited /\ L!HeldLockIsEnough

\* The other users' rows, original rows, values and unlearners fit each other.
NeighborsAreServed == part = "tables" => N!NeighborsAreServed

\* Edges are listed where they end, and paths found are ways there have been.
GraphIsSound == part = "graph" => G!AdjacencySound /\ G!PathsAreWalks

\* Rounds without changes make all servers know the true distances; and an update
\* of the learners takes away the loss it is for and no certainty is lost by it.
ResultsAreRight ==
    /\ part = "graph" => G!QuietRoundsExact
    /\ part = "rules" => R!UpdatesAreRight
=============================================================================
