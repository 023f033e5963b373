----------------------------- MODULE MCMixables -----------------------------
(***************************************************************************)
(* Model-checking instance of the storages that MIX brings together, one of*)
(* them in each behaviour: the bit index, the lsh index, the inverted      *)
(* index, bursts, the tables of lof and the points of clustering; and the  *)
(* detection of bursts.  All but the bit index (BitIndexMix, extended)     *)
(* share the variables of a round where they have the same; what a         *)
(* component does not use is empty and stays so.                           *)
(***************************************************************************)
EXTENDS BitIndexMix, Sequences, TLC

VARIABLES part, unlearner, store, astray, behind, batches, reused, ratio, strength,
          stored, counting, taken, docs, calls, conf, model, round, updated,
          fresh, hidden, spoiled, kind, mine, status, common, revision, cnt,
          unseen, added, adds, restarts, seen, unmixed, origs, known, edited,
          turns, leg, due, folded, resting, in_use, calm, wiped, filled

Hashes == {{1}, {2}}
NoHash == {}
Cells == {1, -2}

CONSTANTS Keyword, Position, WindowSize, RotateSize, Survival, MaxDocs, MaxOps \* of Burst

L == INSTANCE BitIndexMix
        WITH RowId <- Sticky, Value <- Hashes, Gone <- NoHash, Sticky <- {},
             MaxSize <- 1, MaxRounds <- 2, MaxEdits <- 3,
             bitvals <- seen, diff <- unmixed, orig <- origs, memory <- known,
             edits <- edited, rounds <- turns, phase <- leg, todo <- due,
             mixed <- folded, rest <- resting, busy <- in_use, quiet <- calm,
             cleared <- wiped, full <- filled

I == INSTANCE InvertedIndexMix
        WITH Feature <- Value, Column <- Sticky, Value <- Cells,
             MaxSize <- 1, MaxRounds <- 2, MaxUpdates <- 2, MaxClears <- 1,
             orig <- origs, memory <- known, edits <- edited, rounds <- turns,
             phase <- leg, todo <- due, mixed <- folded

K == INSTANCE Burst
        WITH Server <- Node, Costs <- 0..2, Tau <- 1, Cut <- 1, Infinite <- 100,
             MaxBatches <- 3, weights <- strength, MaxRounds <- 1,
             accepted <- taken, ops <- calls,
             rounds <- turns, phase <- leg, todo <- due, mixed <- folded

Less(i, j) == i < j
A == INSTANCE LofMix
        WITH Server <- Node, Id <- 1..3, Point <- {0, 2}, Gone <- -1, Sticky <- {1, 2},
             Before <- Less, MaxCalls <- 3, MaxRounds <- 2,
             Config <- {[k |-> 2, reverse |-> 3, max_size |-> 2, ignore |-> TRUE]},
             calls <- updated,
             rounds <- turns

C == INSTANCE Clustering
        WITH Node <- {1, 2}, bucket_size <- 2, bucket_length <- 2,
             compressed_bucket_size <- 1, ForgetLevel <- 3, MaxAdds <- 8,
             MaxRounds <- 1, MaxResets <- 1, MaxLevel <- 4, resets <- restarts,
             rounds <- turns, phase <- leg, todo <- due, mixed <- folded

ASSUME InstancesAssumption ==
    /\ I!InvertedBounds
    /\ K!BurstConstants /\ K!DetectConstants
    /\ A!LofConfig /\ C!ParamAssumption

indexVars == <<lsh_table, lsh_table_diff>>
invertedVars == <<unlearner, store, astray, behind>>
detectVars == <<batches, reused, ratio, strength>>
burstVars == <<stored, counting, taken, docs, calls>>
lofVars == <<conf, model, round, updated, fresh, hidden, spoiled>>
clusteringVars == <<kind, mine, status, common, revision, cnt, unseen, added,
                    adds, restarts>>
sharedVars == <<seen, unmixed, origs, known, edited, turns, leg, due, folded,
                resting, in_use, calm, wiped, filled>>

\* What a component that does not run has instead of its state.
Nothing == <<>>
NoIndex ==
    /\ lsh_table = Nothing /\ lsh_table_diff = Nothing
NoInverted ==
    /\ unlearner = Nothing /\ store = Nothing
    /\ astray = Nothing /\ behind = Nothing
NoDetect ==
    /\ batches = Nothing /\ reused = Nothing /\ ratio = Nothing
    /\ strength = Nothing
NoBurst ==
    /\ stored = Nothing /\ counting = Nothing /\ taken = Nothing
    /\ docs = Nothing /\ calls = Nothing
NoLof ==
    /\ conf = Nothing /\ model = Nothing /\ round = Nothing
    /\ updated = Nothing /\ fresh = Nothing /\ hidden = Nothing
    /\ spoiled = Nothing
NoClustering ==
    /\ kind = Nothing /\ mine = Nothing /\ status = Nothing
    /\ common = Nothing /\ revision = Nothing /\ cnt = Nothing
    /\ unseen = Nothing /\ added = Nothing /\ adds = Nothing
    /\ restarts = Nothing

PartsInit ==
    \/ /\ part = "bit" /\ Init /\ NoIndex /\ NoInverted
       /\ NoDetect /\ NoBurst /\ NoLof /\ NoClustering
       /\ seen = Nothing /\ unmixed = Nothing /\ origs = Nothing
       /\ known = Nothing /\ edited = Nothing /\ turns = Nothing
       /\ leg = Nothing /\ due = Nothing /\ folded = Nothing
       /\ resting = Nothing /\ in_use = Nothing /\ calm = Nothing
       /\ wiped = Nothing /\ filled = Nothing
    \/ /\ part = "lsh" /\ L!LshInit /\ Init /\ NoInverted
       /\ NoDetect /\ NoBurst /\ NoLof /\ NoClustering
    \/ /\ part = "inverted" /\ I!Init /\ Init /\ NoIndex
       /\ NoDetect /\ NoBurst /\ NoLof /\ NoClustering
       /\ seen = Nothing /\ unmixed = Nothing /\ resting = Nothing
       /\ in_use = Nothing /\ calm = Nothing /\ wiped = Nothing
       /\ filled = Nothing
    \/ /\ part = "burst" /\ K!Init /\ Init /\ NoIndex /\ NoInverted
       /\ NoDetect /\ NoLof /\ NoClustering
       /\ seen = Nothing /\ unmixed = Nothing /\ origs = Nothing
       /\ known = Nothing /\ edited = Nothing /\ resting = Nothing
       /\ in_use = Nothing /\ calm = Nothing /\ wiped = Nothing
       /\ filled = Nothing
    \/ /\ part = "detect" /\ K!DetectInit /\ Init /\ NoIndex /\ NoInverted
       /\ NoBurst /\ NoLof /\ NoClustering
       /\ seen = Nothing /\ unmixed = Nothing /\ origs = Nothing
       /\ known = Nothing /\ edited = Nothing /\ turns = Nothing
       /\ leg = Nothing /\ due = Nothing /\ folded = Nothing
       /\ resting = Nothing /\ in_use = Nothing /\ calm = Nothing
       /\ wiped = Nothing /\ filled = Nothing
    \/ /\ part = "lof" /\ A!Init /\ Init /\ NoIndex /\ NoInverted
       /\ NoDetect /\ NoBurst /\ NoClustering
       /\ seen = Nothing /\ unmixed = Nothing /\ origs = Nothing
       /\ known = Nothing /\ edited = Nothing /\ leg = Nothing
       /\ due = Nothing /\ folded = Nothing /\ resting = Nothing
       /\ in_use = Nothing /\ calm = Nothing /\ wiped = Nothing
       /\ filled = Nothing
    \/ /\ part = "clustering" /\ C!Init /\ Init /\ NoIndex /\ NoInverted
       /\ NoDetect /\ NoBurst /\ NoLof
       /\ seen = Nothing /\ unmixed = Nothing /\ origs = Nothing
       /\ known = Nothing /\ edited = Nothing /\ resting = Nothing
       /\ in_use = Nothing /\ calm = Nothing /\ wiped = Nothing
       /\ filled = Nothing

\* A third round of the bit index is explored after at most three edits, while no
\* unlearner was full, and a second one of lof after at most two calls.
BitScope == rounds <= 1 \/ (edits <= 3 /\ (rounds <= 2 \/ full = {}))
LofScope == turns <= 1 \/ updated <= 2

PartsNext ==
    \/ /\ part = "bit" /\ Next
       /\ UNCHANGED <<part, indexVars, invertedVars, detectVars, burstVars, lofVars,
                      clusteringVars, seen, unmixed, origs, known, edited,
                      turns, leg, due, folded, resting, in_use, calm, wiped,
                      filled>>
       /\ BitScope'
    \/ /\ part = "lsh" /\ L!LshNext
       /\ UNCHANGED <<part, vars, invertedVars, detectVars, burstVars, lofVars, clusteringVars>>
    \/ /\ part = "inverted" /\ I!Next
       /\ UNCHANGED <<part, vars, indexVars, detectVars, burstVars, lofVars,
                      clusteringVars, seen, unmixed, resting, in_use, calm,
                      wiped, filled>>
    \/ /\ part = "burst" /\ K!Next
       /\ UNCHANGED <<part, vars, indexVars, invertedVars, detectVars, lofVars,
                      clusteringVars, seen, unmixed, origs, known, edited,
                      resting, in_use, calm, wiped, filled>>
    \/ /\ part = "detect" /\ K!DetectNext
       /\ UNCHANGED <<part, vars, indexVars, invertedVars, burstVars, lofVars,
                      clusteringVars, seen, unmixed, origs, known, edited,
                      turns, leg, due, folded, resting, in_use, calm, wiped,
                      filled>>
    \/ /\ part = "lof" /\ A!Next
       /\ UNCHANGED <<part, vars, indexVars, invertedVars, detectVars, burstVars,
                      clusteringVars, seen, unmixed, origs, known, edited,
                      leg, due, folded, resting, in_use, calm, wiped, filled>>
       /\ LofScope'
    \/ /\ part = "clustering" /\ C!Next
       /\ UNCHANGED <<part, vars, indexVars, invertedVars, detectVars, burstVars, lofVars,
                      seen, unmixed, origs, known, edited, resting, in_use,
                      calm, wiped, filled>>

partsVars == <<part, vars, indexVars, invertedVars, detectVars, burstVars,
               lofVars, clusteringVars, sharedVars>>

PartsSpec == PartsInit /\ [][PartsNext]_partsVars

\* Nodes and values are interchangeable, and so are rows that agree in
\* stickiness.
Symmetry == Permutations(Node) \cup Permutations(Value)
              \cup Permutations(Sticky) \cup Permutations(RowId \ Sticky)

---------------------------------------------------------------------------
\* Norms of the inverted index are those of its cells, rows that a query finds are
\* listed and known to the unlearner, and nodes agree between rounds; rows of the
\* lsh index are found in the bucket of each of their hashes (its tables are those
\* of the bit index).
IndexesAreSound ==
    /\ part = "inverted" => /\ I!TypeOK /\ I!NormsMatchCells
                            /\ I!HitsAreKnown /\ I!StoragesAgree
    /\ part = "lsh" => L!LshTypeOK /\ L!RowsFindable

\* What is counted is stored, in order, and every window counts exactly the
\* documents of its batches.
BurstsAreSound == part = "burst" => K!StorageSound /\ K!WindowsCountDocuments

\* The states found for batches are the cheapest.
BurstsAreOptimal == part = "detect" => K!SequenceIsOptimal

\* The tables of lof and of its engine list the same rows, scores are those of
\* now, what was removed stays away, and servers agree between rounds.
LofTablesHold ==
    part = "lof" => /\ A!TablesListTheSame /\ A!ScoresFresh
                    /\ A!RemovedStaysHidden /\ A!TablesAgree

\* Buckets keep the weight of the points given and no node clusters a
\* point twice.
PointsAreKept == part = "clustering" => C!BucketsAreSound /\ C!ClusteredOnce
=============================================================================
