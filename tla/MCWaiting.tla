------------------------------ MODULE MCWaiting ------------------------------
(***************************************************************************)
(* Model-checking instance of what has to come to an end, one in each      *)
(* behaviour: the thread pool (ThreadPool, extended), the monitors of      *)
(* util/concurrent, scopes of its rw_mutex, the loops of k-means, and      *)
(* coresets.  What a component does not use is empty and stays so.         *)
(***************************************************************************)
EXTENDS ThreadPool

CONSTANTS Thread, NoThread, Released, Workload, MaxSpurious, Script   \* of Monitors

VARIABLES part, load, owner, holder, cnt, saved, q, quantity, pc, toDo, prog,
          depth, sent, received, spurious, script, mode, readers, writer,
          need_unlock, source, base_size, wanted, ratio, resid, drawn, made,
          unit, doing, method, points, kcenters, point_states, clusters, at,
          phase

\* The pool while it is not used.
Idle == Init /\ capacity = 0

\* Workloads in which every call can be served: a full and an empty buffer
\* with timeouts and a clear, an mvar with a swap, a channel whose reader gives
\* back, and a semaphore of one.
Load(k, c, n, x, y, z) == [kind |-> k, capacity |-> c, quantity |-> n, calls |-> <<x, y, z>>]
Workloads ==
    {Load("pcbuf", 1, 0, <<"push", "push">>, <<"pop">>, <<"pop_timed">>),
     Load("pcbuf", 1, 0, <<"push", "push", "push">>, <<"pop">>, <<"pop">>),
     Load("pcbuf", 2, 0, <<"push", "clear">>, <<"push">>, <<"pop_timed">>),
     Load("mvar", 1, 0, <<"push", "push">>, <<"pop", "read">>, <<"swap">>),
     Load("chan", 0, 0, <<"push", "push">>, <<"pop", "unget">>, <<"pop">>),
     Load("qsem", 0, 1, <<"wait", "signal">>, <<"wait", "signal">>, <<"wait", "signal">>)}

\* Two scopes for one thread and one for each of two others, of every kind but
\* the read lock that does not wait.
Kinds == {"rlock", "rlock_timed", "wlock", "wlock_timed", "wlock_now"}
Scripts == {<<<<x, y>>, <<z>>, <<u>>>> : x, y, z, u \in Kinds}

\* Who a mutex says holds it when nobody does.
Nobody == -1

M == INSTANCE Monitors WITH calls <- toDo

\* Five points on a line, some alike, and fewer points than centers.
Point(x, w) == [x |-> x, weight |-> w]
Rising == {f \in [1..5 -> {0, 1, 2, 4}] : f[1] \in {0, 4} /\ \A j \in 2..4 : f[j] <= f[j + 1]}
Batches == {<<Point(1, 1), Point(2, 1)>>}
    \cup {<<Point(f[1], 1), Point(f[2], 2), Point(f[3], 1), Point(f[4], 2), Point(f[5], 1)>> :
              f \in Rising}

\* Points without weight, in one place, far apart, and more than are drawn at once.
Place(x, w) == [x |-> x, weight |-> w]
Sources == [1..3 -> {Place(0, 1), Place(1, 2), Place(4, 0), Place(4, 1)}]
            \cup {<<Place(0, 1), Place(1, 1), Place(5, 2), Place(6, 0)>>,
                  <<Place(2, 1), Place(2, 1), Place(2, 1), Place(3, 1)>>,
                  <<Place(0, 2), Place(3, 1), Place(4, 1), Place(9, 1), Place(1, 0)>>}

B == INSTANCE BatchClustering
        WITH Batch <- Batches, k <- 3, eps <- 2, min_core_point <- 3, next_point <- at,
             Sources <- Sources, Sizes <- 1..3, Bases <- {1, 2}, Ratios <- {<<1, 10>>, <<2, 5>>},
             src <- source, bsize <- base_size, dstsize <- wanted, r <- ratio, bic <- drawn,
             dst <- made, stage <- doing

ASSUME InstancesAssumption ==
    M!SpuriousAssumption /\ M!WorkloadAssumption /\ M!ScriptAssumption

monitorVars == <<load, owner, holder, cnt, saved, q, quantity, pc, toDo,
                 prog, depth, sent, received, spurious>>
rwVars == <<script, mode, readers, writer, need_unlock>>
coresetVars == <<source, base_size, wanted, ratio, resid, drawn, made, unit,
                 doing>>
batchVars == <<method, points, kcenters, point_states, clusters, at, phase>>

\* What a component that does not run has instead of its state.
Nothing == <<>>
NoMonitor ==
    /\ load = Nothing /\ owner = Nothing /\ holder = Nothing /\ cnt = Nothing
    /\ saved = Nothing /\ q = Nothing /\ quantity = Nothing /\ pc = Nothing
    /\ toDo = Nothing /\ prog = Nothing /\ depth = Nothing /\ sent = Nothing
    /\ received = Nothing /\ spurious = Nothing
NoRw ==
    /\ script = Nothing /\ mode = Nothing /\ readers = Nothing
    /\ writer = Nothing /\ need_unlock = Nothing
NoCoreset ==
    /\ source = Nothing /\ base_size = Nothing /\ wanted = Nothing
    /\ ratio = Nothing /\ resid = Nothing /\ drawn = Nothing /\ made = Nothing
    /\ unit = Nothing /\ doing = Nothing
NoBatch ==
    /\ method = Nothing /\ points = Nothing /\ kcenters = Nothing
    /\ point_states = Nothing /\ clusters = Nothing /\ at = Nothing
    /\ phase = Nothing

PartsInit ==
    \/ /\ part = "pool" /\ Init /\ NoMonitor /\ NoRw /\ NoCoreset /\ NoBatch
    \/ /\ part = "monitors" /\ M!Init /\ Idle /\ NoRw /\ NoCoreset /\ NoBatch
    \/ /\ part = "rw_mutex" /\ M!RwInit /\ Idle /\ NoMonitor /\ NoCoreset
       /\ NoBatch
    \/ /\ part = "coreset" /\ B!CompressInit /\ Idle /\ NoMonitor /\ NoRw
       /\ NoBatch
    \/ /\ part = "batch" /\ B!Init /\ Idle /\ NoMonitor /\ NoRw /\ NoCoreset

PartsNext ==
    \/ /\ part = "pool" /\ Next
       /\ UNCHANGED <<part, monitorVars, rwVars, coresetVars, batchVars>>
    \/ /\ part = "monitors" /\ M!Next
       /\ UNCHANGED <<part, vars, rwVars, coresetVars, batchVars>>
    \/ /\ part = "rw_mutex" /\ M!RwNext
       /\ UNCHANGED <<part, vars, monitorVars, coresetVars, batchVars>>
    \/ /\ part = "coreset" /\ B!CompressNext
       /\ UNCHANGED <<part, vars, monitorVars, rwVars, batchVars>>
    \/ /\ part = "batch" /\ B!Next
       /\ UNCHANGED <<part, vars, monitorVars, rwVars, coresetVars>>

partsVars == <<part, vars, monitorVars, rwVars, coresetVars, batchVars>>

\* The fairness of each component for the behaviours in which it runs.
PartsFairness ==
    /\ \A w \in Worker :
          /\ WF_vars(part = "pool" /\ Look(w))
          /\ WF_vars(part = "pool" /\ Execute(w))
    /\ \A c \in Client :
          /\ WF_vars(part = "pool" /\ Get(c))
          /\ WF_vars(part = "pool" /\ EndCall(c))
    /\ \A t \in Thread :
          /\ WF_monitorVars(part = "monitors" /\ M!Move(t))
          /\ WF_monitorVars(part = "monitors" /\ M!Expire(t))
    /\ WF_batchVars(part = "batch" /\ (B!ChooseFirst \/ B!ChooseNext \/ B!Iterate))

PartsSpec == PartsInit /\ [][PartsNext]_partsVars /\ PartsFairness

---------------------------------------------------------------------------
\* Calls of the pool and its destructor return.
PoolReturns == CallsReturn /\ DestructorReturns

\* Mutexes and values survive waits and nested calls, and scopes of a rw_mutex
\* have the lock exactly when they were told so.
MonitorsAreSound ==
    /\ part = "monitors" => M!MonitorsHold
    /\ part = "rw_mutex" => M!HoldersHold

\* Calls of the monitors that can be served are served.
MonitorsServe == <>(part = "monitors" => M!AllServed)

\* Clusters are what their definitions say, and a coreset weighs what its points
\* weigh.
ClustersHold ==
    /\ part = "batch" => B!ClustersAreRight
    /\ part = "coreset" => B!CoresetsWeigh

\* The loop of k-means comes to rest.
ClusteringEnds == <>(part = "batch" => B!Ended)
=============================================================================
