----------------------------- MODULE ThreadPool -----------------------------
(***************************************************************************)
(* common::thread_pool.  Client threads hand it one function (async) or a  *)
(* batch (async_all) and get() the futures in order, as random_projection  *)
(* and ranking_hamming_bit_vectors do; a future lives until its call ends. *)
(* Workers are started on demand up to the capacity and wait on a          *)
(* condition when the queue is empty.  What a thread does while it holds   *)
(* mutex_ is one step.  A task is <<client, i>>, the i-th function of the  *)
(* client's call.                                                          *)
(***************************************************************************)
EXTENDS Integers, Sequences, FiniteSets

CONSTANTS Client,   \* threads that use the pool
          Worker,   \* threads that can be started; bounds the capacity
          MaxBatch, \* bound on the functions of one call
          MaxCalls  \* bound on the calls of one client

ASSUME WorkerAssumption == IsFiniteSet(Worker)
ASSUME BoundAssumption == MaxBatch \in Nat \ {0} /\ MaxCalls \in Nat

VARIABLES queue,    \* queue_
          capacity, \* max_threads: how many workers there may be
          worker,   \* "none", "ready", "waiting", "running" or "exited"
          task,     \* the task a running worker executes, else NoTask
          shutdown, \* shutdown_
          batch,    \* how many futures the client's call has; 0 outside a call
          got,      \* how many of them it has got
          finished, \* which of them are finished
          calls,    \* how many calls the client began
          single    \* history: async was called

vars == <<queue, capacity, worker, task, shutdown, batch, got, finished, calls, single>>
clientVars == <<batch, got, finished, calls, single>>
poolVars == <<queue, capacity, worker, task, shutdown>>

Task == Client \X (1..MaxBatch)
NoTask == <<>>
InState(s) == {w \in Worker : worker[w] = s}
Pool == Worker \ InState("none")
Least(a, b) == IF a < b THEN a ELSE b
Tasks(c, n) == [i \in 1..n |-> <<c, i>>]

Init ==
    /\ queue = <<>>
    /\ capacity \in 0..Cardinality(Worker)
    /\ worker = [w \in Worker |-> "none"]
    /\ task = [w \in Worker |-> NoTask]
    /\ shutdown = FALSE
    /\ batch = [c \in Client |-> 0]
    /\ got = [c \in Client |-> 0]
    /\ finished = [c \in Client |-> {}]
    /\ calls = [c \in Client |-> 0]
    /\ single = FALSE

---------------------------------------------------------------------------
(* Submitting.                                                             *)

BeginCall(c, n, done) ==
    /\ batch[c] = 0
    /\ calls[c] < MaxCalls
    /\ ~shutdown
    /\ batch' = [batch EXCEPT ![c] = n]
    /\ got' = [got EXCEPT ![c] = 0]
    /\ finished' = [finished EXCEPT ![c] = done]
    /\ calls' = [calls EXCEPT ![c] = @ + 1]

\* Start k of the threads there are not yet, and notify those of woken.
StartAndWake(k, woken) ==
    \E started \in SUBSET InState("none") :
        /\ Cardinality(started) = k
        /\ worker' = [w \in Worker |->
                         IF w \in started \cup woken THEN "ready" ELSE worker[w]]
        /\ UNCHANGED <<capacity, task>>

\* A pool of capacity 0 executes in the caller's thread.
CallInline(c, n) ==
    /\ capacity = 0
    /\ BeginCall(c, n, 1..n)
    /\ UNCHANGED <<poolVars, single>>

\* async: starts a thread as long as there is room, else notifies if the
\* queue was empty
Async(c) ==
    /\ capacity > 0
    /\ BeginCall(c, 1, {})
    /\ queue' = Append(queue, <<c, 1>>)
    /\ IF Cardinality(Pool) < capacity
       THEN StartAndWake(1, {})
       ELSE StartAndWake(0, IF queue = <<>> THEN InState("waiting") ELSE {})
    /\ single' = TRUE
    /\ UNCHANGED shutdown

\* Mutant of Woken: notify instead of notify_all.
WokenOne ==
    IF queue = <<>> /\ InState("waiting") # {}
    THEN {CHOOSE w \in InState("waiting") : TRUE} ELSE {}

\* Whom async_all notifies
Woken == IF queue = <<>> THEN InState("waiting") ELSE {}

\* async_all: starts threads while they are fewer than the tasks queued, and
\* notifies if the queue was empty
AsyncAll(c, n) ==
    /\ capacity > 0
    /\ BeginCall(c, n, {})
    /\ queue' = queue \o Tasks(c, n)
    /\ LET size == Cardinality(Pool)
           wanted == Least(capacity, Len(queue'))
       IN StartAndWake(IF wanted > size THEN wanted - size ELSE 0, Woken)
    /\ UNCHANGED <<shutdown, single>>

---------------------------------------------------------------------------
(* Getting.                                                                *)

\* Mutant of Get: the result is not waited for.
GetAtOnce(c) ==
    /\ got[c] < batch[c]
    /\ got' = [got EXCEPT ![c] = @ + 1]
    /\ UNCHANGED <<poolVars, batch, finished, calls, single>>

\* Mutant of Get: one future too many.
GetOneMore(c) ==
    /\ batch[c] > 0 /\ got[c] <= batch[c]
    /\ got[c] + 1 \in finished[c] \cup {batch[c] + 1}
    /\ got' = [got EXCEPT ![c] = @ + 1]
    /\ UNCHANGED <<poolVars, batch, finished, calls, single>>

\* future::get of the next future
Get(c) ==
    /\ got[c] < batch[c]
    /\ got[c] + 1 \in finished[c]
    /\ got' = [got EXCEPT ![c] = @ + 1]
    /\ UNCHANGED <<poolVars, batch, finished, calls, single>>

\* The call ends and its futures are released.
EndCall(c) ==
    /\ batch[c] > 0
    /\ got[c] = batch[c]
    /\ batch' = [batch EXCEPT ![c] = 0]
    /\ got' = [got EXCEPT ![c] = 0]
    /\ finished' = [finished EXCEPT ![c] = {}]
    /\ UNCHANGED <<poolVars, calls, single>>

---------------------------------------------------------------------------
(* The workers.                                                            *)

Take(w) ==
    /\ queue # <<>>
    /\ worker' = [worker EXCEPT ![w] = "running"]
    /\ task' = [task EXCEPT ![w] = Head(queue)]
    /\ queue' = Tail(queue)

Exit(w) ==
    /\ worker' = [worker EXCEPT ![w] = "exited"]
    /\ UNCHANGED <<queue, task>>

Wait(w) ==
    /\ worker' = [worker EXCEPT ![w] = "waiting"]
    /\ UNCHANGED <<queue, task>>

\* Mutant of Look: shutdown_ is tested before the queue.
LookExitsAtShutdown(w) ==
    /\ worker[w] = "ready"
    /\ \/ ~shutdown /\ Take(w)
       \/ shutdown /\ Exit(w)
       \/ queue = <<>> /\ ~shutdown /\ Wait(w)
    /\ UNCHANGED <<capacity, shutdown, clientVars>>

\* worker: one pass of the loop that takes a task
Look(w) ==
    /\ worker[w] = "ready"
    /\ \/ Take(w)
       \/ queue = <<>> /\ shutdown /\ Exit(w)
       \/ queue = <<>> /\ ~shutdown /\ Wait(w)
    /\ UNCHANGED <<capacity, shutdown, clientVars>>

\* task(): future::execute
Execute(w) ==
    /\ worker[w] = "running"
    /\ finished' = [finished EXCEPT ![task[w][1]] = @ \cup {task[w][2]}]
    /\ worker' = [worker EXCEPT ![w] = "ready"]
    /\ task' = [task EXCEPT ![w] = NoTask]
    /\ UNCHANGED <<queue, capacity, shutdown, batch, got, calls, single>>

\* pthread_cond_wait may return without a notification.
Spurious(w) ==
    /\ worker[w] = "waiting"
    /\ worker' = [worker EXCEPT ![w] = "ready"]
    /\ UNCHANGED <<queue, capacity, task, shutdown, clientVars>>

\* Mutant of Destroy: nobody is notified.
DestroySilently ==
    /\ ~shutdown
    /\ shutdown' = TRUE
    /\ UNCHANGED <<queue, capacity, worker, task, clientVars>>

\* The destructor, which then joins the workers.  Calls may be in progress,
\* and none begins any more.
Destroy ==
    /\ ~shutdown
    /\ shutdown' = TRUE
    /\ StartAndWake(0, InState("waiting"))
    /\ UNCHANGED <<queue, clientVars>>

Next ==
    \/ \E c \in Client, n \in 1..MaxBatch : CallInline(c, n) \/ AsyncAll(c, n)
    \/ \E c \in Client : Async(c) \/ Get(c) \/ EndCall(c)
    \/ \E w \in Worker : Look(w) \/ Execute(w) \/ Spurious(w)
    \/ Destroy

\* Threads that can run do run, and functions return.
Fairness ==
    /\ \A w \in Worker : WF_vars(Look(w)) /\ WF_vars(Execute(w))
    /\ \A c \in Client : WF_vars(Get(c)) /\ WF_vars(EndCall(c))

Spec == Init /\ [][Next]_vars /\ Fairness

---------------------------------------------------------------------------
\* Type invariant.
TypeOK ==
    /\ queue \in Seq(Task)
    /\ worker \in [Worker -> {"none", "ready", "waiting", "running", "exited"}]
    /\ \A w \in Worker : IF worker[w] = "running" THEN task[w] \in Task ELSE task[w] = NoTask
    /\ Cardinality(Pool) <= capacity
    /\ batch \in [Client -> 0..MaxBatch]
    /\ \A c \in Client : got[c] \in 0..batch[c] /\ finished[c] \subseteq 1..batch[c]
    /\ calls \in [Client -> 0..MaxCalls]

\* The queue and the workers hold bare pointers to futures: each of them is
\* of a call that still holds the future, and not yet finished.
FuturesAlive ==
    \A t \in {queue[i] : i \in 1..Len(queue)} \cup {task[w] : w \in InState("running")} :
        t[2] \in 1..batch[t[1]] \ finished[t[1]]

\* No worker sleeps while a task waits, as long as work comes by async_all
\* only: async starts a thread instead of waking the ones there are.
NobodySleeps == queue # <<>> /\ ~single => InState("waiting") = {}

\* No task is queued for a future that is gone, and nobody sleeps beside one.
PoolIsSound == TypeOK /\ FuturesAlive /\ NobodySleeps

\* Every call returns, also when the pool is destroyed meanwhile: no wakeup
\* is lost and the queue is drained before the workers exit.
CallsReturn == \A c \in Client : batch[c] > 0 ~> batch[c] = 0

\* The destructor comes to an end: every worker that was started exits.
DestructorReturns == shutdown ~> Pool = InState("exited")
=============================================================================
