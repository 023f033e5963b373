--------------------------- MODULE Waiting_proofs ---------------------------
(***************************************************************************)
(* Proof that the thread pool executes functions of calls that still run   *)
(* only, and that no worker sleeps beside work; in the second part, that   *)
(* monitors keep mutual exclusion and lose, double and reorder no value.   *)
(***************************************************************************)
EXTENDS MCWaiting, TLAPS, FiniteSetTheorems, SequenceTheorems

---------------------------------------------------------------------------
(* The inductive invariant.                                                *)

TypeInv ==
    /\ queue \in Seq(Task)
    /\ capacity \in Nat
    /\ worker \in [Worker -> {"none", "ready", "waiting", "running", "exited"}]
    /\ task \in [Worker -> Task \cup {NoTask}]
    /\ \A w \in Worker : IF worker[w] = "running" THEN task[w] \in Task ELSE task[w] = NoTask
    /\ Cardinality(Pool) <= capacity
    /\ batch \in [Client -> 0..MaxBatch]
    /\ got \in [Client -> 0..MaxBatch]
    /\ finished \in [Client -> SUBSET (1..MaxBatch)]
    /\ \A c \in Client : got[c] \in 0..batch[c] /\ finished[c] \subseteq 1..batch[c]
    /\ calls \in [Client -> 0..MaxCalls]

\* What was got was finished, so a call that ends has no task left.
GotFinished == \A c \in Client : 1..got[c] \subseteq finished[c]

Alive(t) == t[2] \in (1..batch[t[1]]) \ finished[t[1]]
Running(w) == worker[w] = "running"

TasksAlive ==
    /\ \A i \in 1..Len(queue) : Alive(queue[i])
    /\ \A w \in Worker : Running(w) => Alive(task[w])

\* A task is in one place, so that executing it finishes no other one.
TasksDistinct ==
    /\ \A i, j \in 1..Len(queue) : queue[i] = queue[j] => i = j
    /\ \A w, u \in Worker : Running(w) /\ Running(u) /\ task[w] = task[u] => w = u
    /\ \A i \in 1..Len(queue), w \in Worker : Running(w) => queue[i] # task[w]

IInv == TypeInv /\ GotFinished /\ TasksAlive /\ TasksDistinct /\ NobodySleeps

---------------------------------------------------------------------------
(* What submitting does to the queue, and starting to the workers.         *)

LEMMA QueueGrows ==
    ASSUME TypeInv, NEW c \in Client, NEW n \in 1..MaxBatch,
           queue' = queue \o Tasks(c, n) \/ (n = 1 /\ queue' = Append(queue, <<c, 1>>))
    PROVE  /\ queue' \in Seq(Task)
           /\ Len(queue') = Len(queue) + n
           /\ \A i \in 1..Len(queue) : queue'[i] = queue[i]
           /\ \A i \in 1..Len(queue') :
                 i \notin 1..Len(queue) =>
                     i - Len(queue) \in 1..n /\ queue'[i] = <<c, i - Len(queue)>>
<1>1. Len(queue) \in Nat /\ queue \in Seq(Task) /\ n \in Nat
  BY BoundAssumption DEF TypeInv
<1>2. \A j \in 1..n : <<c, j>> \in Task
  BY BoundAssumption DEF Task
<1>3. CASE queue' = queue \o Tasks(c, n)
  <2>1. Tasks(c, n) \in Seq(Task) /\ Len(Tasks(c, n)) = n /\ \A j \in 1..n : Tasks(c, n)[j] = <<c, j>>
    BY <1>1, <1>2 DEF Tasks
  <2> DEFINE new == Tasks(c, n)
  <2>2. new \in Seq(Task) /\ Len(new) = n /\ \A j \in 1..n : new[j] = <<c, j>>
    BY <2>1
  <2>3. queue' = queue \o new
    BY <1>3
  <2> HIDE DEF new
  <2>4. /\ queue \o new \in Seq(Task)
        /\ Len(queue \o new) = Len(queue) + Len(new)
        /\ \A i \in 1..Len(queue) + Len(new) :
              (queue \o new)[i] = IF i <= Len(queue) THEN queue[i] ELSE new[i - Len(queue)]
    BY <1>1, <2>2, ConcatProperties
  <2>5. \A i \in 1..Len(queue) : queue'[i] = queue[i]
    BY <1>1, <2>2, <2>3, <2>4
  <2>6. ASSUME NEW i \in 1..Len(queue'), i \notin 1..Len(queue)
        PROVE  i - Len(queue) \in 1..n /\ queue'[i] = <<c, i - Len(queue)>>
    <3>1. i \in 1..Len(queue) + n /\ ~(i <= Len(queue)) /\ i - Len(queue) \in 1..n
      BY <1>1, <2>2, <2>3, <2>4, <2>6
    <3>2. queue'[i] = new[i - Len(queue)]
      BY <2>2, <2>3, <2>4, <3>1
    <3>3. QED
      BY <2>2, <3>1, <3>2
  <2>7. QED
    BY <2>2, <2>3, <2>4, <2>5, <2>6
<1>4. CASE n = 1 /\ queue' = Append(queue, <<c, 1>>)
  <2>1. <<c, 1>> \in Task
    BY <1>2, <1>4
  <2>2. /\ queue' \in Seq(Task) /\ Len(queue') = Len(queue) + 1
        /\ \A i \in 1..Len(queue) : queue'[i] = queue[i]
        /\ queue'[Len(queue) + 1] = <<c, 1>>
    BY <1>1, <1>4, <2>1
  <2>3. ASSUME NEW i \in 1..Len(queue'), i \notin 1..Len(queue)
        PROVE  i - Len(queue) = 1 /\ i = Len(queue) + 1
    BY <1>1, <2>2, <2>3
  <2>4. ASSUME NEW i \in 1..Len(queue'), i \notin 1..Len(queue)
        PROVE  i - Len(queue) \in 1..n /\ queue'[i] = <<c, i - Len(queue)>>
    <3>1. i - Len(queue) = 1 /\ i = Len(queue) + 1
      BY <2>3, <2>4
    <3>2. queue'[i] = <<c, 1>>
      BY <2>2, <3>1
    <3>3. QED
      BY <1>4, <3>1, <3>2
  <2>5. Len(queue') = Len(queue) + n
    BY <1>4, <2>2
  <2>6. QED
    BY <2>2, <2>4, <2>5
<1>5. QED
  BY <1>3, <1>4

LEMMA QueueShrinks ==
    ASSUME TypeInv, NEW w \in Worker, Take(w)
    PROVE  /\ Len(queue) \in Nat \ {0}
           /\ queue' \in Seq(Task) /\ Len(queue') = Len(queue) - 1
           /\ \A i \in 1..Len(queue') : i + 1 \in 1..Len(queue) /\ queue'[i] = queue[i + 1]
           /\ task'[w] = queue[1] /\ queue[1] \in Task
<1>1. queue \in Seq(Task) /\ queue # <<>> /\ queue' = Tail(queue)
  BY DEF TypeInv, Take
<1>2. Len(queue) \in Nat \ {0}
  BY <1>1, EmptySeq
<1>3. /\ Head(queue) \in Task /\ Tail(queue) \in Seq(Task)
      /\ Len(Tail(queue)) = Len(queue) - 1
      /\ \A i \in 1..Len(Tail(queue)) : Tail(queue)[i] = queue[i + 1]
  BY <1>1, HeadTailProperties
<1>4. Head(queue) = queue[1]
  BY <1>1
<1>5. task'[w] = queue[1]
  BY <1>4 DEF Take, TypeInv
<1>6. \A i \in 1..Len(queue) - 1 : i + 1 \in 1..Len(queue)
  BY <1>2
<1>7. QED
  BY <1>1, <1>2, <1>3, <1>4, <1>5, <1>6

\* Workers that were there keep their places in the pool.
LEMMA PoolIsFinite == IsFiniteSet(Pool) /\ Cardinality(Pool) \in Nat
<1>1. Pool \in SUBSET Worker
  BY DEF Pool
<1>2. QED
  BY <1>1, WorkerAssumption, FS_Subset, FS_CardinalityType

LEMMA PoolKept ==
    ASSUME \A w \in Worker : worker'[w] = "none" <=> worker[w] = "none"
    PROVE  Pool' = Pool
BY DEF Pool, InState

LEMMA Starting ==
    ASSUME TypeInv, NEW k \in Nat, Cardinality(Pool) + k <= capacity,
           NEW woken \in SUBSET InState("waiting"), StartAndWake(k, woken)
    PROVE  /\ worker' \in [Worker -> {"none", "ready", "waiting", "running", "exited"}]
           /\ \A w \in Worker : Running(w)' <=> Running(w)
           /\ \A w \in InState("waiting")' : w \in InState("waiting") \ woken
           /\ Cardinality(Pool') <= capacity
           /\ UNCHANGED <<capacity, task>>
<1>1. PICK started \in SUBSET InState("none") :
         /\ Cardinality(started) = k
         /\ worker' = [w \in Worker |-> IF w \in started \cup woken THEN "ready" ELSE worker[w]]
         /\ UNCHANGED <<capacity, task>>
  BY DEF StartAndWake
<1>2. worker' \in [Worker -> {"none", "ready", "waiting", "running", "exited"}]
  BY <1>1 DEF TypeInv
<1>3. \A w \in Worker : Running(w)' <=> Running(w)
  BY <1>1 DEF InState, Running
<1>4. \A w \in InState("waiting")' : w \in InState("waiting") \ woken
  BY <1>1 DEF InState
<1>5. Pool' = Pool \cup started
  BY <1>1 DEF Pool, InState
<1>6. IsFiniteSet(started)
  <2>1. started \in SUBSET Worker
    BY DEF InState
  <2>2. QED
    BY <2>1, WorkerAssumption, FS_Subset
<1>7. /\ Cardinality(Pool \cup started) =
             Cardinality(Pool) + Cardinality(started) - Cardinality(Pool \cap started)
      /\ Cardinality(Pool) \in Nat /\ Cardinality(Pool \cap started) \in Nat
  <2>1. IsFiniteSet(Pool \cap started)
    BY PoolIsFinite, FS_Intersection
  <2>2. QED
    BY <1>6, <2>1, PoolIsFinite, FS_Union, FS_CardinalityType
<1>8. Cardinality(Pool') <= capacity
  BY <1>1, <1>5, <1>7 DEF TypeInv
<1>9. QED
  BY <1>1, <1>2, <1>3, <1>4, <1>8

\* What both ways to submit to the workers have in common.
LEMMA Submitting ==
    ASSUME TypeInv, NEW c \in Client, NEW n \in 1..MaxBatch,
           AsyncAll(c, n) \/ (n = 1 /\ Async(c))
    PROVE  /\ BeginCall(c, n, {})
           /\ queue' = queue \o Tasks(c, n) \/ (n = 1 /\ queue' = Append(queue, <<c, 1>>))
           /\ worker' \in [Worker -> {"none", "ready", "waiting", "running", "exited"}]
           /\ \A w \in Worker : Running(w)' <=> Running(w)
           /\ Cardinality(Pool') <= capacity
           /\ UNCHANGED <<capacity, task>>
<1>0. Cardinality(Pool) \in Nat /\ capacity \in Nat /\ Cardinality(Pool) <= capacity
  BY PoolIsFinite DEF TypeInv
<1>1. CASE AsyncAll(c, n)
  <2>1. PICK size, needed :
           /\ size = Cardinality(Pool) /\ needed = Least(capacity, Len(queue'))
           /\ StartAndWake(IF needed > size THEN needed - size ELSE 0, Woken)
    BY <1>1 DEF AsyncAll
  <2>2. needed \in Int /\ needed <= capacity
    <3>1. queue' = queue \o Tasks(c, n)
      BY <1>1 DEF AsyncAll
    <3>2. Len(queue') \in Nat
      BY <3>1, QueueGrows
    <3>3. QED
      BY <1>0, <2>1, <3>2 DEF Least
  <2>3. PICK k \in Nat : k = (IF needed > size THEN needed - size ELSE 0)
    BY <1>0, <2>1, <2>2
  <2>4. Cardinality(Pool) + k <= capacity
    BY <1>0, <2>1, <2>2, <2>3
  <2>5. Woken \in SUBSET InState("waiting")
    BY DEF Woken
  <2>6. StartAndWake(k, Woken)
    BY <2>1, <2>3
  <2>7. QED
    BY <1>1, <2>4, <2>5, <2>6, Starting DEF AsyncAll
<1>2. CASE n = 1 /\ Async(c)
  <2>1. CASE Cardinality(Pool) < capacity
    <3> DEFINE one == 1
    <3>1. one \in Nat /\ Cardinality(Pool) + one <= capacity
      BY <1>0, <2>1
    <3>2. StartAndWake(one, {}) /\ {} \in SUBSET InState("waiting")
      BY <1>2, <2>1 DEF Async
    <3> HIDE DEF one
    <3>3. QED
      BY <1>2, <3>1, <3>2, Starting DEF Async
  <2>2. CASE ~(Cardinality(Pool) < capacity)
    <3> DEFINE zero == 0
               woken == IF queue = <<>> THEN InState("waiting") ELSE {}
    <3>1. zero \in Nat /\ Cardinality(Pool) + zero <= capacity
      BY <1>0
    <3>2. StartAndWake(zero, woken) /\ woken \in SUBSET InState("waiting")
      BY <1>2, <2>2 DEF Async
    <3> HIDE DEF zero, woken
    <3>3. QED
      BY <1>2, <3>1, <3>2, Starting DEF Async
  <2>3. QED
    BY <2>1, <2>2
<1>3. QED
  BY <1>1, <1>2

---------------------------------------------------------------------------
(* Types.                                                                  *)

LEMMA TypeInit == Init => TypeInv
<1> SUFFICES ASSUME Init PROVE TypeInv
  OBVIOUS
<1>1. Cardinality(Worker) \in Nat
  BY WorkerAssumption, FS_CardinalityType
<1>2. capacity \in Nat
  BY <1>1 DEF Init
<1>3. Pool = {}
  BY DEF Init, Pool, InState
<1>4. Cardinality(Pool) <= capacity
  BY <1>2, <1>3, FS_EmptySet
<1>5. queue \in Seq(Task)
  BY DEF Init
<1>6. QED
  BY <1>2, <1>4, <1>5, BoundAssumption DEF Init, TypeInv, NoTask

\* What beginning a call does to the client.
LEMMA BeginTypes ==
    ASSUME TypeInv, NEW c \in Client, NEW n \in 1..MaxBatch, NEW done \in SUBSET (1..n),
           BeginCall(c, n, done)
    PROVE  /\ batch' \in [Client -> 0..MaxBatch]
           /\ got' \in [Client -> 0..MaxBatch]
           /\ finished' \in [Client -> SUBSET (1..MaxBatch)]
           /\ \A d \in Client : got'[d] \in 0..batch'[d] /\ finished'[d] \subseteq 1..batch'[d]
           /\ calls' \in [Client -> 0..MaxCalls]
<1>1. n \in 0..MaxBatch /\ 0 \in 0..MaxBatch /\ done \in SUBSET (1..MaxBatch) /\ 0 \in 0..n
  BY BoundAssumption
<1>2. calls[c] + 1 \in 0..MaxCalls
  BY BoundAssumption DEF TypeInv, BeginCall
<1>3. \A d \in Client :
         /\ batch'[d] = IF d = c THEN n ELSE batch[d]
         /\ got'[d] = IF d = c THEN 0 ELSE got[d]
         /\ finished'[d] = IF d = c THEN done ELSE finished[d]
  BY DEF TypeInv, BeginCall
<1>4. QED
  BY <1>1, <1>2, <1>3 DEF TypeInv, BeginCall

LEMMA TypeStep ==
    ASSUME TypeInv, TasksAlive, [Next]_vars
    PROVE  TypeInv'
<1>1. ASSUME NEW c \in Client, NEW n \in 1..MaxBatch, CallInline(c, n)
      PROVE  TypeInv'
  <2>1. 1..n \in SUBSET (1..n) /\ BeginCall(c, n, 1..n)
    BY <1>1 DEF CallInline
  <2>2. UNCHANGED poolVars /\ Pool' = Pool
    BY <1>1 DEF CallInline, poolVars, Pool, InState
  <2>3. QED
    BY <2>1, <2>2, BeginTypes DEF TypeInv, poolVars
<1>2. ASSUME NEW c \in Client, NEW n \in 1..MaxBatch, AsyncAll(c, n) \/ (n = 1 /\ Async(c))
      PROVE  TypeInv'
  <2>1. /\ BeginCall(c, n, {})
        /\ queue' = queue \o Tasks(c, n) \/ (n = 1 /\ queue' = Append(queue, <<c, 1>>))
        /\ worker' \in [Worker -> {"none", "ready", "waiting", "running", "exited"}]
        /\ \A w \in Worker : Running(w)' <=> Running(w)
        /\ Cardinality(Pool') <= capacity
        /\ UNCHANGED <<capacity, task>>
    BY <1>2, Submitting
  <2>2. queue' \in Seq(Task)
    BY <2>1, QueueGrows
  <2>3. \A w \in Worker : IF worker'[w] = "running" THEN task'[w] \in Task ELSE task'[w] = NoTask
    BY <2>1 DEF TypeInv, Running
  <2>4. {} \in SUBSET (1..n)
    OBVIOUS
  <2>5. QED
    BY <2>1, <2>2, <2>3, <2>4, BeginTypes DEF TypeInv
<1>3. ASSUME NEW c \in Client, Get(c)
      PROVE  TypeInv'
  <2>1. got[c] + 1 \in 0..MaxBatch /\ got[c] + 1 \in 0..batch[c]
    BY <1>3, BoundAssumption DEF TypeInv, Get
  <2>2. UNCHANGED poolVars /\ Pool' = Pool
    BY <1>3 DEF Get, poolVars, Pool, InState
  <2>3. QED
    BY <1>3, <2>1, <2>2 DEF TypeInv, Get, poolVars
<1>4. ASSUME NEW c \in Client, EndCall(c)
      PROVE  TypeInv'
  <2>1. 0 \in 0..MaxBatch
    BY BoundAssumption
  <2>2. UNCHANGED poolVars /\ Pool' = Pool
    BY <1>4 DEF EndCall, poolVars, Pool, InState
  <2>3. \A d \in Client :
           /\ batch'[d] = IF d = c THEN 0 ELSE batch[d]
           /\ got'[d] = IF d = c THEN 0 ELSE got[d]
           /\ finished'[d] = IF d = c THEN {} ELSE finished[d]
    BY <1>4 DEF TypeInv, EndCall
  <2>4. QED
    BY <1>4, <2>1, <2>2, <2>3 DEF TypeInv, EndCall, poolVars
<1>5. ASSUME NEW w \in Worker, Look(w)
      PROVE  TypeInv'
  <2>1. \A u \in Worker : worker'[u] = "none" <=> worker[u] = "none"
    BY <1>5 DEF TypeInv, Look, Take, Exit, Wait
  <2>2. Pool' = Pool
    BY <2>1, PoolKept
  <2>3. CASE Take(w)
    <3>1. queue' \in Seq(Task) /\ task'[w] \in Task
      BY <2>3, QueueShrinks
    <3>2. QED
      BY <1>5, <2>2, <2>3, <3>1 DEF TypeInv, Look, Take, clientVars
  <2>4. CASE Exit(w) \/ Wait(w)
    BY <1>5, <2>2, <2>4 DEF TypeInv, Look, Exit, Wait, clientVars
  <2>5. QED
    BY <1>5, <2>3, <2>4 DEF Look
<1>6. ASSUME NEW w \in Worker, Execute(w)
      PROVE  TypeInv'
  <2>1. \A u \in Worker : worker'[u] = "none" <=> worker[u] = "none"
    BY <1>6 DEF TypeInv, Execute
  <2>2. Pool' = Pool
    BY <2>1, PoolKept
  <2>3. task[w] \in Task
    BY <1>6 DEF TypeInv, Execute
  <2>4. PICK c \in Client, i \in 1..MaxBatch : task[w] = <<c, i>>
    BY <2>3 DEF Task
  <2>5. i \in 1..batch[c]
    BY <1>6, <2>4 DEF TasksAlive, Alive, Running, Execute
  <2>6. finished' = [finished EXCEPT ![c] = @ \cup {i}]
    BY <1>6, <2>4 DEF Execute
  <2>7. /\ finished' \in [Client -> SUBSET (1..MaxBatch)]
        /\ \A d \in Client : finished'[d] \subseteq 1..batch[d]
    BY <2>5, <2>6 DEF TypeInv
  <2>8. QED
    BY <1>6, <2>2, <2>7 DEF TypeInv, Execute
<1>7. ASSUME NEW w \in Worker, Spurious(w)
      PROVE  TypeInv'
  <2>1. \A u \in Worker : worker'[u] = "none" <=> worker[u] = "none"
    BY <1>7 DEF TypeInv, Spurious
  <2>2. Pool' = Pool
    BY <2>1, PoolKept
  <2>3. QED
    BY <1>7, <2>2 DEF TypeInv, Spurious, clientVars
<1>8. ASSUME Destroy
      PROVE  TypeInv'
  <2> DEFINE zero == 0
  <2>1. zero \in Nat /\ Cardinality(Pool) + zero <= capacity
    BY PoolIsFinite DEF TypeInv
  <2>2. StartAndWake(zero, InState("waiting"))
    BY <1>8 DEF Destroy
  <2> HIDE DEF zero
  <2>3. /\ worker' \in [Worker -> {"none", "ready", "waiting", "running", "exited"}]
        /\ \A w \in Worker : Running(w)' <=> Running(w)
        /\ Cardinality(Pool') <= capacity
        /\ UNCHANGED <<capacity, task>>
    BY <2>1, <2>2, Starting
  <2>4. QED
    BY <1>8, <2>3 DEF TypeInv, Destroy, clientVars, Running
<1>9. CASE UNCHANGED vars
  BY <1>9 DEF TypeInv, vars, Pool, InState
<1>10. QED
  <2>1. ASSUME NEW c \in Client, Async(c) PROVE TypeInv'
    <3>1. PICK n \in 1..MaxBatch : n = 1
      BY BoundAssumption
    <3>2. QED
      BY <1>2, <2>1, <3>1
  <2>2. QED
    BY <1>1, <1>2, <1>3, <1>4, <1>5, <1>6, <1>7, <1>8, <1>9, <2>1 DEF Next

---------------------------------------------------------------------------
(* What was got was finished.                                              *)

LEMMA GotStep ==
    ASSUME TypeInv, GotFinished, [Next]_vars
    PROVE  GotFinished'
<1>1. ASSUME NEW c \in Client, NEW n \in 1..MaxBatch, NEW done \in SUBSET (1..n),
             BeginCall(c, n, done)
      PROVE  GotFinished'
  <2>1. ASSUME NEW d \in Client PROVE 1..got'[d] \subseteq finished'[d]
    <3>1. CASE d = c
      <4>1. got'[d] = 0
        BY <1>1, <3>1 DEF BeginCall, TypeInv
      <4>2. QED
        BY <4>1
    <3>2. CASE d # c
      BY <1>1, <3>2 DEF BeginCall, TypeInv, GotFinished
    <3>3. QED
      BY <3>1, <3>2
  <2>2. QED
    BY <2>1 DEF GotFinished
<1>2. ASSUME NEW c \in Client, Get(c)
      PROVE  GotFinished'
  <2>1. ASSUME NEW d \in Client PROVE 1..got'[d] \subseteq finished'[d]
    <3>1. CASE d = c
      <4>1. got'[d] = got[d] + 1 /\ got[d] + 1 \in finished[d] /\ got[d] \in Nat /\ finished'[d] = finished[d]
        BY <1>2, <3>1, BoundAssumption DEF Get, TypeInv
      <4>2. \A j \in 1..got[d] + 1 : j \in 1..got[d] \/ j = got[d] + 1
        BY <4>1
      <4>3. QED
        BY <4>1, <4>2 DEF GotFinished
    <3>2. CASE d # c
      BY <1>2, <3>2 DEF Get, TypeInv, GotFinished
    <3>3. QED
      BY <3>1, <3>2
  <2>2. QED
    BY <2>1 DEF GotFinished
<1>3. ASSUME NEW c \in Client, EndCall(c)
      PROVE  GotFinished'
  <2>1. ASSUME NEW d \in Client PROVE 1..got'[d] \subseteq finished'[d]
    <3>1. CASE d = c
      <4>1. got'[d] = 0
        BY <1>3, <3>1 DEF EndCall, TypeInv
      <4>2. QED
        BY <4>1
    <3>2. CASE d # c
      BY <1>3, <3>2 DEF EndCall, TypeInv, GotFinished
    <3>3. QED
      BY <3>1, <3>2
  <2>2. QED
    BY <2>1 DEF GotFinished
<1>4. ASSUME NEW w \in Worker, Execute(w)
      PROVE  GotFinished'
  <2>1. UNCHANGED got /\ \A d \in Client : finished[d] \subseteq finished'[d]
    BY <1>4 DEF Execute, TypeInv
  <2>2. QED
    BY <2>1 DEF GotFinished
<1>5. CASE UNCHANGED <<got, finished>>
  BY <1>5 DEF GotFinished
<1>6. QED
  <2>1. ASSUME NEW c \in Client, NEW n \in 1..MaxBatch, CallInline(c, n) PROVE GotFinished'
    <3>1. 1..n \in SUBSET (1..n) /\ BeginCall(c, n, 1..n)
      BY <2>1 DEF CallInline
    <3>2. QED
      BY <1>1, <3>1
  <2>2. ASSUME NEW c \in Client, NEW n \in 1..MaxBatch, AsyncAll(c, n) PROVE GotFinished'
    <3>1. {} \in SUBSET (1..n) /\ BeginCall(c, n, {})
      BY <2>2 DEF AsyncAll
    <3>2. QED
      BY <1>1, <3>1
  <2>3. ASSUME NEW c \in Client, Async(c) PROVE GotFinished'
    <3>1. PICK n \in 1..MaxBatch : n = 1
      BY BoundAssumption
    <3>2. {} \in SUBSET (1..n) /\ BeginCall(c, n, {})
      BY <2>3, <3>1 DEF Async
    <3>3. QED
      BY <1>1, <3>2
  <2>4. ASSUME NEW w \in Worker, Look(w) \/ Spurious(w) PROVE GotFinished'
    BY <1>5, <2>4 DEF Look, Spurious, clientVars
  <2>5. ASSUME Destroy PROVE GotFinished'
    BY <1>5, <2>5 DEF Destroy, clientVars
  <2>6. CASE UNCHANGED vars
    BY <1>5, <2>6 DEF vars
  <2>7. QED
    BY <1>2, <1>3, <1>4, <2>1, <2>2, <2>3, <2>4, <2>5, <2>6 DEF Next

---------------------------------------------------------------------------
(* The tasks there are: none for a future that is gone, none twice.        *)

TasksInv == TasksAlive /\ TasksDistinct

\* The tasks of other clients do not mind what a client does.
LEMMA AliveElsewhere ==
    ASSUME TypeInv, NEW t \in Task, Alive(t), NEW c \in Client, t[1] # c,
           \A d \in Client \ {c} : batch'[d] = batch[d] /\ finished'[d] = finished[d]
    PROVE  t[2] \in (1..batch'[t[1]]) \ finished'[t[1]]
BY DEF Alive, Task

LEMMA TaskTypes ==
    ASSUME TypeInv
    PROVE  /\ \A i \in 1..Len(queue) : queue[i] \in Task
           /\ \A w \in Worker : Running(w) => task[w] \in Task
BY ElementOfSeq DEF TypeInv, Running

\* A client outside a call has no task left.
LEMMA NoTaskOutside ==
    ASSUME TypeInv, NEW c \in Client, batch[c] = 0, NEW t, Alive(t)
    PROVE  t[1] # c
BY DEF Alive

\* Nor has one that got all of its futures.
LEMMA NoTaskAtEnd ==
    ASSUME TypeInv, GotFinished, NEW c \in Client, got[c] = batch[c], NEW t, Alive(t)
    PROVE  t[1] # c
BY DEF Alive, GotFinished

LEMMA SubmitKeepsTasks ==
    ASSUME TypeInv, TasksInv, NEW c \in Client, NEW n \in 1..MaxBatch,
           AsyncAll(c, n) \/ (n = 1 /\ Async(c))
    PROVE  TasksInv'
<1>1. /\ BeginCall(c, n, {})
      /\ queue' = queue \o Tasks(c, n) \/ (n = 1 /\ queue' = Append(queue, <<c, 1>>))
      /\ \A w \in Worker : Running(w)' <=> Running(w)
      /\ task' = task
  BY Submitting
<1>2. /\ queue' \in Seq(Task)
      /\ Len(queue') = Len(queue) + n
      /\ \A i \in 1..Len(queue) : queue'[i] = queue[i]
      /\ \A i \in 1..Len(queue') :
            i \notin 1..Len(queue) =>
                i - Len(queue) \in 1..n /\ queue'[i] = <<c, i - Len(queue)>>
  BY <1>1, QueueGrows
<1>3. Len(queue) \in Nat
  BY DEF TypeInv
<1>4. /\ \A d \in Client \ {c} : batch'[d] = batch[d] /\ finished'[d] = finished[d]
      /\ batch'[c] = n /\ finished'[c] = {}
  BY <1>1 DEF TypeInv, BeginCall
<1>5. /\ \A i \in 1..Len(queue) : Alive(queue[i]) /\ queue[i] \in Task /\ queue[i][1] # c
      /\ \A w \in Worker : Running(w) => Alive(task[w]) /\ task[w] \in Task /\ task[w][1] # c
  BY <1>1, TaskTypes, NoTaskOutside DEF TasksInv, TasksAlive, BeginCall
<1>6. ASSUME NEW i \in 1..Len(queue') PROVE Alive(queue[i])'
  <2>1. CASE i \in 1..Len(queue)
    <3>1. PICK t \in Task : t = queue[i] /\ Alive(t) /\ t[1] # c
      BY <1>5, <2>1
    <3>2. t[2] \in (1..batch'[t[1]]) \ finished'[t[1]]
      BY <1>4, <3>1, AliveElsewhere
    <3>3. QED
      BY <1>2, <2>1, <3>1, <3>2 DEF Alive
  <2>2. CASE i \notin 1..Len(queue)
    BY <1>2, <1>4, <2>2 DEF Alive
  <2>3. QED
    BY <2>1, <2>2
<1>7. ASSUME NEW w \in Worker, Running(w)' PROVE Alive(task[w])'
  <2>1. PICK t \in Task : t = task[w] /\ Alive(t) /\ t[1] # c
    BY <1>1, <1>5, <1>7
  <2>2. t[2] \in (1..batch'[t[1]]) \ finished'[t[1]]
    BY <1>4, <2>1, AliveElsewhere
  <2>3. QED
    BY <1>1, <2>1, <2>2 DEF Alive
<1>8. ASSUME NEW i \in 1..Len(queue'), NEW j \in 1..Len(queue'), queue'[i] = queue'[j]
      PROVE  i = j
  <2>1. CASE i \in 1..Len(queue) /\ j \in 1..Len(queue)
    BY <1>2, <1>8, <2>1 DEF TasksInv, TasksDistinct
  <2>2. CASE i \in 1..Len(queue) /\ j \notin 1..Len(queue)
    BY <1>2, <1>5, <1>8, <2>2
  <2>3. CASE i \notin 1..Len(queue) /\ j \in 1..Len(queue)
    BY <1>2, <1>5, <1>8, <2>3
  <2>4. CASE i \notin 1..Len(queue) /\ j \notin 1..Len(queue)
    <3>1. i - Len(queue) = j - Len(queue)
      BY <1>2, <1>8, <2>4
    <3>2. QED
      BY <1>2, <1>3, <3>1
  <2>5. QED
    BY <2>1, <2>2, <2>3, <2>4
<1>9. ASSUME NEW i \in 1..Len(queue'), NEW w \in Worker, Running(w)'
      PROVE  queue'[i] # task'[w]
  <2>1. Running(w) /\ task'[w] = task[w]
    BY <1>1, <1>9
  <2>2. CASE i \in 1..Len(queue)
    BY <1>2, <2>1, <2>2 DEF TasksInv, TasksDistinct
  <2>3. CASE i \notin 1..Len(queue)
    BY <1>2, <1>5, <2>1, <2>3
  <2>4. QED
    BY <2>2, <2>3
<1>10. TasksDistinct'
  BY <1>1, <1>8, <1>9 DEF TasksInv, TasksDistinct
<1>11. QED
  BY <1>6, <1>7, <1>10 DEF TasksInv, TasksAlive

LEMMA TakeKeepsTasks ==
    ASSUME TypeInv, TasksInv, NEW w \in Worker, Look(w), Take(w)
    PROVE  TasksInv'
<1>1. /\ Len(queue) \in Nat \ {0}
      /\ Len(queue') = Len(queue) - 1
      /\ \A i \in 1..Len(queue') : i + 1 \in 1..Len(queue) /\ queue'[i] = queue[i + 1]
      /\ task'[w] = queue[1]
  BY QueueShrinks
<1>2. 1 \in 1..Len(queue) /\ \A i \in 1..Len(queue') : i + 1 # 1
  BY <1>1
<1>3. /\ ~Running(w) /\ Running(w)'
      /\ \A u \in Worker \ {w} : (Running(u)' <=> Running(u)) /\ task'[u] = task[u]
  BY DEF Look, Take, Running, TypeInv
<1>4. UNCHANGED <<batch, finished>>
  BY DEF Look, clientVars
<1>5. TasksAlive'
  <2>1. \A i \in 1..Len(queue') : Alive(queue[i])'
    BY <1>1, <1>4 DEF TasksInv, TasksAlive, Alive
  <2>2. \A u \in Worker : Running(u)' => Alive(task[u])'
    BY <1>1, <1>2, <1>3, <1>4 DEF TasksInv, TasksAlive, Alive
  <2>3. QED
    BY <2>1, <2>2 DEF TasksAlive
<1>6. ASSUME NEW i \in 1..Len(queue'), NEW j \in 1..Len(queue'), queue'[i] = queue'[j]
      PROVE  i = j
  <2>1. i + 1 = j + 1
    BY <1>1, <1>6 DEF TasksInv, TasksDistinct
  <2>2. QED
    BY <1>1, <2>1
<1>7. ASSUME NEW u \in Worker, NEW v \in Worker, Running(u)', Running(v)', task'[u] = task'[v]
      PROVE  u = v
  <2>1. ASSUME NEW x \in Worker, x # w, Running(x)' PROVE task'[x] # queue[1]
    BY <1>2, <1>3, <2>1 DEF TasksInv, TasksDistinct
  <2>2. QED
    BY <1>1, <1>3, <1>7, <2>1 DEF TasksInv, TasksDistinct
<1>8. ASSUME NEW i \in 1..Len(queue'), NEW u \in Worker, Running(u)'
      PROVE  queue'[i] # task'[u]
  <2>1. CASE u = w
    BY <1>1, <1>2, <2>1 DEF TasksInv, TasksDistinct
  <2>2. CASE u # w
    BY <1>1, <1>3, <1>8, <2>2 DEF TasksInv, TasksDistinct
  <2>3. QED
    BY <2>1, <2>2
<1>9. QED
  BY <1>5, <1>6, <1>7, <1>8 DEF TasksInv, TasksDistinct

\* Executing a task finishes this one and no other.
LEMMA ExecuteKeepsTasks ==
    ASSUME TypeInv, TasksInv, NEW w \in Worker, Execute(w)
    PROVE  TasksInv'
<1>1. Running(w) /\ task[w] \in Task
  BY DEF Execute, Running, TypeInv
<1>2. PICK c \in Client, k \in 1..MaxBatch : task[w] = <<c, k>>
  BY <1>1 DEF Task
<1>3. finished' = [finished EXCEPT ![c] = @ \cup {k}] /\ UNCHANGED <<queue, batch>>
  BY <1>2 DEF Execute
<1>4. /\ ~Running(w)'
      /\ \A u \in Worker : Running(u)' => Running(u) /\ u # w /\ task'[u] = task[u]
  BY DEF Execute, Running, TypeInv
<1>5. ASSUME NEW t \in Task, Alive(t), t # task[w]
      PROVE  t[2] \in (1..batch'[t[1]]) \ finished'[t[1]]
  <2>1. t[1] \in Client /\ (t[1] # c \/ t[2] # k)
    BY <1>2, <1>5 DEF Task
  <2>2. CASE t[1] # c
    BY <1>3, <1>5, <2>1, <2>2 DEF Alive, TypeInv
  <2>3. CASE t[1] = c /\ t[2] # k
    BY <1>3, <1>5, <2>1, <2>3 DEF Alive, TypeInv
  <2>4. QED
    BY <2>1, <2>2, <2>3
<1>6. ASSUME NEW i \in 1..Len(queue') PROVE Alive(queue[i])'
  <2>1. PICK t \in Task : t = queue[i] /\ Alive(t) /\ t # task[w]
    BY <1>1, <1>3, TaskTypes DEF TasksInv, TasksAlive, TasksDistinct
  <2>2. QED
    BY <1>3, <1>5, <2>1 DEF Alive
<1>7. ASSUME NEW u \in Worker, Running(u)' PROVE Alive(task[u])'
  <2>1. PICK t \in Task : t = task[u] /\ Alive(t) /\ t # task[w]
    BY <1>1, <1>4, <1>7, TaskTypes DEF TasksInv, TasksAlive, TasksDistinct
  <2>2. QED
    BY <1>4, <1>5, <1>7, <2>1 DEF Alive
<1>8. TasksDistinct'
  BY <1>3, <1>4 DEF TasksInv, TasksDistinct
<1>9. QED
  BY <1>6, <1>7, <1>8 DEF TasksInv, TasksAlive

LEMMA TasksStep ==
    ASSUME TypeInv, GotFinished, TasksInv, [Next]_vars
    PROVE  TasksInv'
<1>1. ASSUME NEW c \in Client, UNCHANGED poolVars,
             \A d \in Client \ {c} : batch'[d] = batch[d] /\ finished'[d] = finished[d],
             \A t \in Task : Alive(t) => t[1] # c
      PROVE  TasksInv'
  <2>1. ASSUME NEW i \in 1..Len(queue') PROVE Alive(queue[i])'
    <3>1. PICK t \in Task : t = queue[i] /\ Alive(t) /\ t[1] # c
      BY <1>1, TaskTypes DEF TasksInv, TasksAlive, poolVars
    <3>2. t[2] \in (1..batch'[t[1]]) \ finished'[t[1]]
      BY <1>1, <3>1, AliveElsewhere
    <3>3. QED
      BY <1>1, <3>1, <3>2 DEF Alive, poolVars
  <2>2. ASSUME NEW u \in Worker, Running(u)' PROVE Alive(task[u])'
    <3>1. PICK t \in Task : t = task[u] /\ Alive(t) /\ t[1] # c
      BY <1>1, <2>2, TaskTypes DEF TasksInv, TasksAlive, poolVars, Running
    <3>2. t[2] \in (1..batch'[t[1]]) \ finished'[t[1]]
      BY <1>1, <3>1, AliveElsewhere
    <3>3. QED
      BY <1>1, <3>1, <3>2 DEF Alive, poolVars
  <2>3. TasksDistinct'
    BY <1>1 DEF TasksInv, TasksDistinct, Running, poolVars
  <2>4. QED
    BY <2>1, <2>2, <2>3 DEF TasksInv, TasksAlive
<1>2. ASSUME UNCHANGED <<queue, task, batch, finished>>,
             \A u \in Worker : Running(u)' <=> Running(u)
      PROVE  TasksInv'
  BY <1>2 DEF TasksInv, TasksAlive, TasksDistinct, Alive
<1>3. ASSUME NEW c \in Client, NEW n \in 1..MaxBatch, CallInline(c, n) PROVE TasksInv'
  <2>1. UNCHANGED poolVars /\ batch[c] = 0
    BY <1>3 DEF CallInline, BeginCall
  <2>2. \A d \in Client \ {c} : batch'[d] = batch[d] /\ finished'[d] = finished[d]
    BY <1>3 DEF CallInline, BeginCall, TypeInv
  <2>3. \A t \in Task : Alive(t) => t[1] # c
    BY <2>1, NoTaskOutside
  <2>4. QED
    BY <1>1, <2>1, <2>2, <2>3
<1>4. ASSUME NEW c \in Client, EndCall(c) PROVE TasksInv'
  <2>1. UNCHANGED poolVars /\ got[c] = batch[c]
    BY <1>4 DEF EndCall
  <2>2. \A d \in Client \ {c} : batch'[d] = batch[d] /\ finished'[d] = finished[d]
    BY <1>4 DEF EndCall, TypeInv
  <2>3. \A t \in Task : Alive(t) => t[1] # c
    BY <2>1, NoTaskAtEnd
  <2>4. QED
    BY <1>1, <2>1, <2>2, <2>3
<1>5. ASSUME NEW c \in Client, Async(c) PROVE TasksInv'
  <2>1. PICK n \in 1..MaxBatch : n = 1
    BY BoundAssumption
  <2>2. QED
    BY <1>5, <2>1, SubmitKeepsTasks
<1>6. ASSUME NEW c \in Client, Get(c) PROVE TasksInv'
  BY <1>2, <1>6 DEF Get, poolVars, Running
<1>7. ASSUME NEW w \in Worker, Look(w) PROVE TasksInv'
  <2>1. CASE Exit(w) \/ Wait(w)
    <3>1. \A u \in Worker : Running(u)' <=> Running(u)
      BY <1>7, <2>1 DEF Look, Exit, Wait, Running, TypeInv
    <3>2. QED
      BY <1>2, <1>7, <2>1, <3>1 DEF Look, Exit, Wait, clientVars
  <2>2. QED
    BY <1>7, <2>1, TakeKeepsTasks DEF Look
<1>8. ASSUME NEW w \in Worker, Spurious(w) PROVE TasksInv'
  <2>1. \A u \in Worker : Running(u)' <=> Running(u)
    BY <1>8 DEF Spurious, Running, TypeInv
  <2>2. QED
    BY <1>2, <1>8, <2>1 DEF Spurious, clientVars
<1>9. ASSUME Destroy PROVE TasksInv'
  <2> DEFINE zero == 0
  <2>1. zero \in Nat /\ Cardinality(Pool) + zero <= capacity /\ StartAndWake(zero, InState("waiting"))
    BY <1>9, PoolIsFinite DEF TypeInv, Destroy
  <2> HIDE DEF zero
  <2>2. task' = task /\ \A u \in Worker : Running(u)' <=> Running(u)
    BY <2>1, Starting
  <2>3. QED
    BY <1>2, <1>9, <2>2 DEF Destroy, clientVars
<1>10. CASE UNCHANGED vars
  BY <1>2, <1>10 DEF vars, Running
<1>11. QED
  BY <1>3, <1>4, <1>5, <1>6, <1>7, <1>8, <1>9, <1>10, SubmitKeepsTasks, ExecuteKeepsTasks DEF Next

---------------------------------------------------------------------------
(* Nobody sleeps beside work.                                              *)

LEMMA SleepStep ==
    ASSUME TypeInv, NobodySleeps, [Next]_vars
    PROVE  NobodySleeps'
<1>1. ASSUME NEW c \in Client, NEW n \in 1..MaxBatch, AsyncAll(c, n) PROVE NobodySleeps'
  <2>1. PICK k, woken :
           /\ StartAndWake(k, woken)
           /\ woken = Woken
    BY <1>1 DEF AsyncAll
  <2>2. InState("waiting")' \subseteq InState("waiting") \ Woken
    BY <2>1 DEF StartAndWake, InState
  <2>3. UNCHANGED single
    BY <1>1 DEF AsyncAll
  <2>4. QED
    BY <2>2, <2>3 DEF Woken, NobodySleeps
<1>2. ASSUME NEW c \in Client, Async(c) PROVE NobodySleeps'
  BY <1>2 DEF Async, NobodySleeps
<1>3. ASSUME NEW w \in Worker, Look(w) PROVE NobodySleeps'
  <2>1. UNCHANGED single
    BY <1>3 DEF Look, clientVars
  <2>2. CASE Take(w)
    <3>1. InState("waiting")' \subseteq InState("waiting") /\ queue # <<>>
      BY <2>2 DEF Take, InState, TypeInv
    <3>2. QED
      BY <2>1, <3>1 DEF NobodySleeps
  <2>3. CASE queue = <<>> /\ UNCHANGED queue
    BY <2>3 DEF NobodySleeps
  <2>4. QED
    BY <1>3, <2>2, <2>3 DEF Look, Exit, Wait
<1>4. ASSUME InState("waiting")' \subseteq InState("waiting"), UNCHANGED <<queue, single>>
      PROVE  NobodySleeps'
  BY <1>4 DEF NobodySleeps
<1>5. ASSUME NEW w \in Worker, Execute(w) \/ Spurious(w) PROVE NobodySleeps'
  <2>1. InState("waiting")' \subseteq InState("waiting")
    BY <1>5 DEF Execute, Spurious, InState, TypeInv
  <2>2. QED
    BY <1>4, <1>5, <2>1 DEF Execute, Spurious, clientVars
<1>6. ASSUME Destroy PROVE NobodySleeps'
  <2>1. InState("waiting")' \subseteq InState("waiting")
    BY <1>6 DEF Destroy, StartAndWake, InState
  <2>2. QED
    BY <1>4, <1>6, <2>1 DEF Destroy, clientVars
<1>7. ASSUME UNCHANGED <<worker, queue, single>> PROVE NobodySleeps'
  BY <1>7 DEF NobodySleeps, InState
<1>8. QED
  BY <1>1, <1>2, <1>3, <1>5, <1>6, <1>7
     DEF Next, CallInline, Get, EndCall, poolVars, vars

---------------------------------------------------------------------------
LEMMA IInvInit == Init => IInv
<1> SUFFICES ASSUME Init PROVE IInv
  OBVIOUS
<1>1. Len(queue) = 0 /\ queue = <<>>
  BY DEF Init
<1>2. \A w \in Worker : ~Running(w)
  BY DEF Init, Running
<1>3. GotFinished
  BY DEF Init, GotFinished
<1>4. TasksAlive /\ TasksDistinct
  BY <1>1, <1>2 DEF TasksAlive, TasksDistinct
<1>5. QED
  BY <1>1, <1>3, <1>4, TypeInit DEF IInv, NobodySleeps

LEMMA IInvStep == IInv /\ [Next]_vars => IInv'
BY TypeStep, GotStep, TasksStep, SleepStep DEF IInv, TasksInv

(***************************************************************************)
(* PoolIsSound: every task in the queue or in a worker is of a call that   *)
(* still holds its future, and waits for it; the workers stay within the   *)
(* capacity; and as long as async is not used none of them sleeps while    *)
(* there is a task.                                                        *)
(***************************************************************************)
THEOREM PoolIsSoundHere == Spec => []PoolIsSound
<1>1. IInv => PoolIsSound
  <2> SUFFICES ASSUME IInv PROVE PoolIsSound
    OBVIOUS
  <2>1. TypeOK
    BY DEF IInv, TypeInv, TypeOK
  <2>2. FuturesAlive
    BY DEF IInv, TasksAlive, Alive, Running, FuturesAlive, InState
  <2>3. QED
    BY <2>1, <2>2 DEF IInv, PoolIsSound
<1>2. QED
  BY <1>1, IInvInit, IInvStep, PTL DEF Spec

---------------------------------------------------------------------------
(* Monitors: mutual exclusion through waits and nested calls, the values   *)
(* passed on in order, and the scopes of rw_mutex.                         *)

Instr == {"lock", "unlock", "notify", "await_room", "await_value", "await_value_timed",
          "await_quantity", "put", "take", "take_back", "clear", "take_quantity", "add_quantity"}

\* What can be left of a call outside of its lock, inside, and inside twice.
Outside ==
    {<<"lock", "await_room", "put", "unlock", "notify">>,
     <<"notify">>,
     <<>>,
     <<"lock", "put", "unlock", "notify">>,
     <<"lock", "await_value", "take", "unlock", "notify">>,
     <<"lock", "await_value", "take", "unlock">>,
     <<"lock", "await_value_timed", "take", "unlock", "notify">>,
     <<"lock", "clear", "unlock", "notify">>,
     <<"lock", "await_value", "unlock">>,
     <<"lock", "lock", "await_value", "take", "unlock", "notify",
       "lock", "await_room", "put", "unlock", "notify", "unlock", "notify">>,
     <<"lock", "take_back", "unlock", "notify">>,
     <<"lock", "await_quantity", "take_quantity", "unlock">>,
     <<"lock", "add_quantity", "unlock", "notify">>}
Inside ==
    {<<"await_room", "put", "unlock", "notify">>,
     <<"put", "unlock", "notify">>,
     <<"unlock", "notify">>,
     <<"await_value", "take", "unlock", "notify">>,
     <<"take", "unlock", "notify">>,
     <<"await_value", "take", "unlock">>,
     <<"take", "unlock">>,
     <<"unlock">>,
     <<"await_value_timed", "take", "unlock", "notify">>,
     <<"clear", "unlock", "notify">>,
     <<"await_value", "unlock">>,
     <<"lock", "await_value", "take", "unlock", "notify", "lock",
       "await_room", "put", "unlock", "notify", "unlock", "notify">>,
     <<"notify", "lock", "await_room", "put", "unlock", "notify", "unlock", "notify">>,
     <<"lock", "await_room", "put", "unlock", "notify", "unlock", "notify">>,
     <<"notify", "unlock", "notify">>,
     <<"take_back", "unlock", "notify">>,
     <<"await_quantity", "take_quantity", "unlock">>,
     <<"take_quantity", "unlock">>,
     <<"add_quantity", "unlock", "notify">>}
Nested ==
    {<<"await_value", "take", "unlock", "notify", "lock", "await_room",
       "put", "unlock", "notify", "unlock", "notify">>,
     <<"take", "unlock", "notify", "lock", "await_room", "put",
       "unlock", "notify", "unlock", "notify">>,
     <<"unlock", "notify", "lock", "await_room", "put", "unlock",
       "notify", "unlock", "notify">>,
     <<"await_room", "put", "unlock", "notify", "unlock", "notify">>,
     <<"put", "unlock", "notify", "unlock", "notify">>,
     <<"unlock", "notify", "unlock", "notify">>}

\* What is left of the calls that only a chan has.
ChanOnly ==
    {<<"lock", "put", "unlock", "notify">>, <<"lock", "take_back", "unlock", "notify">>,
     <<"take_back", "unlock", "notify">>}

\* What is left of a call agrees with how often its thread has the lock.
Fits(p, d) ==
    \/ d = 0 /\ p \in Outside
    \/ d = 1 /\ p \in Inside
    \/ d = 2 /\ p \in Nested

---------------------------------------------------------------------------
(* Programs and what is left of them.                                      *)

\* What a step leaves of a call fits too, and comes after the right test.
StepFits(p, d) ==
    LET h == Head(p)
        n == Tail(p)
    IN  /\ h \in Instr
        /\ h = "lock" => Fits(n, d + 1)
        /\ h = "unlock" => Fits(n, d - 1)
        /\ h \notin {"lock", "unlock"} => Fits(n, d)
        /\ h \notin {"lock", "notify"} => d >= 1
        /\ h = "await_value_timed" => d = 1
        /\ h = "take_back" => p \in ChanOnly
        /\ n \in ChanOnly => p \in ChanOnly
        /\ n # <<>> /\ Head(n) = "put" => h = "await_room" \/ p \in ChanOnly
        /\ n # <<>> /\ Head(n) = "take" => h \in {"await_value", "await_value_timed"}
        /\ n # <<>> /\ Head(n) = "take_quantity" => h = "await_quantity"

LEMMA StepsFit ==
    ASSUME NEW p, NEW d, Fits(p, d), p # <<>>
    PROVE  StepFits(p, d)
<1> USE DEF StepFits, Fits, Outside, Inside, Nested, ChanOnly, Instr
<1>1. CASE d = 0 /\ p \in Outside
  <2>1. CASE p = <<"lock", "await_room", "put", "unlock", "notify">>
    BY <1>1, <2>1
  <2>2. CASE p = <<"notify">>
    BY <1>1, <2>2
  <2>3. CASE p = <<"lock", "put", "unlock", "notify">>
    BY <1>1, <2>3
  <2>4. CASE p = <<"lock", "await_value", "take", "unlock", "notify">>
    BY <1>1, <2>4
  <2>5. CASE p = <<"lock", "await_value", "take", "unlock">>
    BY <1>1, <2>5
  <2>6. CASE p = <<"lock", "await_value_timed", "take", "unlock", "notify">>
    BY <1>1, <2>6
  <2>7. CASE p = <<"lock", "clear", "unlock", "notify">>
    BY <1>1, <2>7
  <2>8. CASE p = <<"lock", "await_value", "unlock">>
    BY <1>1, <2>8
  <2>9. CASE p = <<"lock", "lock", "await_value", "take", "unlock", "notify", "lock", "await_room", "put", "unlock", "notify", "unlock", "notify">>
    BY <1>1, <2>9
  <2>10. CASE p = <<"lock", "take_back", "unlock", "notify">>
    BY <1>1, <2>10
  <2>11. CASE p = <<"lock", "await_quantity", "take_quantity", "unlock">>
    BY <1>1, <2>11
  <2>12. CASE p = <<"lock", "add_quantity", "unlock", "notify">>
    BY <1>1, <2>12
  <2> QED BY <1>1, <2>1, <2>2, <2>3, <2>4, <2>5, <2>6, <2>7, <2>8, <2>9, <2>10, <2>11, <2>12
<1>2. CASE d = 1 /\ p \in Inside
  <2>1. CASE p = <<"await_room", "put", "unlock", "notify">>
    BY <1>2, <2>1
  <2>2. CASE p = <<"put", "unlock", "notify">>
    BY <1>2, <2>2
  <2>3. CASE p = <<"unlock", "notify">>
    BY <1>2, <2>3
  <2>4. CASE p = <<"await_value", "take", "unlock", "notify">>
    BY <1>2, <2>4
  <2>5. CASE p = <<"take", "unlock", "notify">>
    BY <1>2, <2>5
  <2>6. CASE p = <<"await_value", "take", "unlock">>
    BY <1>2, <2>6
  <2>7. CASE p = <<"take", "unlock">>
    BY <1>2, <2>7
  <2>8. CASE p = <<"unlock">>
    BY <1>2, <2>8
  <2>9. CASE p = <<"await_value_timed", "take", "unlock", "notify">>
    BY <1>2, <2>9
  <2>10. CASE p = <<"clear", "unlock", "notify">>
    BY <1>2, <2>10
  <2>11. CASE p = <<"await_value", "unlock">>
    BY <1>2, <2>11
  <2>12. CASE p = <<"lock", "await_value", "take", "unlock", "notify", "lock", "await_room", "put", "unlock", "notify", "unlock", "notify">>
    BY <1>2, <2>12
  <2>13. CASE p = <<"notify", "lock", "await_room", "put", "unlock", "notify", "unlock", "notify">>
    BY <1>2, <2>13
  <2>14. CASE p = <<"lock", "await_room", "put", "unlock", "notify", "unlock", "notify">>
    BY <1>2, <2>14
  <2>15. CASE p = <<"notify", "unlock", "notify">>
    BY <1>2, <2>15
  <2>16. CASE p = <<"take_back", "unlock", "notify">>
    BY <1>2, <2>16
  <2>17. CASE p = <<"await_quantity", "take_quantity", "unlock">>
    BY <1>2, <2>17
  <2>18. CASE p = <<"take_quantity", "unlock">>
    BY <1>2, <2>18
  <2>19. CASE p = <<"add_quantity", "unlock", "notify">>
    BY <1>2, <2>19
  <2> QED BY <1>2, <2>1, <2>2, <2>3, <2>4, <2>5, <2>6, <2>7, <2>8, <2>9, <2>10, <2>11, <2>12, <2>13, <2>14, <2>15, <2>16, <2>17, <2>18, <2>19
<1>3. CASE d = 2 /\ p \in Nested
  <2>1. CASE p = <<"await_value", "take", "unlock", "notify", "lock", "await_room", "put", "unlock", "notify", "unlock", "notify">>
    BY <1>3, <2>1
  <2>2. CASE p = <<"take", "unlock", "notify", "lock", "await_room", "put", "unlock", "notify", "unlock", "notify">>
    BY <1>3, <2>2
  <2>3. CASE p = <<"unlock", "notify", "lock", "await_room", "put", "unlock", "notify", "unlock", "notify">>
    BY <1>3, <2>3
  <2>4. CASE p = <<"await_room", "put", "unlock", "notify", "unlock", "notify">>
    BY <1>3, <2>4
  <2>5. CASE p = <<"put", "unlock", "notify", "unlock", "notify">>
    BY <1>3, <2>5
  <2>6. CASE p = <<"unlock", "notify", "unlock", "notify">>
    BY <1>3, <2>6
  <2> QED BY <1>3, <2>1, <2>2, <2>3, <2>4, <2>5, <2>6
<1> QED BY <1>1, <1>2, <1>3 DEF Fits

\* The guarded forms of one and of two instructions.
LEMMA GuardedOne ==
    ASSUME NEW a \in Instr
    PROVE  /\ M!Guarded(<<a>>) = <<"lock", a, "unlock">>
           /\ M!Notified(<<a>>) = <<"lock", a, "unlock", "notify">>
<1> DEFINE g == <<"lock">> \o <<a>> \o <<"unlock">>
           w == <<"lock", a, "unlock">>
<1>1. g = w
  <2>1. g \in Seq(Instr) /\ w \in Seq(Instr)
    BY DEF Instr
  <2>2. Len(g) = 3 /\ \A i \in 1..3 : g[i] = w[i]
    OBVIOUS
  <2> QED BY <2>1, <2>2, SeqEqual
<1>2. w \o <<"notify">> = <<"lock", a, "unlock", "notify">>
  <2> DEFINE x == w \o <<"notify">>
             y == <<"lock", a, "unlock", "notify">>
  <2>1. x \in Seq(Instr) /\ y \in Seq(Instr)
    BY DEF Instr
  <2>2. Len(x) = 4 /\ \A i \in 1..4 : x[i] = y[i]
    OBVIOUS
  <2> QED BY <2>1, <2>2, SeqEqual
<1> QED BY <1>1, <1>2 DEF M!Guarded, M!Notified

LEMMA GuardedTwo ==
    ASSUME NEW a \in Instr, NEW b \in Instr
    PROVE  /\ M!Guarded(<<a, b>>) = <<"lock", a, b, "unlock">>
           /\ M!Notified(<<a, b>>) = <<"lock", a, b, "unlock", "notify">>
<1> DEFINE g == <<"lock">> \o <<a, b>> \o <<"unlock">>
           w == <<"lock", a, b, "unlock">>
<1>1. g = w
  <2>1. g \in Seq(Instr) /\ w \in Seq(Instr)
    BY DEF Instr
  <2>2. Len(g) = 4 /\ \A i \in 1..4 : g[i] = w[i]
    OBVIOUS
  <2> QED BY <2>1, <2>2, SeqEqual
<1>2. w \o <<"notify">> = <<"lock", a, b, "unlock", "notify">>
  <2> DEFINE x == w \o <<"notify">>
             y == <<"lock", a, b, "unlock", "notify">>
  <2>1. x \in Seq(Instr) /\ y \in Seq(Instr)
    BY DEF Instr
  <2>2. Len(x) = 5 /\ \A i \in 1..5 : x[i] = y[i]
    OBVIOUS
  <2> QED BY <2>1, <2>2, SeqEqual
<1> QED BY <1>1, <1>2 DEF M!Guarded, M!Notified

\* swap, whose two halves are calls of their own inside of its lock.
LEMMA SwapProgram ==
    M!Notified(M!Notified(<<"await_value", "take">>) \o M!Notified(<<"await_room", "put">>)) =
        <<"lock", "lock", "await_value", "take", "unlock", "notify",
          "lock", "await_room", "put", "unlock", "notify", "unlock", "notify">>
<1> DEFINE a == <<"lock", "await_value", "take", "unlock", "notify">>
           b == <<"lock", "await_room", "put", "unlock", "notify">>
           c == <<"lock", "await_value", "take", "unlock", "notify",
                  "lock", "await_room", "put", "unlock", "notify">>
           x == (<<"lock">> \o c \o <<"unlock">>) \o <<"notify">>
           y == <<"lock", "lock", "await_value", "take", "unlock", "notify",
                  "lock", "await_room", "put", "unlock", "notify", "unlock", "notify">>
<1>1. M!Notified(<<"await_value", "take">>) = a /\ M!Notified(<<"await_room", "put">>) = b
  BY GuardedTwo DEF Instr
<1>2. a \o b = c
  <2>1. a \o b \in Seq(Instr) /\ c \in Seq(Instr)
    BY DEF Instr
  <2>2. Len(a \o b) = 10 /\ \A i \in 1..10 : (a \o b)[i] = c[i]
    OBVIOUS
  <2> QED BY <2>1, <2>2, SeqEqual
<1>3. x = y
  <2>1. c \in Seq(Instr) /\ y \in Seq(Instr) /\ Len(c) = 10
    BY DEF Instr
  <2>2. x \in Seq(Instr) /\ Len(x) = 13
    BY <2>1 DEF Instr
  <2>3. \A i \in 1..13 : x[i] = y[i]
    BY <2>1
  <2> QED BY <2>2, <2>3, <2>1, SeqEqual
<1> QED BY <1>1, <1>2, <1>3 DEF M!Guarded, M!Notified

\* A call begins with a program that fits, and with a chan's if it is of a chan.
LEMMA ProgramsFit ==
    ASSUME load.kind \in {"pcbuf", "mvar", "chan", "qsem"}, NEW c \in M!CallsOf(load.kind)
    PROVE  /\ M!Program(c) \in Outside
           /\ load.kind # "chan" => M!Program(c) \notin ChanOnly
           /\ M!Program(c) # <<>> /\ Head(M!Program(c)) = "lock"
<1>1. c \in {"push", "pop", "pop_timed", "clear", "read", "swap", "unget", "wait", "signal"}
      /\ (c = "unget" => load.kind = "chan")
  BY DEF M!CallsOf
<1>2. CASE c = "push" /\ load.kind = "chan"
  <2>1. M!Program(c) = <<"lock", "put", "unlock", "notify">>
    BY <1>2, GuardedOne DEF M!Program, Instr
  <2> QED BY <2>1, <1>1, <1>2 DEF Outside, ChanOnly
<1>3. CASE c = "push" /\ load.kind # "chan"
  <2>1. M!Program(c) = <<"lock", "await_room", "put", "unlock", "notify">>
    BY <1>3, GuardedTwo DEF M!Program, Instr
  <2> QED BY <2>1, <1>1, <1>3 DEF Outside, ChanOnly
<1>4. CASE c = "pop" /\ load.kind = "chan"
  <2>1. M!Program(c) = <<"lock", "await_value", "take", "unlock">>
    BY <1>4, GuardedTwo DEF M!Program, Instr
  <2> QED BY <2>1, <1>1, <1>4 DEF Outside, ChanOnly
<1>5. CASE c = "pop" /\ load.kind # "chan"
  <2>1. M!Program(c) = <<"lock", "await_value", "take", "unlock", "notify">>
    BY <1>5, GuardedTwo DEF M!Program, Instr
  <2> QED BY <2>1, <1>1, <1>5 DEF Outside, ChanOnly
<1>6. CASE c = "pop_timed"
  <2>1. M!Program(c) = <<"lock", "await_value_timed", "take", "unlock", "notify">>
    BY <1>6, GuardedTwo DEF M!Program, Instr
  <2> QED BY <2>1, <1>1, <1>6 DEF Outside, ChanOnly
<1>7. CASE c = "clear"
  <2>1. M!Program(c) = <<"lock", "clear", "unlock", "notify">>
    BY <1>7, GuardedOne DEF M!Program, Instr
  <2> QED BY <2>1, <1>1, <1>7 DEF Outside, ChanOnly
<1>8. CASE c = "read"
  <2>1. M!Program(c) = <<"lock", "await_value", "unlock">>
    BY <1>8, GuardedOne DEF M!Program, Instr
  <2> QED BY <2>1, <1>1, <1>8 DEF Outside, ChanOnly
<1>9. CASE c = "swap"
  <2>1. M!Program(c) = <<"lock", "lock", "await_value", "take", "unlock", "notify",
                      "lock", "await_room", "put", "unlock", "notify", "unlock", "notify">>
    BY <1>9, SwapProgram DEF M!Program, Instr
  <2> QED BY <2>1, <1>1, <1>9 DEF Outside, ChanOnly
<1>10. CASE c = "unget"
  <2>1. M!Program(c) = <<"lock", "take_back", "unlock", "notify">>
    BY <1>10, GuardedOne DEF M!Program, Instr
  <2> QED BY <2>1, <1>1, <1>10 DEF Outside, ChanOnly
<1>11. CASE c = "wait"
  <2>1. M!Program(c) = <<"lock", "await_quantity", "take_quantity", "unlock">>
    BY <1>11, GuardedTwo DEF M!Program, Instr
  <2> QED BY <2>1, <1>1, <1>11 DEF Outside, ChanOnly
<1>12. CASE c = "signal"
  <2>1. M!Program(c) = <<"lock", "add_quantity", "unlock", "notify">>
    BY <1>12, GuardedOne DEF M!Program, Instr
  <2> QED BY <2>1, <1>1, <1>12 DEF Outside, ChanOnly
<1> QED BY <1>1, <1>2, <1>3, <1>4, <1>5, <1>6, <1>7, <1>8, <1>9, <1>10, <1>11, <1>12

---------------------------------------------------------------------------
(* The inductive invariant.                                                *)

Awaits == {"await_room", "await_value", "await_value_timed", "await_quantity"}
Asleep == {"wait", "woken", "expired"}

MTypeInv ==
    /\ load \in Workload
    /\ owner \in Thread \cup {NoThread} /\ cnt \in Int
    /\ saved \in [Thread -> Int] /\ depth \in [Thread -> Nat]
    /\ pc \in [Thread -> {"run", "end"} \cup Asleep]
    /\ toDo \in [Thread -> Seq(M!CallsOf(load.kind))]
    /\ prog \in [Thread -> Outside \cup Inside \cup Nested]
    /\ q \in Seq(Nat) /\ sent \in Seq(Nat) /\ received \in Seq(Nat) /\ quantity \in Nat

\* Where a thread is fits the locks it has taken; who sleeps does so in a test.
PlaceInv ==
    \A t \in Thread :
        /\ Fits(prog[t], depth[t])
        /\ load.kind # "chan" => prog[t] \notin ChanOnly
        /\ pc[t] = "end" => prog[t] = <<>>
        /\ pc[t] \in Asleep => prog[t] # <<>> /\ Head(prog[t]) \in Awaits
        /\ pc[t] = "expired" => Head(prog[t]) = "await_value_timed"

\* The mutex is of whoever runs inside, as often as it was taken, and what a
\* sleeper put away is what it needs when it comes back.
MutexInv ==
    /\ IF M!Recursive THEN cnt >= 0 ELSE cnt = -1
    /\ \A t \in Thread : owner = t <=> pc[t] = "run" /\ depth[t] > 0
    /\ \A t \in Thread : owner = t => holder = t /\ (M!Recursive => cnt = depth[t])
    /\ owner = NoThread /\ M!Recursive => holder \notin Thread /\ cnt = 0
    /\ ~M!Recursive => \A t \in Thread : depth[t] <= 1
    /\ \A t \in Thread : pc[t] \in Asleep => saved[t] = IF M!Recursive THEN depth[t] ELSE -1

\* What was tested still holds where it is used.
DataInv ==
    /\ received \o q = sent
    /\ load.kind # "chan" => Len(q) <= load.capacity
    /\ \A t \in Thread : M!At(t, "put") /\ load.kind # "chan" => Len(q) < load.capacity
    /\ \A t \in Thread : M!At(t, "take") => q # <<>>
    /\ \A t \in Thread : M!At(t, "take_quantity") => quantity >= 1

MonitorInv == MTypeInv /\ PlaceInv /\ MutexInv /\ DataInv

---------------------------------------------------------------------------
\* A thread at an instruction of the inside of a lock is the one holder.
LEMMA AtInside ==
    ASSUME MTypeInv, PlaceInv, MutexInv, NEW t \in Thread, NEW name, M!At(t, name)
    PROVE  /\ StepFits(prog[t], depth[t]) /\ Head(prog[t]) = name /\ depth[t] \in Nat
           /\ name \notin {"lock", "notify"} =>
                  depth[t] >= 1 /\ owner = t /\ holder = t /\ (M!Recursive => cnt = depth[t])
<1>1. pc[t] = "run" /\ prog[t] # <<>> /\ Head(prog[t]) = name
  BY DEF M!At
<1>2. StepFits(prog[t], depth[t])
  BY <1>1, StepsFit DEF PlaceInv
<1>3. depth[t] \in Nat
  BY DEF MTypeInv
<1>4. name \notin {"lock", "notify"} => depth[t] >= 1
  BY <1>1, <1>2 DEF StepFits
<1> QED BY <1>1, <1>2, <1>3, <1>4 DEF MutexInv

\* Only one thread at a time is at an instruction of the inside.
LEMMA InsideAlone ==
    ASSUME MTypeInv, PlaceInv, MutexInv, NEW t \in Thread, NEW u \in Thread, NEW a, NEW b,
           M!At(t, a), M!At(u, b), a \notin {"lock", "notify"}, b \notin {"lock", "notify"}
    PROVE  t = u
BY AtInside

\* A step to the next instruction of a call.
LEMMA StepKeepsPlace ==
    ASSUME MTypeInv, PlaceInv, MutexInv, NEW t \in Thread, NEW name, M!At(t, name), M!Step(t),
           NEW d, depth'[t] = d, \A u \in Thread : u # t => depth'[u] = depth[u],
           Fits(Tail(prog[t]), d), load' = load, pc'[t] = "run",
           \A u \in Thread : pc'[u] = pc[u] \/ (pc[u] = "wait" /\ pc'[u] = "woken")
    PROVE  PlaceInv' /\ prog' \in [Thread -> Outside \cup Inside \cup Nested]
<1>1. StepFits(prog[t], depth[t]) /\ prog[t] # <<>>
  BY AtInside DEF M!At
<1>2. prog' = [prog EXCEPT ![t] = Tail(prog[t])]
  BY DEF M!Step
<1>3. Tail(prog[t]) \in Outside \cup Inside \cup Nested
  BY DEF Fits
<1>4. prog' \in [Thread -> Outside \cup Inside \cup Nested]
  BY <1>2, <1>3 DEF MTypeInv
<1>5. ASSUME NEW u \in Thread
      PROVE  /\ Fits(prog'[u], depth'[u])
             /\ load'.kind # "chan" => prog'[u] \notin ChanOnly
             /\ pc'[u] = "end" => prog'[u] = <<>>
             /\ pc'[u] \in Asleep => prog'[u] # <<>> /\ Head(prog'[u]) \in Awaits
             /\ pc'[u] = "expired" => Head(prog'[u]) = "await_value_timed"
  <2>1. CASE u = t
    <3>1. prog'[t] = Tail(prog[t]) /\ depth'[t] = d
      BY <1>2 DEF MTypeInv
    <3>2. load.kind # "chan" => prog'[t] \notin ChanOnly
      BY <3>1, <1>1 DEF StepFits, PlaceInv
    <3> QED BY <2>1, <3>1, <3>2 DEF Asleep
  <2>2. CASE u # t
    <3>1. prog'[u] = prog[u] /\ depth'[u] = depth[u]
      BY <2>2, <1>2 DEF MTypeInv
    <3> QED BY <3>1 DEF PlaceInv, Asleep
  <2> QED BY <2>1, <2>2
<1> QED BY <1>4, <1>5 DEF PlaceInv

---------------------------------------------------------------------------
(* Every action keeps the invariant.                                       *)

LEMMA NothingLeft ==
    ASSUME NEW d, Fits(<<>>, d)
    PROVE  d = 0
<1>1. <<>> \notin Inside
  BY DEF Inside
<1>2. <<>> \notin Nested
  BY DEF Nested
<1> QED BY <1>1, <1>2 DEF Fits

\* A workload and what is asked of its calls.
LEMMA LoadFits ==
    ASSUME M!WorkloadAssumption, MTypeInv
    PROVE  /\ load.kind \in {"pcbuf", "mvar", "chan", "qsem"} /\ load.capacity \in Nat
           /\ load.quantity \in Nat /\ load.calls \in [Thread -> Seq(M!CallsOf(load.kind))]
BY DEF M!WorkloadAssumption, MTypeInv

\* When no data change, what was tested is what it was for the threads that do
\* not move.
LEMMA DataStay ==
    ASSUME DataInv, UNCHANGED <<load, M!dataVars>>,
           \A u \in Thread : /\ (M!At(u, "put"))' => M!At(u, "put") \/ load.kind = "chan"
                             /\ (M!At(u, "take"))' => M!At(u, "take")
                             /\ (M!At(u, "take_quantity"))' => M!At(u, "take_quantity")
    PROVE  DataInv'
BY DEF DataInv, M!dataVars

LEMMA BeginKeeps ==
    ASSUME M!WorkloadAssumption, MonitorInv, NEW t \in Thread, M!Begin(t)
    PROVE  MonitorInv'
<1> USE DEF MonitorInv
<1>0. depth[t] = 0 /\ pc[t] = "run" /\ prog[t] = <<>>
  BY NothingLeft DEF M!Begin, PlaceInv
<1>1. CASE toDo[t] = <<>>
  <2>1. pc' = [pc EXCEPT ![t] = "end"] /\ UNCHANGED <<load, M!lockVars, M!dataVars, toDo, prog>>
    BY <1>1 DEF M!Begin
  <2>2. MTypeInv'
    BY <2>1 DEF MTypeInv, M!lockVars, M!dataVars
  <2>3. PlaceInv'
    BY <2>1, <1>0 DEF MTypeInv, PlaceInv, Asleep, M!lockVars
  <2>4. MutexInv'
    BY <2>1, <1>0 DEF MTypeInv, MutexInv, Asleep, M!lockVars, M!Recursive
  <2>5. \A u \in Thread : \A a : (M!At(u, a))' => M!At(u, a)
    BY <2>1 DEF MTypeInv, M!At
  <2>6. DataInv'
    BY <2>1, <2>5, DataStay
  <2> QED BY <2>2, <2>3, <2>4, <2>6
<1>2. CASE toDo[t] # <<>>
  <2> DEFINE p == M!Program(Head(toDo[t]))
  <2>1. /\ prog' = [prog EXCEPT ![t] = p] /\ toDo' = [toDo EXCEPT ![t] = Tail(toDo[t])]
        /\ UNCHANGED <<load, M!lockVars, M!dataVars, pc>>
    BY <1>2 DEF M!Begin
  <2>2. Head(toDo[t]) \in M!CallsOf(load.kind) /\ Tail(toDo[t]) \in Seq(M!CallsOf(load.kind))
    BY <1>2, HeadTailProperties DEF MTypeInv
  <2>3. /\ p \in Outside /\ (load.kind # "chan" => p \notin ChanOnly)
        /\ p # <<>> /\ Head(p) = "lock"
    BY <2>2, LoadFits, ProgramsFit
  <2> HIDE DEF p
  <2>4. MTypeInv'
    BY <2>1, <2>2, <2>3 DEF MTypeInv, M!lockVars, M!dataVars
  <2>5. PlaceInv'
    BY <2>1, <2>3, <1>0 DEF MTypeInv, PlaceInv, Asleep, M!lockVars, Fits
  <2>6. MutexInv'
    BY <2>1 DEF MutexInv, M!lockVars, M!Recursive
  <2>7. \A u \in Thread : \A a : a # "lock" /\ (M!At(u, a))' => M!At(u, a)
    BY <2>1, <2>3 DEF MTypeInv, M!At
  <2>8. DataInv'
    BY <2>1, <2>7, DataStay
  <2> QED BY <2>4, <2>5, <2>6, <2>8
<1> QED BY <1>1, <1>2

\* After a step its thread is where something tested is used only if it was the
\* test, and the others are where they were.
LEMMA StepNeedsTest ==
    ASSUME MTypeInv, PlaceInv, MutexInv, NEW t \in Thread, NEW name, M!At(t, name), M!Step(t),
           load' = load, \A u \in Thread : pc'[u] = "run" => pc[u] = "run"
    PROVE  /\ \A u \in Thread : \A a : u # t /\ (M!At(u, a))' => M!At(u, a)
           /\ (M!At(t, "put"))' => name = "await_room" \/ load.kind = "chan"
           /\ (M!At(t, "take"))' => name \in {"await_value", "await_value_timed"}
           /\ (M!At(t, "take_quantity"))' => name = "await_quantity"
<1>1. StepFits(prog[t], depth[t]) /\ Head(prog[t]) = name
  BY AtInside
<1>2. prog'[t] = Tail(prog[t]) /\ \A u \in Thread : u # t => prog'[u] = prog[u]
  BY DEF M!Step, MTypeInv
<1>3. load.kind # "chan" => prog[t] \notin ChanOnly
  BY DEF PlaceInv
<1>4. \A u \in Thread : \A a : u # t /\ (M!At(u, a))' => M!At(u, a)
  BY <1>2 DEF M!At
<1>5. \A a : (M!At(t, a))' => Tail(prog[t]) # <<>> /\ Head(Tail(prog[t])) = a
  BY <1>2 DEF M!At
<1> QED BY <1>1, <1>3, <1>4, <1>5 DEF StepFits

LEMMA LockKeeps ==
    ASSUME M!WorkloadAssumption, MonitorInv, NEW t \in Thread, M!Lock(t)
    PROVE  MonitorInv'
<1> USE DEF MonitorInv
<1>1. /\ M!At(t, "lock") /\ M!Step(t)
      /\ load' = load /\ saved' = saved /\ UNCHANGED M!dataVars /\ pc' = pc /\ toDo' = toDo
      /\ depth' \in [Thread -> Int] /\ depth'[t] = depth[t] + 1
      /\ \A u \in Thread : u # t => depth'[u] = depth[u]
  BY DEF M!Lock, MTypeInv
<1>2. StepFits(prog[t], depth[t]) /\ Head(prog[t]) = "lock" /\ depth[t] \in Nat /\ pc[t] = "run"
  BY <1>1, AtInside DEF M!At
<1>3. Fits(Tail(prog[t]), depth[t] + 1)
  BY <1>2 DEF StepFits
<1>9. depth' \in [Thread -> Nat]
  <2>1. \A u \in Thread : depth[u] \in Nat /\ depth'[u] \in Int
    BY <1>1 DEF MTypeInv
  <2>2. \A u \in Thread : depth'[u] \in Nat
    BY <2>1, <1>1, <1>2
  <2> QED BY <2>2, <1>1
<1>4. PlaceInv' /\ prog' \in [Thread -> Outside \cup Inside \cup Nested]
  <2>1. pc'[t] = "run" /\ \A u \in Thread : pc'[u] = pc[u] \/ (pc[u] = "wait" /\ pc'[u] = "woken")
    BY <1>1, <1>2
  <2> QED BY <1>1, <2>1, <1>3, StepKeepsPlace DEF MonitorInv
<1>5. \/ cnt >= 0 /\ holder = t /\ cnt' = cnt + 1 /\ UNCHANGED <<owner, holder>>
      \/ ~(cnt >= 0 /\ holder = t) /\ owner = NoThread /\ owner' = t /\ holder' = t
         /\ cnt' = IF cnt < 0 THEN cnt ELSE 1
  BY DEF M!Lock
<1>6. MTypeInv'
  BY <1>1, <1>9, <1>4, <1>5 DEF MTypeInv, M!dataVars
<1>7. MutexInv'
  <2>1. /\ depth'[t] = depth[t] + 1 /\ \A u \in Thread : u # t => depth'[u] = depth[u]
        /\ pc' = pc /\ saved' = saved /\ (M!Recursive' <=> M!Recursive)
    BY <1>1 DEF MTypeInv, M!Recursive
  <2>2. CASE cnt >= 0 /\ holder = t /\ cnt' = cnt + 1 /\ UNCHANGED <<owner, holder>>
    <3>1. M!Recursive /\ owner = t
      BY <2>2, M!WorkloadAssumption DEF MutexInv, MTypeInv
    <3> QED BY <2>1, <2>2, <3>1, <1>2 DEF MutexInv, MTypeInv, Asleep
  <2>3. CASE /\ ~(cnt >= 0 /\ holder = t) /\ owner = NoThread /\ owner' = t /\ holder' = t
             /\ cnt' = IF cnt < 0 THEN cnt ELSE 1
    <3>1. \A u \in Thread : owner # u
      BY <2>3, M!WorkloadAssumption DEF M!WorkloadAssumption
    <3>2. depth[t] = 0 /\ \A u \in Thread : ~(pc[u] = "run" /\ depth[u] > 0)
      BY <3>1, <1>2 DEF MutexInv
    <3>3. IF M!Recursive THEN cnt' = 1 ELSE cnt' = -1
      BY <2>3 DEF MutexInv
    <3>4. \A u \in Thread : (owner' = u <=> pc'[u] = "run" /\ depth'[u] > 0)
      BY <2>1, <2>3, <3>2, <1>2
    <3>5. ~M!Recursive => \A u \in Thread : depth'[u] <= 1
      BY <2>1, <3>2 DEF MutexInv
    <3>6. \A u \in Thread : pc[u] \in Asleep => depth'[u] = depth[u]
      BY <2>1, <1>2 DEF Asleep
    <3>7. owner' # NoThread
      BY <2>3 DEF M!WorkloadAssumption
    <3>8. depth'[t] = 1 /\ owner' = t /\ holder' = t
      BY <2>1, <2>3, <3>2
    <3> QED BY <2>1, <3>3, <3>4, <3>5, <3>6, <3>7, <3>8 DEF MutexInv
  <2> QED BY <1>5, <2>2, <2>3
<1>8. DataInv'
  BY <1>1, StepNeedsTest, DataStay
<1> QED BY <1>4, <1>6, <1>7, <1>8

LEMMA UnlockKeeps ==
    ASSUME M!WorkloadAssumption, MonitorInv, NEW t \in Thread, M!Unlock(t)
    PROVE  MonitorInv'
<1> USE DEF MonitorInv
<1>1. /\ M!At(t, "unlock") /\ M!Step(t)
      /\ load' = load /\ saved' = saved /\ UNCHANGED M!dataVars /\ pc' = pc /\ toDo' = toDo
      /\ depth' \in [Thread -> Int] /\ depth'[t] = depth[t] - 1
      /\ \A u \in Thread : u # t => depth'[u] = depth[u]
  BY DEF M!Unlock, MTypeInv
<1>2. /\ StepFits(prog[t], depth[t]) /\ Head(prog[t]) = "unlock" /\ depth[t] \in Nat /\ pc[t] = "run"
      /\ depth[t] >= 1 /\ owner = t /\ holder = t /\ (M!Recursive => cnt = depth[t])
  BY <1>1, AtInside DEF M!At
<1>3. Fits(Tail(prog[t]), depth[t] - 1)
  BY <1>2 DEF StepFits
<1>9. depth' \in [Thread -> Nat]
  <2>1. \A u \in Thread : depth[u] \in Nat /\ depth'[u] \in Int
    BY <1>1 DEF MTypeInv
  <2>2. \A u \in Thread : depth'[u] \in Nat
    BY <2>1, <1>1, <1>2
  <2> QED BY <2>2, <1>1
<1>4. PlaceInv' /\ prog' \in [Thread -> Outside \cup Inside \cup Nested]
  <2>1. pc'[t] = "run" /\ \A u \in Thread : pc'[u] = pc[u] \/ (pc[u] = "wait" /\ pc'[u] = "woken")
    BY <1>1, <1>2
  <2> QED BY <1>1, <2>1, <1>3, StepKeepsPlace DEF MonitorInv
<1>5. \/ depth[t] = 1 /\ owner' = NoThread /\ holder' = NoThread /\ cnt' = IF M!Recursive THEN 0 ELSE cnt
      \/ depth[t] # 1 /\ M!Recursive /\ cnt' = cnt - 1 /\ UNCHANGED <<owner, holder>>
  <2>1. CASE M!Recursive
    <3>1. cnt = depth[t] /\ cnt >= 1
      BY <2>1, <1>2
    <3>2. CASE cnt = 1
      BY <3>1, <3>2, <2>1, <1>2 DEF M!Unlock
    <3>3. CASE cnt # 1
      <4>1. ~(cnt < 0) /\ cnt >= 0 /\ holder = t
        BY <3>1, <1>2
      <4>2. cnt' = cnt - 1 /\ UNCHANGED <<owner, holder>>
        BY <4>1, <3>3 DEF M!Unlock
      <4> QED BY <4>2, <3>1, <3>3, <2>1
    <3> QED BY <3>2, <3>3
  <2>2. CASE ~M!Recursive
    <3>1. cnt = -1 /\ depth[t] = 1
      BY <2>2, <1>2 DEF MutexInv
    <3> QED BY <3>1, <2>2 DEF M!Unlock
  <2> QED BY <2>1, <2>2
<1>6. MTypeInv'
  BY <1>1, <1>9, <1>4, <1>5 DEF MTypeInv, M!dataVars
<1>7. MutexInv'
  <2>1. /\ depth'[t] = depth[t] - 1 /\ \A u \in Thread : u # t => depth'[u] = depth[u]
        /\ pc' = pc /\ saved' = saved /\ (M!Recursive' <=> M!Recursive)
    BY <1>1 DEF MTypeInv, M!Recursive
  <2>2. \A u \in Thread : u # t => owner # u /\ ~(pc[u] = "run" /\ depth[u] > 0)
    BY <1>2 DEF MutexInv
  <2>3. \A u \in Thread : pc[u] \in Asleep => depth'[u] = depth[u]
    BY <2>1, <1>2 DEF Asleep
  <2>4. ~M!Recursive => \A u \in Thread : depth'[u] <= 1
    <3>1. ~M!Recursive => \A u \in Thread : depth[u] <= 1
      BY DEF MutexInv
    <3> QED BY <2>1, <3>1, <1>2
  <2>5. CASE depth[t] = 1 /\ owner' = NoThread /\ holder' = NoThread /\ cnt' = IF M!Recursive THEN 0 ELSE cnt
    <3>1. IF M!Recursive THEN cnt' = 0 ELSE cnt' = -1
      BY <2>5 DEF MutexInv
    <3>2. \A u \in Thread : owner' # u /\ ~(pc'[u] = "run" /\ depth'[u] > 0)
      BY <2>1, <2>2, <2>5 DEF M!WorkloadAssumption
    <3> QED BY <2>1, <2>3, <2>4, <2>5, <3>1, <3>2 DEF MutexInv, M!WorkloadAssumption
  <2>6. CASE depth[t] # 1 /\ M!Recursive /\ cnt' = cnt - 1 /\ UNCHANGED <<owner, holder>>
    <3>1. cnt' = depth'[t] /\ depth'[t] >= 1
      BY <2>1, <2>6, <1>2
    <3>2. \A u \in Thread : owner' = u <=> pc'[u] = "run" /\ depth'[u] > 0
      BY <2>1, <2>2, <2>6, <3>1, <1>2
    <3>3. owner' = t /\ holder' = t /\ owner' # NoThread
      BY <2>6, <1>2 DEF M!WorkloadAssumption
    <3> QED BY <2>1, <2>3, <2>4, <2>6, <3>1, <3>2, <3>3 DEF MutexInv
  <2> QED BY <1>5, <2>5, <2>6
<1>8. DataInv'
  BY <1>1, StepNeedsTest, DataStay
<1> QED BY <1>4, <1>6, <1>7, <1>8

LEMMA PassKeeps ==
    ASSUME M!WorkloadAssumption, MonitorInv, NEW t \in Thread, M!Pass(t)
    PROVE  MonitorInv'
<1> USE DEF MonitorInv
<1> PICK name \in Awaits : M!At(t, name)
  BY DEF M!Pass, M!Awaiting, Awaits
<1>1. /\ M!Awaited(t) /\ M!Step(t)
      /\ load' = load /\ UNCHANGED <<M!lockVars, M!dataVars>> /\ pc' = pc /\ toDo' = toDo
  BY DEF M!Pass
<1>2. /\ StepFits(prog[t], depth[t]) /\ Head(prog[t]) = name /\ pc[t] = "run"
      /\ prog[t] # <<>>
  BY AtInside DEF M!At
<1>3. Fits(Tail(prog[t]), depth[t])
  BY <1>2 DEF StepFits, Awaits
<1>4. PlaceInv' /\ prog' \in [Thread -> Outside \cup Inside \cup Nested]
  <2>1. /\ depth'[t] = depth[t] /\ \A u \in Thread : u # t => depth'[u] = depth[u]
        /\ pc'[t] = "run" /\ \A u \in Thread : pc'[u] = pc[u]
    BY <1>1, <1>2 DEF M!lockVars
  <2> QED BY <1>1, <2>1, <1>3, StepKeepsPlace
<1>5. MTypeInv'
  BY <1>1, <1>4 DEF MTypeInv, M!lockVars, M!dataVars
<1>6. MutexInv'
  BY <1>1 DEF MutexInv, M!lockVars, M!Recursive
<1>7. /\ name = "await_room" => Len(q) < load.capacity
      /\ name \in {"await_value", "await_value_timed"} => q # <<>>
      /\ name = "await_quantity" => quantity >= 1
  <2>1. \A a : M!At(t, a) <=> a = name
    BY <1>2 DEF M!At
  <2>2. CASE name = "await_room"
    BY <2>1, <2>2, <1>1, <1>2 DEF M!Awaited
  <2>3. CASE name \in {"await_value", "await_value_timed"}
    BY <2>1, <2>3, <1>1, <1>2 DEF M!Awaited
  <2>4. CASE name = "await_quantity"
    BY <2>1, <2>4, <1>1, <1>2 DEF M!Awaited
  <2> QED BY <2>2, <2>3, <2>4 DEF Awaits
<1>8. DataInv'
  <2>1. /\ \A u \in Thread : \A a : u # t /\ (M!At(u, a))' => M!At(u, a)
        /\ (M!At(t, "put"))' => name = "await_room" \/ load.kind = "chan"
        /\ (M!At(t, "take"))' => name \in {"await_value", "await_value_timed"}
        /\ (M!At(t, "take_quantity"))' => name = "await_quantity"
    BY <1>1, StepNeedsTest
  <2>2. q' = q /\ quantity' = quantity /\ sent' = sent /\ received' = received /\ load' = load
    BY <1>1 DEF M!dataVars
  <2> QED BY <2>1, <2>2, <1>7 DEF DataInv
<1> QED BY <1>4, <1>5, <1>6, <1>8

LEMMA WaitKeeps ==
    ASSUME M!WorkloadAssumption, MonitorInv, NEW t \in Thread, M!Wait(t)
    PROVE  MonitorInv'
<1> USE DEF MonitorInv
<1> PICK name \in Awaits : M!At(t, name)
  BY DEF M!Wait, M!Awaiting, Awaits
<1>1. /\ saved' = [saved EXCEPT ![t] = cnt] /\ owner' = NoThread
      /\ (IF cnt >= 0 THEN holder' = Released /\ cnt' = 0 ELSE UNCHANGED <<holder, cnt>>)
      /\ pc' = [pc EXCEPT ![t] = "wait"]
      /\ load' = load /\ depth' = depth /\ UNCHANGED M!dataVars /\ toDo' = toDo /\ prog' = prog
  BY DEF M!Wait
<1>2. /\ depth[t] >= 1 /\ owner = t /\ (M!Recursive => cnt = depth[t]) /\ depth[t] \in Nat
      /\ pc[t] = "run" /\ prog[t] # <<>> /\ Head(prog[t]) = name
  BY AtInside DEF M!At, Awaits
<1>3. MTypeInv'
  BY <1>1 DEF MTypeInv, M!dataVars, Asleep
<1>4. PlaceInv'
  BY <1>1, <1>2 DEF MTypeInv, PlaceInv, Asleep
<1>5. MutexInv'
  <2>1. /\ \A u \in Thread : u # t => owner # u /\ ~(pc[u] = "run" /\ depth[u] > 0)
        /\ \A u \in Thread : u # t => pc'[u] = pc[u] /\ saved'[u] = saved[u]
        /\ pc'[t] = "wait" /\ saved'[t] = cnt
    BY <1>1, <1>2 DEF MutexInv, MTypeInv
  <2>2. \A u \in Thread : owner' # u /\ ~(pc'[u] = "run" /\ depth'[u] > 0)
    BY <1>1, <2>1 DEF M!WorkloadAssumption
  <2>3. saved'[t] = IF M!Recursive THEN depth[t] ELSE -1
    BY <1>2, <2>1 DEF MutexInv
  <2>4. IF M!Recursive THEN cnt' = 0 /\ holder' \notin Thread ELSE cnt' = -1
    BY <1>1 DEF MutexInv, M!WorkloadAssumption
  <2> QED BY <1>1, <2>1, <2>2, <2>3, <2>4 DEF MutexInv, M!Recursive, Asleep
<1>6. DataInv'
  <2>1. \A u \in Thread : \A a : (M!At(u, a))' => M!At(u, a)
    BY <1>1 DEF M!At, MTypeInv
  <2> QED BY <1>1, <2>1, DataStay
<1> QED BY <1>3, <1>4, <1>5, <1>6

LEMMA ReacquireKeeps ==
    ASSUME M!WorkloadAssumption, MonitorInv, NEW t \in Thread, M!Reacquire(t)
    PROVE  MonitorInv'
<1> USE DEF MonitorInv
<1>1. /\ pc[t] \in {"woken", "expired"} /\ owner = NoThread
      /\ owner' = t /\ holder' = t /\ cnt' = saved[t]
      /\ prog' = (IF pc[t] = "expired" THEN [prog EXCEPT ![t] = <<"unlock">>] ELSE prog)
      /\ pc' = [pc EXCEPT ![t] = "run"]
      /\ load' = load /\ saved' = saved /\ depth' = depth /\ UNCHANGED M!dataVars /\ toDo' = toDo
  BY DEF M!Reacquire
<1>2. /\ prog[t] # <<>> /\ Head(prog[t]) \in Awaits /\ StepFits(prog[t], depth[t])
      /\ depth[t] \in Nat /\ depth[t] >= 1
  <2>1. prog[t] # <<>> /\ Head(prog[t]) \in Awaits /\ Fits(prog[t], depth[t])
    BY <1>1 DEF PlaceInv, Asleep
  <2>2. StepFits(prog[t], depth[t])
    BY <2>1, StepsFit
  <2> QED BY <2>1, <2>2 DEF StepFits, Awaits, MTypeInv
<1>3. /\ <<"unlock">> \in Inside /\ <<"unlock">> \notin ChanOnly
      /\ <<"unlock">> # <<>> /\ Head(<<"unlock">>) = "unlock"
  BY DEF Inside, ChanOnly
<1>4. pc[t] = "expired" => depth[t] = 1
  BY <1>2 DEF PlaceInv, StepFits
<1>5. MTypeInv'
  BY <1>1, <1>3 DEF MTypeInv, M!dataVars, Asleep
<1>6. /\ \A u \in Thread : u # t => pc'[u] = pc[u] /\ prog'[u] = prog[u]
      /\ pc'[t] = "run" /\ prog'[t] = IF pc[t] = "expired" THEN <<"unlock">> ELSE prog[t]
  BY <1>1 DEF MTypeInv
<1>7. PlaceInv'
  <2>1. Fits(prog'[t], depth[t]) /\ (load.kind # "chan" => prog'[t] \notin ChanOnly)
    BY <1>3, <1>4, <1>6 DEF PlaceInv, Fits
  <2> QED BY <1>1, <1>6, <2>1 DEF PlaceInv, Asleep
<1>8. MutexInv'
  <2>1. \A u \in Thread : owner # u /\ ~(pc[u] = "run" /\ depth[u] > 0)
    BY <1>1 DEF MutexInv, M!WorkloadAssumption
  <2>2. \A u \in Thread : owner' = u <=> pc'[u] = "run" /\ depth'[u] > 0
    BY <1>1, <1>2, <1>6, <2>1
  <2>3. cnt' = IF M!Recursive THEN depth[t] ELSE -1
    BY <1>1 DEF MutexInv, Asleep
  <2>4. owner' # NoThread
    BY <1>1 DEF M!WorkloadAssumption
  <2>5. \A u \in Thread : pc'[u] \in Asleep => pc[u] \in Asleep
    BY <1>6 DEF Asleep
  <2> QED BY <1>1, <1>2, <2>2, <2>3, <2>4, <2>5 DEF MutexInv, M!Recursive
<1>9. DataInv'
  <2>1. \A u \in Thread : \A a : u # t /\ (M!At(u, a))' => M!At(u, a)
    BY <1>6 DEF M!At
  <2>2. \A a \in {"put", "take", "take_quantity"} : ~(M!At(t, a))'
    BY <1>2, <1>3, <1>6 DEF M!At, Awaits
  <2> QED BY <1>1, <2>1, <2>2, DataStay
<1> QED BY <1>5, <1>7, <1>8, <1>9

\* A sleeper that is woken, or whose time is up, stays asleep until it has the
\* mutex again.
LEMMA WakeKeeps ==
    ASSUME MonitorInv, NEW t \in Thread, M!Spurious(t) \/ M!Expire(t)
    PROVE  MonitorInv'
<1> USE DEF MonitorInv
<1>1. /\ pc[t] = "wait"
      /\ \/ pc' = [pc EXCEPT ![t] = "woken"]
         \/ pc' = [pc EXCEPT ![t] = "expired"] /\ Head(prog[t]) = "await_value_timed"
      /\ load' = load /\ UNCHANGED <<M!lockVars, M!dataVars>> /\ toDo' = toDo /\ prog' = prog
  BY DEF M!Spurious, M!Expire
<1>2. /\ \A u \in Thread : u # t => pc'[u] = pc[u]
      /\ pc'[t] \in {"woken", "expired"}
      /\ pc'[t] = "expired" => Head(prog[t]) = "await_value_timed"
      /\ pc' \in [Thread -> {"run", "end"} \cup Asleep]
  BY <1>1 DEF MTypeInv, Asleep
<1>3. MTypeInv'
  BY <1>1, <1>2 DEF MTypeInv, M!lockVars, M!dataVars
<1>4. PlaceInv'
  BY <1>1, <1>2 DEF PlaceInv, M!lockVars, Asleep
<1>5. MutexInv'
  BY <1>1, <1>2 DEF MutexInv, M!lockVars, M!Recursive, Asleep
<1>6. DataInv'
  <2>1. \A u \in Thread : \A a : (M!At(u, a))' => M!At(u, a)
    BY <1>1, <1>2 DEF M!At
  <2> QED BY <1>1, <2>1, DataStay
<1> QED BY <1>3, <1>4, <1>5, <1>6

LEMMA NotifyKeeps ==
    ASSUME MonitorInv, NEW t \in Thread, M!Notify(t)
    PROVE  MonitorInv'
<1> USE DEF MonitorInv
<1>1. /\ M!At(t, "notify") /\ M!Step(t) /\ load' = load /\ toDo' = toDo
      /\ UNCHANGED <<M!lockVars, M!dataVars>>
      /\ pc' = [u \in Thread |-> IF pc[u] = "wait" THEN "woken" ELSE pc[u]]
  BY DEF M!Notify
<1>2. StepFits(prog[t], depth[t]) /\ Head(prog[t]) = "notify" /\ pc[t] = "run"
  BY <1>1, AtInside DEF M!At
<1>3. Fits(Tail(prog[t]), depth[t])
  BY <1>2 DEF StepFits
<1>4. /\ \A u \in Thread : pc'[u] = pc[u] \/ (pc[u] = "wait" /\ pc'[u] = "woken")
      /\ pc'[t] = "run" /\ pc' \in [Thread -> {"run", "end"} \cup Asleep]
      /\ \A u \in Thread : pc'[u] = "run" <=> pc[u] = "run"
      /\ \A u \in Thread : pc'[u] \in Asleep <=> pc[u] \in Asleep
  BY <1>1, <1>2 DEF MTypeInv, Asleep
<1>5. PlaceInv' /\ prog' \in [Thread -> Outside \cup Inside \cup Nested]
  <2>1. depth'[t] = depth[t] /\ \A u \in Thread : u # t => depth'[u] = depth[u]
    BY <1>1 DEF M!lockVars
  <2> QED BY <1>1, <1>3, <1>4, <2>1, StepKeepsPlace
<1>6. MTypeInv'
  BY <1>1, <1>4, <1>5 DEF MTypeInv, M!lockVars, M!dataVars
<1>7. MutexInv'
  BY <1>1, <1>4 DEF MutexInv, M!lockVars, M!Recursive
<1>8. DataInv'
  <2>1. /\ \A u \in Thread : \A a : u # t /\ (M!At(u, a))' => M!At(u, a)
        /\ (M!At(t, "put"))' => load.kind = "chan"
        /\ ~(M!At(t, "take"))' /\ ~(M!At(t, "take_quantity"))'
    BY <1>1, <1>4, StepNeedsTest
  <2> QED BY <1>1, <2>1, DataStay
<1> QED BY <1>5, <1>6, <1>7, <1>8

---------------------------------------------------------------------------
(* Values.                                                                 *)

LEMMA PutInOrder ==
    ASSUME NEW r \in Seq(Nat), NEW s \in Seq(Nat), NEW x \in Nat
    PROVE  /\ r \o Append(s, x) = Append(r \o s, x)
           /\ Append(s, x) \in Seq(Nat) /\ Len(Append(s, x)) = Len(s) + 1
OBVIOUS

LEMMA TakenInOrder ==
    ASSUME NEW r \in Seq(Nat), NEW s \in Seq(Nat), s # <<>>
    PROVE  /\ Append(r, Head(s)) \o Tail(s) = r \o s
           /\ Append(r, Head(s)) \in Seq(Nat) /\ Tail(s) \in Seq(Nat)
           /\ Len(Tail(s)) \in Nat /\ Len(Tail(s)) <= Len(s)
OBVIOUS

LEMMA TakenBackInOrder ==
    ASSUME NEW r \in Seq(Nat), NEW s \in Seq(Nat), r # <<>>
    PROVE  /\ SubSeq(r, 1, Len(r) - 1) \o (<<r[Len(r)]>> \o s) = r \o s
           /\ SubSeq(r, 1, Len(r) - 1) \in Seq(Nat) /\ <<r[Len(r)]>> \o s \in Seq(Nat)
<1> DEFINE front == SubSeq(r, 1, Len(r) - 1)
           last == <<r[Len(r)]>>
<1>1. Len(r) \in Nat /\ Len(r) >= 1 /\ r[Len(r)] \in Nat
  BY EmptySeq, ElementOfSeq
<1>2. front \in Seq(Nat) /\ last \in Seq(Nat)
  BY <1>1, SubSeqProperties, ElementOfSeq
<1>3. r = front \o last
  BY <1>1, SubSeqRecursiveSecond, SubSeqFull
<1> HIDE DEF front, last
<1>4. front \o (last \o s) = (front \o last) \o s
  BY <1>2, ConcatAssociative
<1>5. last \o s \in Seq(Nat)
  BY <1>2, ConcatProperties
<1> QED BY <1>2, <1>3, <1>4, <1>5 DEF front, last

LEMMA ClearedInOrder ==
    ASSUME NEW r \in Seq(Nat), NEW s \in Seq(Nat)
    PROVE  (r \o s) \o <<>> = r \o s /\ r \o s \in Seq(Nat)
OBVIOUS

\* What an access does to the values and to the quantity.
LEMMA AccessInOrder ==
    ASSUME M!WorkloadAssumption, MonitorInv, NEW t \in Thread, M!Access(t)
    PROVE  /\ received' \o q' = sent'
           /\ q' \in Seq(Nat) /\ sent' \in Seq(Nat) /\ received' \in Seq(Nat)
           /\ quantity' \in Nat
           /\ load.kind # "chan" => Len(q') <= load.capacity
<1> USE DEF MonitorInv
<1>0. /\ q \in Seq(Nat) /\ sent \in Seq(Nat) /\ received \in Seq(Nat) /\ quantity \in Nat
      /\ Len(q) \in Nat /\ Len(sent) + 1 \in Nat /\ load.capacity \in Nat
  <2>1. q \in Seq(Nat) /\ sent \in Seq(Nat) /\ received \in Seq(Nat) /\ quantity \in Nat
    BY DEF MTypeInv
  <2>2. load.capacity \in Nat
    BY LoadFits
  <2> QED BY <2>1, <2>2
<1>1. received \o q = sent /\ (load.kind # "chan" => Len(q) <= load.capacity)
  BY DEF DataInv
<1>2. CASE /\ M!At(t, "put") /\ q' = Append(q, Len(sent) + 1)
           /\ sent' = Append(sent, Len(sent) + 1) /\ UNCHANGED <<quantity, received>>
  <2>1. load.kind # "chan" => Len(q) < load.capacity
    BY <1>2 DEF DataInv
  <2> DEFINE x == Len(sent) + 1
  <2>2. /\ received \o Append(q, x) = Append(received \o q, x)
        /\ Append(q, x) \in Seq(Nat) /\ Len(Append(q, x)) = Len(q) + 1
        /\ Append(sent, x) \in Seq(Nat)
    BY <1>0, PutInOrder
  <2> HIDE DEF x
  <2>3. q' = Append(q, x) /\ sent' = Append(sent, x) /\ received' = received /\ quantity' = quantity
    BY <1>2 DEF x
  <2>4. received' \o q' = sent'
    BY <2>2, <2>3, <1>1
  <2>5. q' \in Seq(Nat) /\ sent' \in Seq(Nat) /\ received' \in Seq(Nat) /\ quantity' \in Nat
    BY <2>2, <2>3, <1>0
  <2>6. load.kind # "chan" => Len(q') <= load.capacity
    BY <2>1, <2>2, <2>3, <1>0
  <2> QED BY <2>4, <2>5, <2>6
<1>3. CASE /\ M!At(t, "take") /\ q' = Tail(q) /\ received' = Append(received, Head(q))
           /\ UNCHANGED <<quantity, sent>>
  <2>1. q # <<>>
    BY <1>3 DEF DataInv
  <2>2. /\ Append(received, Head(q)) \o Tail(q) = received \o q
        /\ Append(received, Head(q)) \in Seq(Nat) /\ Tail(q) \in Seq(Nat)
        /\ Len(Tail(q)) <= Len(q) /\ Len(Tail(q)) \in Nat
    BY <2>1, <1>0, TakenInOrder
  <2>3. received' \o q' = sent'
    BY <2>2, <1>3, <1>1
  <2>4. q' \in Seq(Nat) /\ sent' \in Seq(Nat) /\ received' \in Seq(Nat) /\ quantity' \in Nat
    BY <2>2, <1>3, <1>0
  <2>5. load.kind # "chan" => Len(q') <= load.capacity
    BY <2>2, <1>3, <1>0, <1>1
  <2> QED BY <2>3, <2>4, <2>5
<1>4. CASE /\ M!At(t, "take_back")
           /\ q' = IF received = <<>> THEN q ELSE <<received[Len(received)]>> \o q
           /\ received' = IF received = <<>> THEN received
                          ELSE SubSeq(received, 1, Len(received) - 1)
           /\ UNCHANGED <<quantity, sent>>
  <2>1. load.kind = "chan"
    <3>1. StepFits(prog[t], depth[t]) /\ Head(prog[t]) = "take_back"
      BY <1>4, AtInside
    <3> QED BY <3>1 DEF StepFits, PlaceInv
  <2>2. CASE received = <<>>
    BY <2>1, <2>2, <1>4, <1>0, <1>1
  <2>3. CASE received # <<>>
    BY <2>1, <2>3, <1>4, <1>0, <1>1, TakenBackInOrder
  <2> QED BY <2>2, <2>3
<1>5. CASE /\ M!At(t, "clear") /\ q' = <<>> /\ received' = received \o q /\ UNCHANGED <<quantity, sent>>
  BY <1>5, <1>0, <1>1, ClearedInOrder
<1>6. CASE M!At(t, "take_quantity") /\ quantity' = quantity - 1 /\ UNCHANGED <<q, sent, received>>
  <2>1. quantity >= 1
    BY <1>6 DEF DataInv
  <2> QED BY <2>1, <1>6, <1>0, <1>1
<1>7. CASE M!At(t, "add_quantity") /\ quantity' = quantity + 1 /\ UNCHANGED <<q, sent, received>>
  BY <1>7, <1>0, <1>1
<1> QED BY <1>2, <1>3, <1>4, <1>5, <1>6, <1>7 DEF M!Access

LEMMA AccessKeeps ==
    ASSUME M!WorkloadAssumption, MonitorInv, NEW t \in Thread, M!Access(t)
    PROVE  MonitorInv'
<1> USE DEF MonitorInv
<1> PICK name \in {"put", "take", "take_back", "clear", "take_quantity", "add_quantity"} : M!At(t, name)
  BY DEF M!Access
<1>1. /\ M!Step(t) /\ load' = load /\ UNCHANGED M!lockVars /\ pc' = pc /\ toDo' = toDo
  BY DEF M!Access
<1>2. /\ StepFits(prog[t], depth[t]) /\ Head(prog[t]) = name /\ pc[t] = "run"
  BY AtInside DEF M!At
<1>3. Fits(Tail(prog[t]), depth[t])
  BY <1>2 DEF StepFits
<1>4. PlaceInv' /\ prog' \in [Thread -> Outside \cup Inside \cup Nested]
  <2>1. /\ depth'[t] = depth[t] /\ \A u \in Thread : u # t => depth'[u] = depth[u]
        /\ pc'[t] = "run" /\ \A u \in Thread : pc'[u] = pc[u]
    BY <1>1, <1>2 DEF M!lockVars
  <2> QED BY <1>1, <2>1, <1>3, StepKeepsPlace
<1>5. MTypeInv'
  BY <1>1, <1>4, AccessInOrder DEF MTypeInv, M!lockVars
<1>6. MutexInv'
  BY <1>1 DEF MutexInv, M!lockVars, M!Recursive
<1>7. DataInv'
  <2>1. /\ \A u \in Thread : \A a : u # t /\ (M!At(u, a))' => M!At(u, a)
        /\ (M!At(t, "put"))' => load.kind = "chan"
        /\ ~(M!At(t, "take"))' /\ ~(M!At(t, "take_quantity"))'
    BY <1>1, StepNeedsTest
  <2>2. \A u \in Thread : \A a \in {"put", "take", "take_quantity"} : M!At(u, a) => u = t
    BY InsideAlone
  <2> QED BY <1>1, <2>1, <2>2, AccessInOrder DEF DataInv
<1> QED BY <1>4, <1>5, <1>6, <1>7

---------------------------------------------------------------------------
LEMMA MonitorInductive ==
    ASSUME M!WorkloadAssumption
    PROVE  MonitorInv /\ [M!Next]_M!vars => MonitorInv'
<1> SUFFICES ASSUME MonitorInv, [M!Next]_M!vars PROVE MonitorInv'
  OBVIOUS
<1>1. CASE UNCHANGED M!vars
  BY <1>1 DEF M!vars, M!lockVars, M!dataVars, MonitorInv, MTypeInv, PlaceInv, MutexInv, DataInv, M!At, M!Recursive
<1>2. CASE M!Next
  BY <1>2, BeginKeeps, LockKeeps, UnlockKeeps, PassKeeps, WaitKeeps, ReacquireKeeps, NotifyKeeps,
     AccessKeeps, WakeKeeps DEF M!Next
<1> QED BY <1>1, <1>2

LEMMA MonitorInitially ==
    ASSUME M!WorkloadAssumption
    PROVE  M!Init => MonitorInv
<1> SUFFICES ASSUME M!Init PROVE MonitorInv
  OBVIOUS
<1>1. /\ load \in Workload /\ load.kind \in {"pcbuf", "mvar", "chan", "qsem"}
      /\ load.capacity \in Nat /\ load.quantity \in Nat
      /\ load.calls \in [Thread -> Seq(M!CallsOf(load.kind))]
  BY DEF M!Init, M!WorkloadAssumption
<1>2. <<>> \in Outside /\ <<>> \notin ChanOnly /\ <<>> \in Seq(Nat) /\ Len(<<>>) = 0 /\ <<>> \o <<>> = <<>>
  BY DEF Outside, ChanOnly
<1>3. MTypeInv
  BY <1>1, <1>2 DEF M!Init, MTypeInv
<1>4. PlaceInv
  BY <1>2 DEF M!Init, PlaceInv, Fits, Asleep
<1>5. MutexInv
  BY DEF M!Init, MutexInv, Asleep, M!Recursive, M!WorkloadAssumption
<1>6. DataInv
  BY <1>1, <1>2 DEF M!Init, DataInv, M!At
<1> QED BY <1>3, <1>4, <1>5, <1>6 DEF MonitorInv

\* MonitorsHold: whoever runs between lock and unlock of a pcbuf, an mvar, a chan or
\* a qsem is its one holder, with the count of its own locks, through waits,
\* timeouts and calls inside of calls; values leave in the order in which they
\* came, each once; no buffer holds more than its capacity and no quantity falls
\* below zero: for any threads and any calls.
THEOREM MonitorsHoldHere ==
    ASSUME M!WorkloadAssumption
    PROVE  M!Spec => []M!MonitorsHold
<1>1. MonitorInv => M!MonitorsHold
  BY DEF MonitorInv, MTypeInv, MutexInv, DataInv, M!MonitorsHold, M!Recursive
<1>2. (M!Init => MonitorInv) /\ (MonitorInv /\ [M!Next]_M!vars => MonitorInv')
  BY MonitorInitially, MonitorInductive
<1> QED BY <1>1, <1>2, PTL DEF M!Spec

---------------------------------------------------------------------------
(* Scopes of an rw_mutex.                                                  *)

RwInv ==
    /\ mode \in [Thread -> {"out", "asking", "in"}] /\ need_unlock \in [Thread -> BOOLEAN]
    /\ script \in [Thread -> Seq(M!Scope \ {"rlock_now"})]
    /\ \A t \in Thread : mode[t] # "out" => script[t] # <<>>
    /\ \A t \in Thread : need_unlock[t] => mode[t] = "in"
    /\ M!HoldersHold

\* Two tells of the same scope.
LEMMA ToldKeeps ==
    ASSUME RwInv, NEW t \in Thread, NEW answer \in BOOLEAN, M!Told(t, answer),
           mode[t] # "in", script[t] # <<>>,
           IF answer THEN NoThread \notin Thread /\ M!Free(t) /\ M!Take(t)
           ELSE UNCHANGED <<readers, writer>>
    PROVE  RwInv'
<1>1. /\ need_unlock' = [need_unlock EXCEPT ![t] = answer]
      /\ mode' = [mode EXCEPT ![t] = "in"] /\ script' = script
  BY DEF M!Told
<1>2. /\ mode' \in [Thread -> {"out", "asking", "in"}] /\ need_unlock' \in [Thread -> BOOLEAN]
      /\ script' \in [Thread -> Seq(M!Scope \ {"rlock_now"})]
      /\ mode'[t] = "in" /\ need_unlock'[t] = answer
      /\ \A u \in Thread : u # t => mode'[u] = mode[u] /\ need_unlock'[u] = need_unlock[u]
  BY <1>1 DEF RwInv
<1>3. ~M!Has(t)
  BY DEF RwInv, M!HoldersHold
<1>4. M!HoldersHold'
  <2>1. CASE answer
    <3>1. writer = NoThread
      BY <2>1 DEF M!Free
    <3>2. CASE M!Wish(t) \in M!Read
      BY <2>1, <3>1, <3>2, <1>2 DEF M!Take, M!HoldersHold, RwInv, M!Has
    <3>3. CASE M!Wish(t) \notin M!Read
      <4>1. readers = {} /\ writer' = t /\ readers' = readers
        BY <2>1, <3>3 DEF M!Free, M!Take
      <4> QED BY <2>1, <3>1, <4>1, <1>2 DEF M!HoldersHold, RwInv, M!Has
    <3> QED BY <3>2, <3>3
  <2>2. CASE ~answer
    BY <2>2, <1>2, <1>3 DEF M!HoldersHold, RwInv, M!Has
  <2> QED BY <2>1, <2>2
<1> QED BY <1>1, <1>2, <1>4 DEF RwInv

LEMMA RwInitially ==
    ASSUME M!ScriptAssumption
    PROVE  M!RwInit => RwInv
<1>1. M!Scope \ {"rlock_now"} = {"rlock", "rlock_timed", "wlock", "wlock_timed", "wlock_now"}
  BY DEF M!Scope
<1> QED BY <1>1 DEF M!RwInit, RwInv, M!HoldersHold, M!Has, M!ScriptAssumption

LEMMA RwInductive ==
    ASSUME M!ScriptAssumption
    PROVE  RwInv /\ [M!RwNext]_M!rwVars => RwInv'
<1> SUFFICES ASSUME RwInv, [M!RwNext]_M!rwVars PROVE RwInv'
  OBVIOUS
<1>1. CASE UNCHANGED M!rwVars
  BY <1>1 DEF M!rwVars, RwInv, M!HoldersHold, M!Has
<1>2. ASSUME NEW t \in Thread, M!Ask(t)
      PROVE  RwInv'
  BY <1>2 DEF M!Ask, RwInv, M!HoldersHold, M!Has
<1>3. ASSUME NEW t \in Thread, M!Acquire(t)
      PROVE  RwInv'
  <2>1. mode[t] = "asking" /\ M!Free(t) /\ M!Take(t) /\ M!Told(t, TRUE) /\ script[t] # <<>>
    BY <1>3 DEF M!Acquire, RwInv
  <2> QED BY <2>1, ToldKeeps DEF M!ScriptAssumption
<1>4. ASSUME NEW t \in Thread, M!RwExpire(t)
      PROVE  RwInv'
  <2>1. /\ mode[t] = "asking" /\ M!Told(t, FALSE) /\ script[t] # <<>>
        /\ UNCHANGED <<readers, writer>>
    BY <1>4 DEF M!RwExpire, RwInv
  <2> QED BY <2>1, ToldKeeps
<1>5. ASSUME NEW t \in Thread, mode[t] = "out", script[t] # <<>>, M!Wish(t) \in M!AtOnce
      PROVE  M!Wish(t) = "wlock_now"
  <2>1. Head(script[t]) \in M!Scope \ {"rlock_now"}
    BY <1>5, HeadTailProperties DEF RwInv
  <2> QED BY <2>1, <1>5 DEF M!Wish, M!AtOnce
<1>6. ASSUME NEW t \in Thread, M!TryTaken(t)
      PROVE  RwInv'
  <2>1. mode[t] = "out" /\ script[t] # <<>> /\ M!Free(t) /\ M!Take(t) /\ M!Told(t, TRUE)
    BY <1>6, <1>5 DEF M!TryTaken
  <2> QED BY <2>1, ToldKeeps DEF M!ScriptAssumption
<1>7. ASSUME NEW t \in Thread, M!TryBusy(t)
      PROVE  RwInv'
  <2>1. mode[t] = "out" /\ script[t] # <<>> /\ M!Told(t, FALSE) /\ UNCHANGED <<readers, writer>>
    BY <1>7, <1>5 DEF M!TryBusy
  <2> QED BY <2>1, ToldKeeps
<1>8. ASSUME NEW t \in Thread, M!Leave(t)
      PROVE  RwInv'
  <2>1. /\ mode[t] = "in"
        /\ need_unlock' = [need_unlock EXCEPT ![t] = FALSE]
        /\ mode' = [mode EXCEPT ![t] = "out"]
        /\ script' = [script EXCEPT ![t] = Tail(script[t])]
    BY <1>8 DEF M!Leave
  <2>2. Tail(script[t]) \in Seq(M!Scope \ {"rlock_now"})
    BY <2>1, HeadTailProperties DEF RwInv
  <2>3. /\ script' \in [Thread -> Seq(M!Scope \ {"rlock_now"})]
        /\ mode' \in [Thread -> {"out", "asking", "in"}] /\ need_unlock' \in [Thread -> BOOLEAN]
        /\ mode'[t] = "out" /\ ~need_unlock'[t]
        /\ \A u \in Thread : u # t => /\ mode'[u] = mode[u] /\ need_unlock'[u] = need_unlock[u]
                                      /\ script'[u] = script[u]
    BY <2>1, <2>2 DEF RwInv
  <2>4. M!HoldersHold'
    <3>1. CASE need_unlock[t]
      <4>1. /\ readers' = readers \ {t}
            /\ writer' = IF writer = t THEN NoThread ELSE writer
        BY <1>8, <3>1 DEF M!Leave
      <4> QED BY <4>1, <2>3 DEF M!HoldersHold, RwInv, M!Has, M!ScriptAssumption
    <3>2. CASE ~need_unlock[t]
      <4>1. UNCHANGED <<readers, writer>> /\ ~M!Has(t)
        BY <1>8, <3>2 DEF M!Leave, M!HoldersHold, RwInv
      <4> QED BY <4>1, <2>3 DEF M!HoldersHold, RwInv, M!Has
    <3> QED BY <3>1, <3>2
  <2> QED BY <2>3, <2>4 DEF RwInv
<1> QED BY <1>1, <1>2, <1>3, <1>4, <1>6, <1>7, <1>8 DEF M!RwNext

\* HoldersHold: a scope of an rw_mutex that was told it has the lock has it, a
\* writer alone, and none keeps it when it is left: for any threads and any
\* scopes but the read lock that does not wait, whose answer is inverted.
THEOREM HoldersHoldHere ==
    ASSUME M!ScriptAssumption
    PROVE  M!RwSpec => []M!HoldersHold
<1>1. M!RwInit => RwInv
  BY RwInitially
<1>2. RwInv /\ [M!RwNext]_M!rwVars => RwInv'
  BY RwInductive
<1>3. RwInv => M!HoldersHold
  BY DEF RwInv
<1> QED BY <1>1, <1>2, <1>3, PTL DEF M!RwSpec

---------------------------------------------------------------------------
(* The component that runs keeps its invariant beside those that do not.   *)

PartInv ==
    /\ part = "monitors" => MonitorInv
    /\ part = "rw_mutex" => RwInv

LEMMA PartInitially == PartsInit => PartInv
<1> SUFFICES ASSUME PartsInit PROVE PartInv
  OBVIOUS
<1>1. CASE part = "monitors"
  <2>1. M!Init
    BY <1>1 DEF PartsInit
  <2> QED BY <1>1, <2>1, InstancesAssumption, MonitorInitially DEF PartInv
<1>2. CASE part = "rw_mutex"
  <2>1. M!RwInit
    BY <1>2 DEF PartsInit
  <2> QED BY <1>2, <2>1, InstancesAssumption, RwInitially DEF PartInv
<1> QED BY <1>1, <1>2 DEF PartInv

LEMMA PartSteps == PartInv /\ [PartsNext]_partsVars => PartInv'
<1> SUFFICES ASSUME PartInv, [PartsNext]_partsVars PROVE PartInv'
  OBVIOUS
<1>1. part' = part
  BY DEF PartsNext, partsVars
<1>2. CASE part = "monitors"
  <2>1. [M!Next]_M!vars
    BY <1>2 DEF PartsNext, partsVars, monitorVars, M!vars, M!lockVars, M!dataVars
  <2>2. MonitorInv'
    BY <1>2, <2>1, InstancesAssumption, MonitorInductive DEF PartInv
  <2> QED BY <1>1, <1>2, <2>2 DEF PartInv
<1>3. CASE part = "rw_mutex"
  <2>1. [M!RwNext]_M!rwVars
    BY <1>3 DEF PartsNext, partsVars, rwVars, M!rwVars
  <2>2. RwInv'
    BY <1>3, <2>1, InstancesAssumption, RwInductive DEF PartInv
  <2> QED BY <1>1, <1>3, <2>2 DEF PartInv
<1> QED BY <1>1, <1>2, <1>3 DEF PartInv

\* MonitorsAreSound: the same of the composition that the run checks: in every
\* behaviour in which the monitors run, MonitorsHold, and in every one in which
\* scopes of an rw_mutex do, HoldersHold; the rest of the state stays as it is.
THEOREM MonitorsAreSoundHere == PartsSpec => []MonitorsAreSound
<1>1. PartInv => MonitorsAreSound
  BY DEF PartInv, MonitorsAreSound, MonitorInv, MTypeInv, MutexInv, DataInv,
         M!MonitorsHold, M!Recursive, RwInv
<1> QED BY <1>1, PartInitially, PartSteps, PTL DEF PartsSpec
==============================================================================
