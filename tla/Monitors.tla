------------------------------ MODULE Monitors ------------------------------
(***************************************************************************)
(* util/concurrent: the containers that block, pcbuf, mvar, chan and qsem, *)
(* as the programs their calls are, over mutex_base (holder and cnt kept   *)
(* beside the pthread mutex) and condition (which puts both away while it  *)
(* waits), and, in the second part, the scopes of rw_mutex. Threads make   *)
(* the calls of a workload; every instruction is a step of its own.        *)
(***************************************************************************)
EXTENDS Integers, FiniteSets, Sequences, TLC

CONSTANTS Thread,
          NoThread, Released,    \* holder: -1, and 0 while waiting
          Workload,              \* kind, capacity, quantity and the calls of every thread
          MaxSpurious            \* waits that end without a reason

SpuriousAssumption == MaxSpurious \in Nat

\* The calls of each kind, a pcbuf, an mvar, a chan and a qsem.
CallsOf(kind) ==
    CASE kind = "pcbuf" -> {"push", "pop", "pop_timed", "clear"}
      [] kind = "mvar"  -> {"push", "pop", "read", "swap"}
      [] kind = "chan"  -> {"push", "pop", "unget"}
      [] kind = "qsem"  -> {"wait", "signal"}

WorkloadAssumption ==
    /\ NoThread \notin Thread /\ Released \notin Thread
    /\ \A w \in Workload :
          /\ w.kind \in {"pcbuf", "mvar", "chan", "qsem"}
          /\ w.capacity \in Nat /\ w.quantity \in Nat
          /\ w.calls \in [Thread -> Seq(CallsOf(w.kind))]

VARIABLES load,      \* the workload, fixed
          owner,     \* who has the pthread mutex
          holder, cnt,           \* fields of mutex_base::impl; cnt = -1 if not recursive
          saved,     \* thread -> what condition_impl::wait has put away
          q,         \* the values held: of a pcbuf, of an mvar at most one
          quantity,  \* of a qsem
          pc,        \* thread -> "run", "wait", "woken", "expired" or "end"
          calls,     \* thread -> calls not begun yet
          prog,      \* thread -> instructions left of the call it is in
          depth,     \* history: locks a thread took and has not given back
          sent, received,        \* history: values in the order they went in and out
          spurious

lockVars == <<owner, holder, cnt, saved, depth>>
dataVars == <<q, quantity, sent, received>>
vars == <<load, lockVars, dataVars, pc, calls, prog, spurious>>

Recursive == load.kind # "pcbuf"

Guarded(body) == <<"lock">> \o body \o <<"unlock">>
Notified(body) == Guarded(body) \o <<"notify">>

\* Mutant of Program: only the calls that put something in wake others.
ProgramPutsNotify(c) ==
    CASE c = "push"   -> Notified(<<"await_room", "put">>)
      [] c = "pop"    -> Guarded(<<"await_value", "take">>)
      [] c = "pop_timed" -> Guarded(<<"await_value_timed", "take">>)
      [] c = "clear"  -> Notified(<<"clear">>)
      [] c = "read"   -> Guarded(<<"await_value">>)
      [] c = "swap"   -> Guarded(Guarded(<<"await_value", "take">>) \o Notified(<<"await_room", "put">>))
      [] c = "unget"  -> Notified(<<"take_back">>)
      [] c = "wait"   -> Guarded(<<"await_quantity", "take_quantity">>)
      [] c = "signal" -> Notified(<<"add_quantity">>)

\* The instructions of a call.  chan::write puts into every channel of its link
\* with that channel's lock, without a bound; here there is one.
Program(c) ==
    CASE c = "push"   -> IF load.kind = "chan" THEN Notified(<<"put">>)
                         ELSE Notified(<<"await_room", "put">>)
      [] c = "pop"    -> IF load.kind = "chan" THEN Guarded(<<"await_value", "take">>)
                         ELSE Notified(<<"await_value", "take">>)
      [] c = "pop_timed" -> Notified(<<"await_value_timed", "take">>)
      [] c = "clear"  -> Notified(<<"clear">>)
      [] c = "read"   -> Guarded(<<"await_value">>)
      [] c = "swap"   -> Notified(Notified(<<"await_value", "take">>) \o Notified(<<"await_room", "put">>))
      [] c = "unget"  -> Notified(<<"take_back">>)
      [] c = "wait"   -> Guarded(<<"await_quantity", "take_quantity">>)
      [] c = "signal" -> Notified(<<"add_quantity">>)

Init ==
    /\ load \in Workload
    /\ owner = NoThread /\ holder = NoThread /\ cnt = IF load.kind = "pcbuf" THEN -1 ELSE 0
    /\ saved = [t \in Thread |-> 0] /\ depth = saved
    /\ q = <<>> /\ quantity = load.quantity /\ sent = <<>> /\ received = <<>>
    /\ pc = [t \in Thread |-> "run"] /\ calls = load.calls
    /\ prog = [t \in Thread |-> <<>>] /\ spurious = 0

---------------------------------------------------------------------------
Begin(t) ==
    /\ pc[t] = "run" /\ prog[t] = <<>>
    /\ IF calls[t] = <<>> THEN pc' = [pc EXCEPT ![t] = "end"] /\ UNCHANGED <<calls, prog>>
       ELSE /\ prog' = [prog EXCEPT ![t] = Program(Head(calls[t]))]
            /\ calls' = [calls EXCEPT ![t] = Tail(@)]
            /\ UNCHANGED pc
    /\ UNCHANGED <<load, lockVars, dataVars, spurious>>

At(t, name) == pc[t] = "run" /\ prog[t] # <<>> /\ Head(prog[t]) = name
Step(t) == prog' = [prog EXCEPT ![t] = Tail(@)]

\* mutex_base::impl::lock: a recursive mutex counts what its holder takes again.
Lock(t) ==
    /\ At(t, "lock")
    /\ IF cnt >= 0 /\ holder = t THEN cnt' = cnt + 1 /\ UNCHANGED <<owner, holder>>
       ELSE /\ owner = NoThread
            /\ owner' = t /\ holder' = t
            /\ cnt' = IF cnt < 0 THEN cnt ELSE 1
    /\ depth' = [depth EXCEPT ![t] = @ + 1]
    /\ Step(t) /\ UNCHANGED <<load, saved, dataVars, pc, calls, spurious>>

\* Mutant of Unlock: an inner unlock gives the mutex away.
UnlockInner(t) ==
    /\ At(t, "unlock")
    /\ owner' = NoThread /\ holder' = NoThread
    /\ cnt' = IF cnt < 0 THEN cnt ELSE 0
    /\ depth' = [depth EXCEPT ![t] = @ - 1]
    /\ Step(t) /\ UNCHANGED <<load, saved, dataVars, pc, calls, spurious>>

Unlock(t) ==
    /\ At(t, "unlock")
    /\ CASE cnt < 0 -> owner' = NoThread /\ holder' = NoThread /\ UNCHANGED cnt
         [] cnt >= 0 /\ holder = t /\ cnt = 1 -> owner' = NoThread /\ holder' = NoThread /\ cnt' = 0
         [] cnt >= 0 /\ holder = t /\ cnt # 1 -> cnt' = cnt - 1 /\ UNCHANGED <<owner, holder>>
         [] cnt >= 0 /\ holder # t -> UNCHANGED <<owner, holder, cnt>>
    /\ depth' = [depth EXCEPT ![t] = @ - 1]
    /\ Step(t) /\ UNCHANGED <<load, saved, dataVars, pc, calls, spurious>>

Awaited(t) ==
    CASE prog[t] = <<>> -> FALSE
      [] At(t, "await_room") -> Len(q) < load.capacity
      [] At(t, "await_value") \/ At(t, "await_value_timed") -> q # <<>>
      [] At(t, "await_quantity") -> quantity >= 1
      [] OTHER -> FALSE
Awaiting(t) == \E w \in {"await_room", "await_value", "await_value_timed", "await_quantity"} : At(t, w)

Pass(t) ==
    /\ Awaiting(t) /\ Awaited(t)
    /\ Step(t) /\ UNCHANGED <<load, lockVars, dataVars, pc, calls, spurious>>

\* condition_impl::wait, up to the point where pthread_cond_wait sleeps.
Wait(t) ==
    /\ Awaiting(t) /\ ~Awaited(t) /\ holder = t
    /\ saved' = [saved EXCEPT ![t] = cnt]
    /\ owner' = NoThread
    /\ IF cnt >= 0 THEN holder' = Released /\ cnt' = 0 ELSE UNCHANGED <<holder, cnt>>
    /\ pc' = [pc EXCEPT ![t] = "wait"]
    /\ UNCHANGED <<load, depth, dataVars, calls, prog, spurious>>

\* It returns with the mutex, and finds the condition in its loop again; a
\* timed call that has run out returns false.
Reacquire(t) ==
    /\ pc[t] \in {"woken", "expired"} /\ owner = NoThread
    /\ owner' = t /\ holder' = t /\ cnt' = saved[t]
    /\ prog' = IF pc[t] = "expired" THEN [prog EXCEPT ![t] = <<"unlock">>] ELSE prog
    /\ pc' = [pc EXCEPT ![t] = "run"]
    /\ UNCHANGED <<load, saved, depth, dataVars, calls, spurious>>

Spurious(t) ==
    /\ pc[t] = "wait" /\ spurious < MaxSpurious
    /\ pc' = [pc EXCEPT ![t] = "woken"] /\ spurious' = spurious + 1
    /\ UNCHANGED <<load, lockVars, dataVars, calls, prog>>

Expire(t) ==
    /\ pc[t] = "wait" /\ Head(prog[t]) = "await_value_timed"
    /\ pc' = [pc EXCEPT ![t] = "expired"]
    /\ UNCHANGED <<load, lockVars, dataVars, calls, prog, spurious>>

Notify(t) ==
    /\ At(t, "notify")
    /\ pc' = [u \in Thread |-> IF pc[u] = "wait" THEN "woken" ELSE pc[u]]
    /\ Step(t) /\ UNCHANGED <<load, lockVars, dataVars, calls, spurious>>

\* Values are numbered in the order in which they go in.
Access(t) ==
    /\ \/ /\ At(t, "put")
          /\ q' = Append(q, Len(sent) + 1) /\ sent' = Append(sent, Len(sent) + 1)
          /\ UNCHANGED <<quantity, received>>
       \/ /\ At(t, "take")
          /\ q' = Tail(q) /\ received' = Append(received, Head(q))
          /\ UNCHANGED <<quantity, sent>>
       \/ /\ At(t, "take_back")      \* what was received last is put in front
          /\ q' = IF received = <<>> THEN q ELSE <<received[Len(received)]>> \o q
          /\ received' = IF received = <<>> THEN received ELSE SubSeq(received, 1, Len(received) - 1)
          /\ UNCHANGED <<quantity, sent>>
       \/ /\ At(t, "clear")
          /\ q' = <<>> /\ received' = received \o q /\ UNCHANGED <<quantity, sent>>
       \/ /\ At(t, "take_quantity")
          /\ quantity' = quantity - 1 /\ UNCHANGED <<q, sent, received>>
       \/ /\ At(t, "add_quantity")
          /\ quantity' = quantity + 1 /\ UNCHANGED <<q, sent, received>>
    /\ Step(t) /\ UNCHANGED <<load, lockVars, pc, calls, spurious>>

Move(t) == Begin(t) \/ Lock(t) \/ Unlock(t) \/ Pass(t) \/ Wait(t) \/ Reacquire(t) \/ Notify(t) \/ Access(t)

Next == \E t \in Thread :
    \/ Begin(t) \/ Lock(t) \/ Unlock(t) \/ Pass(t) \/ Wait(t) \/ Reacquire(t) \/ Notify(t) \/ Access(t)
    \/ Spurious(t) \/ Expire(t)

\* Threads run; time passes.  Nothing is assumed of who gets a free mutex: calls
\* are finitely many, so whoever overtakes stops doing so.
Spec == Init /\ [][Next]_vars /\ \A t \in Thread : WF_vars(Move(t)) /\ WF_vars(Expire(t))

---------------------------------------------------------------------------
\* The mutex keeps its word through waits and nested calls: whoever runs between
\* lock and unlock is its one holder and counts the locks it took; nothing is
\* lost, doubled or reordered; and no bound is passed.
MonitorsHold ==
    /\ \A t \in Thread : pc[t] = "run" /\ depth[t] > 0 =>
        owner = t /\ holder = t /\ (cnt >= 0 => cnt = depth[t])
    /\ received \o q = sent
    /\ load.kind # "chan" => Len(q) <= load.capacity
    /\ quantity >= 0

\* Calls that can be served return: nobody sleeps on a value, on room or on
\* quantity that is there.
AllServed == \A t \in Thread : pc[t] = "end"
CallsAreServed == <>AllServed

---------------------------------------------------------------------------
(***************************************************************************)
(* util/concurrent/rwmutex: rw_mutex over a rwlock of POSIX that prefers   *)
(* writers, and scoped_rwlock, whose destructor unlocks if the constructor *)
(* was told that it has the lock.  Threads enter and leave scopes of one   *)
(* mutex, waiting for ever, for a while, or not at all.                    *)
(***************************************************************************)

CONSTANTS Script   \* what the threads may do: thread -> sequence of scopes

\* Every scope but the read lock that does not wait, see TryTaken.
ScriptAssumption ==
    /\ NoThread \notin Thread
    /\ Script \subseteq [Thread -> Seq({"rlock", "rlock_timed", "wlock", "wlock_timed", "wlock_now"})]

VARIABLES script,        \* the scopes a thread still enters
          mode,          \* "out", "asking" or "in" its current scope
          readers, writer,       \* the state of the rwlock
          need_unlock    \* what scoped_rwlock remembers

rwVars == <<script, mode, readers, writer, need_unlock>>

Scope == {"rlock", "rlock_timed", "rlock_now", "wlock", "wlock_timed", "wlock_now"}
Read == {"rlock", "rlock_timed", "rlock_now"}
Timed == {"rlock_timed", "wlock_timed"}
AtOnce == {"rlock_now", "wlock_now"}

RwInit ==
    /\ script \in Script
    /\ mode = [t \in Thread |-> "out"]
    /\ readers = {} /\ writer = NoThread
    /\ need_unlock = [t \in Thread |-> FALSE]

Wish(t) == Head(script[t])
Has(t) == t \in readers \/ writer = t

\* pthread_rwlock: a reader that comes waits for the writers that wait already.
Free(t) ==
    /\ writer = NoThread
    /\ IF Wish(t) \in Read
       THEN \A u \in Thread \ {t} : mode[u] = "asking" => Wish(u) \in Read
       ELSE readers = {}

Take(t) ==
    IF Wish(t) \in Read THEN readers' = readers \cup {t} /\ UNCHANGED writer
    ELSE writer' = t /\ UNCHANGED readers

Told(t, answer) ==
    /\ need_unlock' = [need_unlock EXCEPT ![t] = answer]
    /\ mode' = [mode EXCEPT ![t] = "in"]
    /\ UNCHANGED script

---------------------------------------------------------------------------
Ask(t) ==
    /\ mode[t] = "out" /\ script[t] # <<>> /\ Wish(t) \notin AtOnce
    /\ mode' = [mode EXCEPT ![t] = "asking"]
    /\ UNCHANGED <<script, readers, writer, need_unlock>>

Acquire(t) ==
    /\ mode[t] = "asking" /\ Free(t)
    /\ Take(t) /\ Told(t, TRUE)

\* Mutant of RwExpire: time that is up counts as the lock.
ExpireAsTaken(t) ==
    /\ mode[t] = "asking" /\ Wish(t) \in Timed /\ ~Free(t)
    /\ Told(t, TRUE) /\ UNCHANGED <<readers, writer>>

RwExpire(t) ==
    /\ mode[t] = "asking" /\ Wish(t) \in Timed /\ ~Free(t)
    /\ Told(t, FALSE) /\ UNCHANGED <<readers, writer>>

\* read_lock(0) gives back what pthread_rwlock_tryrdlock does, an error number;
\* write_lock(0) compares it with 0.
TryTaken(t) ==
    /\ mode[t] = "out" /\ script[t] # <<>> /\ Wish(t) \in AtOnce /\ Free(t)
    /\ Take(t) /\ Told(t, Wish(t) = "wlock_now")

TryBusy(t) ==
    /\ mode[t] = "out" /\ script[t] # <<>> /\ Wish(t) \in AtOnce /\ ~Free(t)
    /\ Told(t, Wish(t) = "rlock_now") /\ UNCHANGED <<readers, writer>>

\* ~scoped_rwlock.  A thread that unlocks what it has not is not followed.
Leave(t) ==
    /\ mode[t] = "in" /\ (need_unlock[t] => Has(t))
    /\ IF need_unlock[t]
       THEN /\ readers' = readers \ {t}
            /\ writer' = IF writer = t THEN NoThread ELSE writer
       ELSE UNCHANGED <<readers, writer>>
    /\ need_unlock' = [need_unlock EXCEPT ![t] = FALSE]
    /\ mode' = [mode EXCEPT ![t] = "out"]
    /\ script' = [script EXCEPT ![t] = Tail(@)]

RwNext == \E t \in Thread :
    Ask(t) \/ Acquire(t) \/ RwExpire(t) \/ TryTaken(t) \/ TryBusy(t) \/ Leave(t)

RwSpec == RwInit /\ [][RwNext]_rwVars

---------------------------------------------------------------------------
\* A scope that was told it has the lock has it and no other does, one that was
\* told it has not has not, and outside of scopes nobody keeps it.
HoldersHold ==
    /\ \A t \in Thread : Has(t) <=> mode[t] = "in" /\ need_unlock[t]
    /\ writer # NoThread => readers = {}
=============================================================================
