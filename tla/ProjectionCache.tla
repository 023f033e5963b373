--------------------------- MODULE ProjectionCache --------------------------
(***************************************************************************)
(* nearest_neighbor::random_projection_cache: threads that project feature *)
(* vectors share a common::lru of the random vectors, one per feature      *)
(* seed, under its lock.  A thread looks a seed up and, when it is not     *)
(* there, computes its vector without the lock and then sets it.           *)
(*                                                                         *)
(* The lru is a doubly linked list from head_, the oldest, to tail_, and a *)
(* map of its nodes.  A pointer is the key of the node it points to, or    *)
(* Null; a pointer to a key that is not in the map dangles.  What the code *)
(* does once it follows such a pointer is undefined, and the model stops   *)
(* there.                                                                  *)
(***************************************************************************)
EXTENDS Integers, Sequences, FiniteSets, Functions

CONSTANTS Thread,
          Key,     \* seeds
          Null,
          MaxSize  \* cache_size

VARIABLES map,    \* map_: seed -> the vector stored, as the seeds it was made of
          prev,   \* prev of each node
          next,   \* next of each node
          head,   \* head_
          tail,   \* tail_
          thread, \* the seed a thread computes, or Null
          grnd,   \* grnd_cache of each thread
          recent, \* history: the seeds by their last use, oldest first
          lone    \* history: a node was touched while it was the only one

list == <<map, prev, next, head, tail>>
vars == <<list, thread, grnd, recent, lone>>

Keys == DOMAIN map
Without(f, k) == Restrict(f, DOMAIN f \ {k})
Later(k) == SelectSeq(recent, LAMBDA j : j # k)

Init ==
    /\ map = [k \in {} |-> <<>>]
    /\ prev = [k \in {} |-> Null]
    /\ next = [k \in {} |-> Null]
    /\ head = Null
    /\ tail = Null
    /\ thread = [t \in Thread |-> Null]
    /\ grnd = [t \in Thread |-> <<>>]
    /\ recent = <<>>
    /\ lone = FALSE

---------------------------------------------------------------------------
(* The list, as a record so that its operations compose.                   *)

List == [map |-> map, prev |-> prev, next |-> next, head |-> head, tail |-> tail]

Install(l) ==
    /\ map' = l.map
    /\ prev' = l.prev
    /\ next' = l.next
    /\ head' = l.head
    /\ tail' = l.tail

\* remove_link: the node's own prev and next stay
RemoveLink(l, k) ==
    LET p == l.prev[k]
        n == l.next[k]
    IN [l EXCEPT !.next = IF p # Null THEN [@ EXCEPT ![p] = n] ELSE @,
                 !.head = IF p = Null /\ @ = k THEN n ELSE @,
                 !.prev = IF n # Null THEN [@ EXCEPT ![n] = p] ELSE @,
                 !.tail = IF n = Null /\ @ = k THEN p ELSE @]

\* touch(Node*): head_ is left alone, although RemoveLink may have made it Null
Touch(l, k) ==
    LET u == RemoveLink(l, k)
    IN [u EXCEPT !.next = [i \in DOMAIN @ |->
                              IF i = k THEN Null ELSE IF i = u.tail THEN k ELSE @[i]],
                 !.prev = [@ EXCEPT ![k] = u.tail],
                 !.tail = k]

\* remove
Remove(l, k) ==
    LET u == RemoveLink(l, k)
    IN [u EXCEPT !.map = Without(@, k), !.prev = Without(@, k), !.next = Without(@, k)]

\* Mutant of Evict: one node too many stays.
EvictLate(l) ==
    IF Cardinality(DOMAIN l.map) > MaxSize /\ l.head # Null THEN Remove(l, l.head) ELSE l

\* The loop of set.  A second turn would follow a head_ that dangles, as the
\* map is over MaxSize only when a node is not reached from head_.
Evict(l) ==
    IF Cardinality(DOMAIN l.map) >= MaxSize /\ l.head # Null THEN Remove(l, l.head) ELSE l

\* set of a key that is not there
Set(l, k, v) ==
    LET u == Evict(l)
    IN [map  |-> [i \in DOMAIN u.map \cup {k} |-> IF i = k THEN v ELSE u.map[i]],
        prev |-> [i \in DOMAIN u.prev \cup {k} |-> IF i = k THEN u.tail ELSE u.prev[i]],
        next |-> [i \in DOMAIN u.next \cup {k} |->
                     IF i = k THEN Null ELSE IF i = u.tail THEN k ELSE u.next[i]],
        head |-> IF u.head = Null THEN k ELSE u.head,
        tail |-> k]

HeadAlive == head \in Keys \cup {Null}

---------------------------------------------------------------------------
(* The threads.                                                            *)

Used(k) ==
    /\ Install(Touch(List, k))
    /\ recent' = Append(Later(k), k)
    /\ lone' = (lone \/ Keys = {k})

\* check_cache, hit
Hit(t, k) ==
    /\ HeadAlive
    /\ thread[t] = Null
    /\ k \in Keys
    /\ Used(k)
    /\ UNCHANGED <<thread, grnd>>

\* check_cache, miss: the vector is computed, also into grnd_cache
Miss(t, k) ==
    /\ thread[t] = Null
    /\ k \notin Keys
    /\ thread' = [thread EXCEPT ![t] = k]
    /\ grnd' = [grnd EXCEPT ![t] = Append(@, k)]
    /\ UNCHANGED <<list, recent, lone>>

\* Mutant of Store: grnd_cache is not cleared when another thread was faster.
StoreClearsIfSet(t) ==
    LET k == thread[t]
    IN /\ HeadAlive
       /\ k # Null
       /\ IF k \in Keys
          THEN Used(k) /\ UNCHANGED grnd
          ELSE /\ Install(Set(List, k, grnd[t]))
               /\ recent' = Append(Later(k), k)
               /\ grnd' = [grnd EXCEPT ![t] = <<>>]
               /\ UNCHANGED lone
       /\ thread' = [thread EXCEPT ![t] = Null]

\* lru_set_cache_if_enabled
Store(t) ==
    LET k == thread[t]
    IN /\ HeadAlive
       /\ k # Null
       /\ IF k \in Keys
          THEN Used(k)
          ELSE /\ Install(Set(List, k, grnd[t]))
               /\ recent' = Append(Later(k), k)
               /\ UNCHANGED lone
       /\ grnd' = [grnd EXCEPT ![t] = <<>>]
       /\ thread' = [thread EXCEPT ![t] = Null]

Next ==
    \/ \E t \in Thread, k \in Key : Hit(t, k) \/ Miss(t, k)
    \/ \E t \in Thread : Store(t)

Spec == Init /\ [][Next]_vars

---------------------------------------------------------------------------
\* Type invariant.
TypeOK ==
    /\ Keys \subseteq Key
    /\ DOMAIN prev = Keys /\ DOMAIN next = Keys
    /\ \A k \in Keys : prev[k] \in Key \cup {Null} /\ next[k] \in Key \cup {Null}
    /\ head \in Key \cup {Null} /\ tail \in Key \cup {Null}
    /\ thread \in [Thread -> Key \cup {Null}]
    /\ grnd \in [Thread -> Seq(Key)]

\* What is stored under a seed is that seed's vector and nothing else,
\* whichever threads looked, computed and set in between.
VectorsRight == \A k \in Keys : map[k] = <<k>>

\* The newest MaxSize seeds are those in the map, and the list runs through
\* them by their last use in both directions: as long as no node was touched
\* while it was the only one.
Cached == IF Len(recent) <= MaxSize THEN recent
          ELSE SubSeq(recent, Len(recent) - MaxSize + 1, Len(recent))

OldestLeaves ==
    ~lone =>
        LET n == Len(Cached)
        IN /\ Keys = {Cached[i] : i \in 1..n}
           /\ head = (IF n = 0 THEN Null ELSE Cached[1])
           /\ tail = (IF n = 0 THEN Null ELSE Cached[n])
           /\ \A i \in 1..n :
                 /\ prev[Cached[i]] = (IF i = 1 THEN Null ELSE Cached[i - 1])
                 /\ next[Cached[i]] = (IF i = n THEN Null ELSE Cached[i + 1])

\* What a full cache discards is the vector not used for longest.
OldestDiscarded == [][\A k \in Keys \ DOMAIN map' : k = Cached[1]]_vars
=============================================================================
