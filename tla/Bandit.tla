------------------------------- MODULE Bandit -------------------------------
(***************************************************************************)
(* The bandit methods over bandit/summation_storage, behind driver::bandit *)
(* on several servers.  Scores and chance choose among the arms as they    *)
(* like; only ucb1 is bound by what the storage holds.  Rewards are 0 or 1,*)
(* as Thompson sampling wants them.                                        *)
(***************************************************************************)
EXTENDS Integers, FiniteSets, Sequences, SequencesExt, FiniteSetsExt

CONSTANTS Server, Player, Arm,
          MaxOps, MaxRounds  \* bounds

SetsAssumption == IsFiniteSet(Server) /\ IsFiniteSet(Arm)

VARIABLES method,            \* which of Methods, fixed
          assume_unrewarded, \* whether selecting counts as a trial, fixed
          arm_ids,           \* server -> the registered arms, in order
          table,             \* server -> [mixed, unmixed]: player -> [total, arms]
          total,             \* the difference mixed so far
          todo, phase,
          saved,             \* the last model that was packed, anywhere
          given,             \* trials given to an arm for a player, anywhere
          again,             \* trials known twice, of lost puts and unpacked models
          ops, rounds

mixVars == <<total, todo, phase, rounds>>
around == <<mixVars, saved, again>>
settings == <<method, assume_unrewarded>>
vars == <<settings, arm_ids, table, around, given, ops>>

Methods == {"epsilon_greedy", "epsilon_decreasing", "softmax", "exp3", "ucb1", "ts"}

NoPlayers == [p \in {} |-> [total |-> 0, arms |-> <<>>]]

Init ==
    /\ method \in Methods /\ assume_unrewarded \in BOOLEAN
    /\ arm_ids = [s \in Server |-> <<>>]
    /\ table = [s \in Server |-> [mixed |-> NoPlayers, unmixed |-> NoPlayers]]
    /\ total = NoPlayers /\ todo = {} /\ phase = "idle"
    /\ saved = [arm_ids |-> <<>>, table |-> [mixed |-> NoPlayers, unmixed |-> NoPlayers]]
    /\ given = [p \in Player |-> [a \in Arm |-> 0]]
    /\ again = [p \in Player |-> [a \in Arm |-> 0]]
    /\ ops = 0 /\ rounds = 0

None == [trials |-> 0, weight |-> 0]
Info(t, p, a) == IF p \in DOMAIN t /\ a \in DOMAIN t[p].arms THEN t[p].arms[a] ELSE None
get_arm_info(s, p, a) ==
    LET m == Info(table[s].mixed, p, a)
        u == Info(table[s].unmixed, p, a)
    IN  [trials |-> m.trials + u.trials, weight |-> m.weight + u.weight]

Op == ops < MaxOps /\ ops' = ops + 1 /\ UNCHANGED <<settings, around>>

\* A new arm is added to the entries of all players that are not mixed yet.
WithArm(t, a) ==
    [p \in DOMAIN t |-> [total |-> t[p].total,
                         arms |-> [b \in DOMAIN t[p].arms \cup {a} |-> Info(t, p, b)]]]

register_arm(s, a) ==
    /\ Op
    /\ ~Contains(arm_ids[s], a)
    /\ arm_ids' = [arm_ids EXCEPT ![s] = Append(@, a)]
    /\ table' = [table EXCEPT ![s].unmixed = WithArm(@, a)]
    /\ UNCHANGED given

WithoutArm(t, a) ==
    [p \in DOMAIN t |-> [total |-> t[p].total - Info(t, p, a).trials,
                         arms |-> [b \in DOMAIN t[p].arms \ {a} |-> t[p].arms[b]]]]

delete_arm(s, a) ==
    /\ Op
    /\ table' = [table EXCEPT ![s] = [mixed |-> WithoutArm(@.mixed, a), unmixed |-> WithoutArm(@.unmixed, a)]]
    /\ arm_ids' = [arm_ids EXCEPT ![s] = RemoveFirst(@, a)]
    /\ UNCHANGED given

\* get_counted_arm_info_map_: a player's entry, made when first needed
Entered(s, p) ==
    LET t == table[s].unmixed
    IN  [q \in DOMAIN t \cup {p} |->
            IF q \in DOMAIN t THEN t[q]
            ELSE [total |-> 0, arms |-> [a \in ToSet(arm_ids[s]) |-> None]]]

\* k trials and the weight w more for an arm of a player's entry
Counted(t, p, a, k, w) ==
    LET e == t[p]
    IN  [t EXCEPT ![p] =
            [total |-> e.total + k,
             arms |-> [e.arms EXCEPT ![a] = [trials |-> e.arms[a].trials + k,
                                             weight |-> e.arms[a].weight + w]]]]

\* k trials and the weight w for an arm; it throws, the entry made, when the
\* entry does not have the arm
Add(s, p, a, k, w) ==
    LET t == Entered(s, p)
    IN  IF a \notin DOMAIN t[p].arms
        THEN table' = [table EXCEPT ![s].unmixed = t] /\ UNCHANGED given
        ELSE /\ table' = [table EXCEPT ![s].unmixed = Counted(t, p, a, k, w)]
             /\ given' = [given EXCEPT ![p][a] = @ + k]

notify_selected(s, p, a) ==
    IF assume_unrewarded THEN Add(s, p, a, 1, 0) ELSE UNCHANGED <<table, given>>

\* The arms select_arm may choose: the first untried one for ucb1
ucb1_select_arm(s, p) ==
    LET untried == {i \in DOMAIN arm_ids[s] : get_arm_info(s, p, arm_ids[s][i]).trials = 0}
    IN  IF untried = {} THEN ToSet(arm_ids[s]) ELSE {arm_ids[s][Min(untried)]}
any_select_arm(s, p) == ToSet(arm_ids[s])

select_arm(s, p) ==
    /\ Op
    /\ \E a \in IF method = "ucb1" THEN ucb1_select_arm(s, p) ELSE any_select_arm(s, p) :
          notify_selected(s, p, a)
    /\ UNCHANGED arm_ids

\* exp3 and ts return before they touch the storage for an unknown arm; exp3
\* divides the reward by the arm's weight, which does not matter here
register_reward(s, p, a, reward) ==
    /\ Op
    /\ method \in {"exp3", "ts"} => Contains(arm_ids[s], a)
    /\ Add(s, p, a, IF assume_unrewarded THEN 0 ELSE 1, reward)
    /\ UNCHANGED arm_ids

reset(s, p) ==
    /\ Op
    /\ table' = [table EXCEPT ![s] = [mixed |-> [q \in DOMAIN @.mixed \ {p} |-> @.mixed[q]],
                                      unmixed |-> [q \in DOMAIN @.unmixed \ {p} |-> @.unmixed[q]]]]
    /\ UNCHANGED <<arm_ids, given>>

clear(s) ==
    /\ Op
    /\ arm_ids' = [arm_ids EXCEPT ![s] = <<>>]
    /\ table' = [table EXCEPT ![s] = [mixed |-> NoPlayers, unmixed |-> NoPlayers]]
    /\ UNCHANGED given

\* (as long as an unpack may follow)
pack(s) ==
    /\ ops < MaxOps
    /\ saved' = [arm_ids |-> arm_ids[s], table |-> table[s]]
    /\ UNCHANGED <<settings, mixVars, arm_ids, table, given, again, ops>>

\* unpack of that model, be it the server's own or another's: arms and both
\* tables are replaced
unpack(s) ==
    /\ ops < MaxOps /\ ops' = ops + 1
    /\ arm_ids' = [arm_ids EXCEPT ![s] = saved.arm_ids]
    /\ table' = [table EXCEPT ![s] = saved.table]
    /\ again' = [p \in Player |-> [a \in Arm |->
                   again[p][a] + Info(saved.table.mixed, p, a).trials + Info(saved.table.unmixed, p, a).trials]]
    /\ UNCHANGED <<settings, mixVars, saved, given>>

---------------------------------------------------------------------------
(* MIX.                                                                    *)

\* mix: counts are added up, totals too
mix(l, r) ==
    [p \in DOMAIN l \cup DOMAIN r |->
        IF p \notin DOMAIN l THEN r[p]
        ELSE [total |-> l[p].total + (IF p \in DOMAIN r THEN r[p].total ELSE 0),
              arms |-> [a \in DOMAIN l[p].arms \cup (IF p \in DOMAIN r THEN DOMAIN r[p].arms ELSE {}) |->
                           [trials |-> Info(l, p, a).trials + Info(r, p, a).trials,
                            weight |-> Info(l, p, a).weight + Info(r, p, a).weight]]]]

StartRound ==
    /\ phase = "idle" /\ rounds < MaxRounds
    /\ rounds' = rounds + 1 /\ phase' = "gather" /\ todo' = Server /\ total' = NoPlayers
    /\ UNCHANGED <<settings, arm_ids, table, saved, given, again, ops>>

Gather(s) ==
    /\ phase = "gather" /\ s \in todo
    /\ total' = mix(table[s].unmixed, total)
    /\ todo' = IF todo = {s} THEN Server ELSE todo \ {s}
    /\ phase' = IF todo = {s} THEN "put" ELSE phase
    /\ UNCHANGED <<settings, arm_ids, table, saved, given, again, ops, rounds>>

\* Mutant of put_diff: what was sent is not cleared.
put_diffKeeps(t, d) == [mixed |-> mix(d, t.mixed), unmixed |-> t.unmixed]

\* put_diff clears whatever was not mixed, be it in the difference or not
put_diff(t, d) == [mixed |-> mix(d, t.mixed), unmixed |-> NoPlayers]

Put(s) ==
    /\ phase = "put" /\ s \in todo
    /\ table' = [table EXCEPT ![s] = put_diff(@, total)]
    /\ todo' = todo \ {s}
    /\ phase' = IF todo = {s} THEN "idle" ELSE phase
    /\ UNCHANGED <<settings, arm_ids, total, saved, given, again, ops, rounds>>

\* The difference does not reach a server, which keeps what it gave and, as no
\* version tells it apart, gives it again in the next round.
LosePut(s) ==
    /\ phase = "put" /\ s \in todo
    /\ again' = [p \in Player |-> [a \in Arm |-> again[p][a] + Info(table[s].unmixed, p, a).trials]]
    /\ todo' = todo \ {s}
    /\ phase' = IF todo = {s} THEN "idle" ELSE phase
    /\ UNCHANGED <<settings, arm_ids, table, total, saved, given, ops, rounds>>

Next ==
    \/ \E s \in Server, a \in Arm : register_arm(s, a) \/ delete_arm(s, a)
    \/ \E s \in Server, p \in Player : select_arm(s, p) \/ reset(s, p)
    \/ \E s \in Server, p \in Player, a \in Arm, reward \in {0, 1} : register_reward(s, p, a, reward)
    \/ \E s \in Server : clear(s) \/ pack(s) \/ unpack(s) \/ Gather(s) \/ Put(s) \/ LosePut(s)
    \/ StartRound

Spec == Init /\ [][Next]_vars

---------------------------------------------------------------------------
\* The total ucb1 and epsilon_decreasing divide by is the sum of the trials of
\* the arms, those another server still counted when they were deleted here
\* included: no order of deletions and mixes lets them drift apart.
TotalsMatch ==
    \A s \in Server, t \in {"mixed", "unmixed"} : \A p \in DOMAIN table[s][t] :
        LET e == table[s][t][p]
        IN  e.total = SumFunctionOnSet([a \in DOMAIN e.arms |-> e.arms[a].trials], DOMAIN e.arms)

\* No trial is counted twice but for a lost put or an unpacked model: no server
\* knows of more trials of an arm than were given anywhere, those a server still
\* had unmixed when it missed a put and those of the models unpacked.  And while
\* selecting does not count, no arm earns more than its trials, whatever is lost
\* or unpacked, as the parameters of ts's beta distribution must be positive.
TrialsCountedOnce ==
    \A s \in Server, p \in Player, a \in Arm :
        /\ get_arm_info(s, p, a).trials <= given[p][a] + again[p][a]
        /\ ~assume_unrewarded => get_arm_info(s, p, a).weight <= get_arm_info(s, p, a).trials

\* Both.
ArmsAddUp == TotalsMatch /\ TrialsCountedOnce
=============================================================================
