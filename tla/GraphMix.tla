------------------------------ MODULE GraphMix ------------------------------
(***************************************************************************)
(* graph/graph_wo_index behind driver::graph on several servers: nodes and *)
(* edges kept by the servers of their nodes, shortest path trees from      *)
(* landmarks and out degrees kept for each preset query and exchanged by   *)
(* MIX.  Properties of nodes are one of Prop, an edge's are fixed, and so  *)
(* are its ends.  The score of a node is left out, its place in the eigen  *)
(* vector and its out degree are not.                                      *)
(***************************************************************************)
EXTENDS Integers, FiniteSets, Sequences, Functions, SequencesExt

CONSTANTS Server,
          Order,       \* the ids of all nodes in the order an unordered_map lists them
          Home,        \* node -> the server that keeps it
          Edge,
          Ends,        \* edge -> its source and its target
          Prop,        \* what the property of a node may be
          Query,
          NodeQuery,   \* query -> the properties that match its node_query
          EdgeQuery,   \* query -> the edges that match its edge_query
          EmptyQuery,  \* the query without conditions
          LandmarkNum,
          MaxEdits,    \* bound on removals, updates and changes of queries
          MaxRounds    \* bound on the rounds of MIX

Vertex == ToSet(Order)

GraphConstants ==
    /\ Vertex \subseteq Nat /\ LandmarkNum \in Nat \ {0}
    /\ \A v \in Vertex : Home[v] \in Server
    /\ Ends \in [Edge -> Vertex \X Vertex]
    /\ NodeQuery \in [Query -> SUBSET Prop] /\ EdgeQuery \in [Query -> SUBSET Edge]

VARIABLES peers,   \* the servers there are, fixed
          nodes,   \* server -> local_nodes_: node -> [prop, ins, outs]
          edges,   \* server -> the ids of local_edges_
          spts,    \* server -> query -> its trees, each [landmark, to, from]
          eigen,   \* server -> query -> node -> out degree
          mixed,   \* the difference mixed so far
          todo,    \* servers that still have to give or to get
          phase,   \* "idle", "gather" or "put"
          edits, rounds,
          ever,    \* edges there ever were
          changed, \* whether anything was removed or updated
          quiet    \* rounds since the last edit, 0 while one is under way

graphVars == <<nodes, edges, spts, eigen>>
mixVars == <<mixed, todo, phase, rounds>>
vars == <<peers, graphVars, mixVars, edits, ever, changed, quiet>>

NoDiff == [eigen |-> <<>>, spt |-> <<>>]

Init ==
    /\ peers \in {{CHOOSE s \in Server : TRUE}, Server}
    /\ nodes = [s \in Server |-> <<>>]
    /\ edges = [s \in Server |-> {}]
    /\ \E Q \in {{}, Query} :
          spts = [s \in Server |-> [q \in Q |-> <<>>]] /\ eigen = [s \in Server |-> [q \in Q |-> <<>>]]
    /\ mixed = NoDiff
    /\ todo = {}
    /\ phase = "idle"
    /\ edits = 0 /\ rounds = 0
    /\ ever = {} /\ changed = FALSE /\ quiet = 0

\* Where a node is kept: the only server there is, or its home
Keeps(s, v) == peers = {s} \/ (peers = Server /\ Home[v] = s)

Matched(ns, q, v) == v \notin DOMAIN ns \/ ns[v].prop \in NodeQuery[q]

\* may_set_landmark leaves at the first query that is full or does not match;
\* queries are looked at in some order
may_set_landmark(sp, ns, v) ==
    LET Takes(q) == Len(sp[q]) # LandmarkNum /\ Matched(ns, q, v)
        Added(qs) == [q \in DOMAIN sp |->
            IF q \in qs THEN Append(sp[q], [landmark |-> v, to |-> <<>>, from |-> <<>>]) ELSE sp[q]]
    IN  UNION {{Added({o[i] : i \in 1..n}) : n \in
                   {k \in 0..Cardinality(DOMAIN sp) :
                       (\A i \in 1..k : Takes(o[i])) /\ (k < Len(o) => ~Takes(o[k + 1]))}} :
               o \in SetToSeqs(DOMAIN sp)}

Build(s) ==
    /\ s \in peers
    /\ quiet' = 0
    /\ UNCHANGED <<peers, mixVars>>

Edit(s) == Build(s) /\ edits < MaxEdits /\ edits' = edits + 1

\* create_node_here
create_node(s, v) ==
    /\ Build(s)
    /\ Keeps(s, v)
    /\ v \notin DOMAIN nodes[s]
    /\ \E p \in Prop : nodes' = [nodes EXCEPT ![s] = @ @@ (v :> [prop |-> p, ins |-> <<>>, outs |-> <<>>])]
    /\ \E sp \in may_set_landmark(spts[s], nodes'[s], v) : spts' = [spts EXCEPT ![s] = sp]
    /\ UNCHANGED <<edges, eigen, edits, ever, changed>>

update_node(s, v) ==
    /\ Edit(s)
    /\ v \in DOMAIN nodes[s]
    /\ \E p \in Prop : nodes' = [nodes EXCEPT ![s][v].prop = p]
    /\ \E sp \in may_set_landmark(spts[s], nodes'[s], v) : spts' = [spts EXCEPT ![s] = sp]
    /\ changed' = TRUE
    /\ UNCHANGED <<edges, eigen, ever>>

\* remove_node throws for a node that has edges
remove_node(s, v) ==
    /\ Edit(s)
    /\ v \in DOMAIN nodes[s]
    /\ nodes[s][v].ins = <<>> /\ nodes[s][v].outs = <<>>
    /\ nodes' = [nodes EXCEPT ![s] = Restrict(@, DOMAIN @ \ {v})]
    /\ changed' = TRUE
    /\ UNCHANGED <<edges, spts, eigen, ever>>

\* An edge is listed by those of its nodes that are here.
WithEdge(ns, e) == [v \in DOMAIN ns |->
    [ns[v] EXCEPT !.outs = IF v = Ends[e][1] THEN Append(@, e) ELSE @,
                  !.ins = IF v = Ends[e][2] THEN Append(@, e) ELSE @]]

\* create_edge_here throws for an edge it has, and for one none of whose nodes it has
create_edge(s, e) ==
    /\ Build(s)
    /\ e \notin edges[s]
    /\ {Ends[e][1], Ends[e][2]} \cap DOMAIN nodes[s] # {}
    /\ edges' = [edges EXCEPT ![s] = @ \cup {e}]
    /\ nodes' = [nodes EXCEPT ![s] = WithEdge(@, e)]
    /\ ever' = ever \cup {e}
    /\ UNCHANGED <<spts, eigen, edits, changed>>

\* The last edge takes the place of the one removed.
remove_by_swap(es, e) ==
    IF \E i \in DOMAIN es : es[i] = e
    THEN LET i == CHOOSE i \in DOMAIN es : es[i] = e
         IN  SubSeq([es EXCEPT ![i] = es[Len(es)]], 1, Len(es) - 1)
    ELSE es

WithoutEdge(ns, e) == [v \in DOMAIN ns |->
    [ns[v] EXCEPT !.outs = IF v = Ends[e][1] THEN remove_by_swap(@, e) ELSE @,
                  !.ins = IF v = Ends[e][2] THEN remove_by_swap(@, e) ELSE @]]

remove_edge(s, e) ==
    /\ Edit(s)
    /\ e \in edges[s]
    /\ edges' = [edges EXCEPT ![s] = @ \ {e}]
    /\ nodes' = [nodes EXCEPT ![s] = WithoutEdge(@, e)]
    /\ changed' = TRUE
    /\ UNCHANGED <<spts, eigen, ever>>

\* Both kinds of preset query, which the server adds and removes alike
add_query(s, q) ==
    /\ Edit(s)
    /\ q \notin DOMAIN spts[s]
    /\ spts' = [spts EXCEPT ![s] = @ @@ (q :> <<>>)]
    /\ eigen' = [eigen EXCEPT ![s] = @ @@ (q :> <<>>)]
    /\ UNCHANGED <<nodes, edges, ever, changed>>

remove_query(s, q) ==
    /\ Edit(s)
    /\ q \in DOMAIN spts[s]
    /\ spts' = [spts EXCEPT ![s] = Restrict(@, DOMAIN @ \ {q})]
    /\ eigen' = [eigen EXCEPT ![s] = Restrict(@, DOMAIN @ \ {q})]
    /\ UNCHANGED <<nodes, edges, ever, changed>>

---------------------------------------------------------------------------
(* Shortest path trees.                                                    *)

\* Mutant of Relax: what an edge brings replaces what was there.
RelaxAlways(ns, q, se, e, is_out) ==
    LET from == IF is_out THEN Ends[e][1] ELSE Ends[e][2]
        to == IF is_out THEN Ends[e][2] ELSE Ends[e][1]
    IN  IF e \in EdgeQuery[q] /\ Matched(ns, q, from) /\ Matched(ns, q, to) /\ from \in DOMAIN se
        THEN (to :> <<se[from][1] + 1, from>>) @@ se
        ELSE se

\* One turn of update_spt_node: the edge brings "to" nearer to the landmark
Relax(ns, q, se, e, is_out) ==
    LET from == IF is_out THEN Ends[e][1] ELSE Ends[e][2]
        to == IF is_out THEN Ends[e][2] ELSE Ends[e][1]
        dist == se[from][1] + 1
    IN  IF /\ e \in EdgeQuery[q] /\ Matched(ns, q, from) /\ Matched(ns, q, to)
           /\ from \in DOMAIN se
           /\ to \in DOMAIN se => dist < se[to][1]
        THEN (to :> <<dist, from>>) @@ se
        ELSE se

update_spt_node(ns, q, es, se, is_out) ==
    FoldLeft(LAMBDA acc, e : Relax(ns, q, acc, e, is_out), se, es)

update_spt_edges(ns, q, se, landmark, is_out) ==
    FoldLeft(LAMBDA acc, v :
                IF v \notin DOMAIN ns THEN acc
                ELSE update_spt_node(ns, q, IF is_out THEN ns[v].ins ELSE ns[v].outs, acc, is_out),
             (landmark :> <<0, landmark>>) @@ se, Order)

update_spt(sp, ns) == [q \in DOMAIN sp |-> [i \in DOMAIN sp[q] |->
    [sp[q][i] EXCEPT !.to = update_spt_edges(ns, q, @, sp[q][i].landmark, FALSE),
                     !.from = update_spt_edges(ns, q, @, sp[q][i].landmark, TRUE)]]]

\* Mutant of TreeDiff: the tree from the root is left out.
TreeDiffOneWay(sp, ns) == [q \in DOMAIN sp |-> [i \in DOMAIN sp[q] |->
    [sp[q][i] EXCEPT !.to = Restrict(@, DOMAIN @ \cap {sp[q][i].landmark}),
                     !.from = Restrict(@, DOMAIN @ \cap DOMAIN ns)]]]

\* get_diff_shortest_path_tree: what the trees say of local nodes
TreeDiff(sp, ns) == [q \in DOMAIN sp |-> [i \in DOMAIN sp[q] |->
    [sp[q][i] EXCEPT !.to = Restrict(@, DOMAIN @ \cap DOMAIN ns),
                     !.from = Restrict(@, DOMAIN @ \cap DOMAIN ns)]]]

\* get_diff_eigen_score: local nodes that match, with the edges that match
EigenDiff(qs, ns) == [q \in qs |->
    [v \in {v \in DOMAIN ns : Matched(ns, q, v)} |->
        IF q = EmptyQuery THEN Len(ns[v].outs)
        ELSE Len(SelectSeq(ns[v].outs, LAMBDA e : e \in EdgeQuery[q] /\ Matched(ns, q, Ends[e][2])))]]

get_diff(s, sp) == [eigen |-> EigenDiff(DOMAIN eigen[s], nodes[s]), spt |-> TreeDiff(sp, nodes[s])]

\* update_index, for a server alone
update_index(s) ==
    /\ peers = {s}
    /\ phase = "idle"
    /\ rounds < MaxRounds
    /\ LET d == get_diff(s, update_spt(update_spt(spts[s], nodes[s]), nodes[s]))
       IN  spts' = [spts EXCEPT ![s] = d.spt] /\ eigen' = [eigen EXCEPT ![s] = d.eigen]
    /\ rounds' = rounds + 1
    /\ quiet' = quiet + 1
    /\ UNCHANGED <<peers, nodes, edges, mixed, todo, phase, edits, ever, changed>>

---------------------------------------------------------------------------
(* MIX.                                                                    *)

\* mix_spt
mix_spt(d, m) == [m EXCEPT !.to = d.to @@ @, !.from = d.from @@ @]

\* mix of the trees of one query: known landmarks are merged, new ones are
\* added by id while there is room; of trees for one landmark the last counts
MixTrees(ds, ms) ==
    LET Latest(ts, l) == CHOOSE i \in DOMAIN ts :
            ts[i].landmark = l /\ \A j \in DOMAIN ts : ts[j].landmark = l => j <= i
        Marks(ts) == {ts[i].landmark : i \in DOMAIN ts}
        new == SetToSortSeq(Marks(ds) \ Marks(ms), <)
        merged == [i \in DOMAIN ms |->
            IF ms[i].landmark \in Marks(ds) /\ i = Latest(ms, ms[i].landmark)
            THEN mix_spt(ds[Latest(ds, ms[i].landmark)], ms[i]) ELSE ms[i]]
        room == LandmarkNum - Len(ms)
    IN  merged \o [i \in 1..(IF Len(new) < room THEN Len(new) ELSE room) |-> ds[Latest(ds, new[i])]]

mix(d, m) ==
    [eigen |-> [q \in DOMAIN d.eigen \cup DOMAIN m.eigen |->
                   IF q \notin DOMAIN m.eigen THEN d.eigen[q]
                   ELSE IF q \notin DOMAIN d.eigen THEN m.eigen[q] ELSE d.eigen[q] @@ m.eigen[q]],
     spt |-> [q \in DOMAIN d.spt \cup DOMAIN m.spt |->
                   IF q \notin DOMAIN d.spt THEN m.spt[q]
                   ELSE MixTrees(d.spt[q], IF q \in DOMAIN m.spt THEN m.spt[q] ELSE <<>>)]]

StartRound ==
    /\ peers = Server
    /\ phase = "idle"
    /\ rounds < MaxRounds
    /\ rounds' = rounds + 1
    /\ phase' = "gather"
    /\ todo' = Server
    /\ quiet' = quiet + 1
    /\ UNCHANGED <<peers, graphVars, mixed, edits, ever, changed>>

\* get_diff of a server, folded into the mixed difference; it updates the
\* server's own trees too
Gather(s) ==
    /\ phase = "gather"
    /\ s \in todo
    /\ spts' = [spts EXCEPT ![s] = update_spt(@, nodes[s])]
    /\ mixed' = mix(get_diff(s, spts'[s]), mixed)
    /\ todo' = IF todo = {s} THEN Server ELSE todo \ {s}
    /\ phase' = IF todo = {s} THEN "put" ELSE phase
    /\ UNCHANGED <<peers, nodes, edges, eigen, edits, rounds, ever, changed, quiet>>

\* put_diff replaces what there was
Put(s) ==
    /\ phase = "put"
    /\ s \in todo
    /\ spts' = [spts EXCEPT ![s] = mixed.spt]
    /\ eigen' = [eigen EXCEPT ![s] = mixed.eigen]
    /\ mixed' = IF todo = {s} THEN NoDiff ELSE mixed
    /\ todo' = todo \ {s}
    /\ phase' = IF todo = {s} THEN "idle" ELSE phase
    /\ UNCHANGED <<peers, nodes, edges, edits, rounds, ever, changed, quiet>>

Next ==
    \/ \E s \in Server, v \in Vertex : create_node(s, v) \/ update_node(s, v) \/ remove_node(s, v)
    \/ \E s \in Server, e \in Edge : create_edge(s, e) \/ remove_edge(s, e)
    \/ \E s \in Server, q \in Query : add_query(s, q) \/ remove_query(s, q)
    \/ \E s \in Server : update_index(s) \/ Gather(s) \/ Put(s)
    \/ StartRound

Spec == Init /\ [][Next]_vars

---------------------------------------------------------------------------
(* Queries.                                                                *)

\* The way from v to the landmark by a tree, at most n steps; it ends early where
\* the tree breaks off
Climb(se, landmark, v, n) ==
    LET f[i \in 0..n] ==
            IF i = 0 THEN <<v>>
            ELSE LET way == f[i - 1] IN
                 IF Last(way) = landmark \/ Last(way) \notin DOMAIN se THEN way
                 ELSE Append(way, se[Last(way)][2])
    IN  f[n]

\* The landmark's two ways in one, the second from the landmark down
Joined(up, down) == up \o Tail(Reverse(down))

\* shortest_path with max_hop: empty if a tree breaks off.  A climb that meets
\* the bound, in a circle too, answers the way so far, which ends elsewhere; the
\* landmark itself is taken without a look at the bound.
shortest_path(ts, src, tgt, max_hop) ==
    LET Usable(i) == src \in DOMAIN ts[i].to /\ tgt \in DOMAIN ts[i].from
        Score(i) == ts[i].to[src][1] + ts[i].from[tgt][1]
        best == {i \in DOMAIN ts : Usable(i) /\ \A j \in DOMAIN ts : Usable(j) => Score(i) <= Score(j)}
        i == CHOOSE i \in best : \A j \in best : i <= j
        landmark == ts[i].landmark
        up == Climb(ts[i].to, landmark, src, max_hop)
        met == {k \in DOMAIN up : up[k] = tgt /\ k <= max_hop /\ tgt \in DOMAIN ts[i].to \ {landmark}}
        room == max_hop - Len(up)
        down == Climb(ts[i].from, landmark, tgt, room)
    IN  IF best = {} THEN <<>>
        ELSE IF i > LandmarkNum THEN <<>>
        ELSE IF met # {} THEN SubSeq(up, 1, CHOOSE k \in met : \A j \in met : k <= j)
        ELSE IF Last(up) # landmark THEN IF room < 0 THEN SubSeq(up, 1, max_hop) ELSE <<>>
        ELSE IF tgt = landmark \/ room <= 0 THEN up
        ELSE IF Last(down) = landmark THEN Joined(up, down)
        ELSE IF Len(down) > room THEN up
        ELSE <<>>

\* Type invariant and structure: lists of edges name edges the server has, at
\* the right end, each once.
AdjacencySound ==
    /\ phase \in {"idle", "gather", "put"} /\ todo \subseteq peers
    /\ \A s \in Server : \A v \in DOMAIN nodes[s] :
          /\ IsInjective(nodes[s][v].outs) /\ IsInjective(nodes[s][v].ins)
          /\ \A e \in ToSet(nodes[s][v].outs) : e \in edges[s] /\ Ends[e][1] = v
          /\ \A e \in ToSet(nodes[s][v].ins) : e \in edges[s] /\ Ends[e][2] = v
    /\ \A s \in Server : \A q \in DOMAIN spts[s] : Len(spts[s][q]) <= LandmarkNum

\* What shortest_path answers follows edges there have been from src on, whatever
\* the servers knew of each other when their trees were mixed and however few
\* hops are allowed.  As long as nothing was removed or updated no climb turns in
\* a circle: |V| steps reach the landmark or the end of the tree, and with room
\* for both climbs the answer ends at tgt.  (After removals a tree may hold
\* circles, which only max_hop ends.)
PathsAreWalks ==
    LET n == Cardinality(Vertex) IN
    \A s \in peers : \A q \in DOMAIN spts[s] :
        /\ \A src, tgt \in Vertex, hop \in {1, 2 * n} :
              LET r == shortest_path(spts[s][q], src, tgt, hop)
              IN  /\ \A i \in 1..(Len(r) - 1) : \E e \in ever : Ends[e] = <<r[i], r[i + 1]>>
                  /\ r # <<>> => r[1] = src
                  /\ r # <<>> /\ hop = 2 * n /\ ~changed => Last(r) = tgt
        /\ ~changed => \A i \in DOMAIN spts[s][q] :
              LET t == spts[s][q][i]
                  Stops(se, v) == Last(Climb(se, t.landmark, v, n)) \in {t.landmark} \cup (Vertex \ DOMAIN se)
              IN  \A v \in Vertex : Stops(t.to, v) /\ Stops(t.from, v)

\* The nodes that are at most n edges from the landmark, by edges their source
\* lists and nodes that match
Near(q, landmark, n) ==
    LET Lists(v, e) == \E s \in peers : /\ v \in DOMAIN nodes[s] /\ Matched(nodes[s], q, v)
                                        /\ e \in ToSet(nodes[s][v].outs) \cap EdgeQuery[q]
        f[i \in 0..n] ==
            IF i = 0 THEN {landmark}
            ELSE LET near == f[i - 1]
                 IN  near \cup {v \in Vertex : \E e \in Edge : Lists(v, e) /\ Ends[e][2] \in near}
    IN  f[n]

\* Once nothing changes, as many rounds as there are nodes give every
\* server the true distances to each landmark: one for all to know of it, and
\* one for each edge on the way.
QuietRoundsExact ==
    quiet >= Cardinality(Vertex) /\ phase = "idle" /\ ~changed =>
        \A s \in peers : \A q \in DOMAIN spts[s] : \A i \in DOMAIN spts[s][q] :
            LET t == spts[s][q][i]
            IN  \A v \in Vertex, d \in 0..Cardinality(Vertex) :
                    (v \in DOMAIN t.to /\ t.to[v][1] <= d) <=> v \in Near(q, t.landmark, d)
=============================================================================
