# Jubatus core: TLA+ specifications

These modules specify the parts of jubatus_core that keep state across calls,
threads and nodes: the model tables that servers train apart and merge by MIX,
the unlearners that bound a model's size, the locks learners take around both,
what becomes of a datum, of a configuration and of the numbers learned, and the
containers, queues and pools all that stands on.  TLC checks the modules on small
instances; TLAPS proves the theorems of the `_proofs` modules for every value of
the constants.

Section 1 is the inventory, 2 the modules, 3 the runs, 4 the mutants, 5 the
theorems, 6 what disagrees with the documentation, 7 what the modules had to leave
out of their properties because the code does not keep it, 8 what is not modelled
and the plan.  Paths are relative to `src/jubatus/core/`.

## 1. The system

### 1.1 framework and driver: the MIX protocol

State: a `driver` owns a learner, its model storages and a `mixable_holder` that
lists the storages taking part in MIX (`driver/driver.cpp`).  Operations:
`get_diff` / `mix` / `put_diff` (linear MIX: a mixer gathers every node's
difference, folds them pairwise and puts the fold back) and `get_argument` /
`pull` / `push` (gossip between two nodes).  The mixer itself belongs to the
server; `common/portable_mixer.hpp` is its in-process stand-in for tests.

Hard: training goes on between a node's `get_diff` and its `put_diff`; a put may
not arrive; a node may restart, be behind, or load another node's model.

Correct when: nodes of one model version hold one master; no update is mixed in
twice; a stale put changes nothing; only what was trained between `get_diff` and
`put_diff` can be lost; the parts of a holder move together.

### 1.2 storage: the model tables

- `local_storage_mixture`: master weights, local difference, class names, version;
  `local_storage` is the same without a difference, `common/key_manager` gives
  both the ids of their classes.
- `column_table`: rows with a version (owner, clock), columns kept in parallel
  arrays (`abstract_column`, bit vectors end to end), an index from id to position,
  a table clock.  `framework/mixable_versioned_table` mixes it by a version vector,
  in both ways of MIX.
- `bit_index_storage`, `lsh_index_storage`, `inverted_index_storage`: a master and a
  difference table each, a removal being an empty row in the difference until the
  next MIX; buckets, norms and posting lists kept beside the rows.
- `labels`: example counts per label, with a lock of their own.
- `bit_vector`: bits with memory taken late and copied by length.
- `storage_type`, `lsh_vector`, `fixed_size_heap`, `common/assoc_vector`: values.

Correct when: index and rows stay a bijection through swap-with-last deletion;
the clock is past every stored clock; what was removed stays removed; what is kept
beside the rows (buckets, norms, columns) says the same as the rows; nodes that
have exchanged everything hold the same rows.

### 1.3 unlearner: bounded models

`lru_unlearner` (a recency list, an index into it, the sticky ids apart) and
`random_unlearner` (a vector of ids and their positions) choose the id that
leaves when the bound is reached, and call back into the model.  Correct when: at
most `max_size` ids are in memory, `touch` succeeds exactly when `can_touch` says
so, an id is unlearned only for another that needs its place, sticky ids never
are, and the model has rows for exactly the ids in memory.

### 1.4 learners

- `classifier` and `regression`: linear methods over the weights (scores read under
  one lock, weights written under the next), and instance-based ones over a table.
- `recommender`, `nearest_neighbor`, `anomaly`: rows, an engine or an index, an
  unlearner whose callback removes rows of the table being changed; `light_lof` and
  `lof` keep scores of a row's neighbours beside the rows.
- `graph`: nodes and edges on the servers that own them, shortest path trees by MIX.
- `burst`, `bandit`, `stat`: counts in windows, added up by MIX.
- `clustering`: a tree of buckets compressed on the way up, revisions, k-means and
  dbscan over the result.

Hard: the instance-based ones have a table lock, an unlearner mutex and a label
lock, take them in different orders in different operations, and release them
between the steps of one operation.  Correct when: no two calls wait for each
other, the unlearner is used by one thread at a time, and rows, unlearner, scores
and counts describe the same data.

### 1.5 fv_converter and configuration

A datum becomes a feature vector by rules (filters, splitters, matchers, weights,
combinations) that a configuration names; the weights of features (`weight_manager`)
are counted and mixed like a model.  `*_factory.cpp` make every learner from a
block of JSON, `common/jsonconfig` casts it and collects what is wrong.  Correct
when: filters chain, keys can be read back, a configuration is refused exactly for
a fault, and a converter has the rules it was told.

### 1.6 common and util

`thread_pool` (a queue of tasks with bare pointers to futures, workers started on
demand), `lru` (the cache of random projections, a map of list nodes with raw
pointers), `util/concurrent` (mutexes, conditions, bounded buffers, channels,
semaphores, read-write locks) and `util/text/json`.  Correct when: every task is
executed and its future outlives it, no worker sleeps beside a task, the destructor
returns; a cached vector is its seed's, and the one not used for longest is
discarded; a wait puts back what it put away; a document is read as it was printed.

### 1.7 How the parts interact

A learner's call writes its storage under the table's lock and tells the
unlearner, whose callback deletes another row of the same storage and its label
count.  MIX reaches the storage from another thread, through the driver's
mixables, and `column_table` calls the unlearner from there too.  Projections are
computed by the pool's workers, which share one cache.  Nodes share nothing but
the messages of MIX.

`PROJECT.json` lists every component with its status and every hazard with the
line where it bites and the properties aimed at it.

## 2. The modules

### 2.1 Components

| module | models | state and actions |
|---|---|---|
| `LinearMix` | `storage/local_storage_mixture`, `framework/linear_function_mixer` and a mixer | per node `tbl_`, `tbl_diff_`, the names of `class2id_`, the version, the label unlearner's memory; `Train`, `RegisterLabel`, `DeleteLabel`, `Clear`, `Load` (unpack of a peer), `Restart`; the mixer's `StartRound`, `Gather`, `StartPut`, `Put` (which touches the unlearner for the labels of the difference, loses what its callback deletes and keeps the labels in memory only), `LosePut`, `EndRound` |
| `ColumnTable` | `storage/column_table` | operators on a table record, each the body of one member function under `table_lock_`: `Add`, `SetRow`, `UpdateClock`, `DeleteRow`, `ClearTable` |
| `TableMix` | `framework/mixable_versioned_table` on several nodes | extends `ColumnTable`; local writes and deletions, linear rounds, gossip (`Pull`, `Push`), rows applied one `set_row` at a time (`ApplyRow`) |
| `TablePull` | `mixable_versioned_table::pull_impl` | extends `ColumnTable`; the two walks over the table with one lock per `get_version` and `get_row`, the learner writing in between |
| `ColumnStore` | `storage/abstract_column`, `column_type` in a `column_table` | one array of bit vector blocks, one of plain values, index and tuples; calls that throw half way, pack and unpack |
| `Unlearner` | the contract of `unlearner/unlearner_base` | the set of ids in memory and the last call; abstract |
| `LruUnlearner`, `RandomUnlearner` | the two unlearners | list, index and sticky ids; vector and positions; `touch` by its cases, `remove`, `clear`, `pack`, `unpack`; each INSTANCEs `Unlearner` with a refinement mapping |
| `BitIndexMix` | `storage/bit_index_storage` with `recommender/lsh` (and `minhash`) on several nodes; second part: the buckets of `storage/lsh_index_storage` under `recommender/euclid_lsh` | `Update`, `ClearRow`, rounds with the mixed table applied row by row (`PutRow`) and the unlearner called for each; `LshUpdate`, `LshClearRow`, `LshPutRow`, `LshEndPut` add the buckets to them |
| `InvertedIndexMix` | `storage/inverted_index_storage`, `recommender/inverted_index` | cells and norms of master and difference; rows set and removed by any server, with and without an unlearner, rounds whose puts may be lost |
| `LocalStorage`, `LocalStorageMixture` | the storages without and with a difference, over `storage/storage_type` tables and `common/key_manager` | every call that changes either; the second INSTANCEs the first with the sum of its two tables for `tbl_` |
| `WeightMix` | `driver/driver` (`mixable_holder`), `driver/recommender`, `driver/weight`, `fv_converter/weight_manager` | rows and weights of features as two mixables of a holder, versions, lost puts, a clear and a load of a file at any time (`apart` remembers who did so since a round gathers) |
| `NNClassifier` | `classifier/nearest_neighbor_classifier` with `storage/labels`, by several threads | a program counter per thread; one step per critical section, and one per lock where a second lock is asked for |
| `LinearClassifier` | `classifier/linear_classifier` and its methods, label unlearner | a program counter per thread through three locks; class ids given, deleted, given to others never (what the put of MIX does to labels is in `LinearMix`) |
| `UpdateRules` | `train` and `update` of the classifiers and regressions | weights and variances as exact fractions; threads that interleave between reading the score and writing |
| `NeighborTables` | `driver/nearest_neighbor`, `nearest_neighbor_recommender`, `nearest_neighbor_regression` | table, unlearner, original rows and values of each server; rounds of MIX, server by server and table by table |
| `LightLof`, `LofMix` | `anomaly/light_lof`, `anomaly/lof` with `lof_storage` | rows, k-distances and densities; the unlearner's callback in the middle of a call; the second with MIX of both tables |
| `GraphMix` | `graph/graph_wo_index` behind `driver/graph` | nodes, edges, landmarks, shortest path trees and their MIX; `shortest_path` with `max_hop` |
| `Burst` | `burst/burst` behind `driver/burst`; second part: `burst_detect` | keywords, windows of documents, results and their MIX; the choice of states with the costs as inputs |
| `Bandit` | `bandit/` | arms, players, trials and rewards of every method, MIX with lost puts; a model packed and unpacked anywhere at any time |
| `StatWindow` | `stat/`, `driver/stat` | the window, totals by key, the entropy and its MIX |
| `Clustering`, `BatchClustering` | `clustering/*storage`; k-means and dbscan; second part of the latter: `kmeans_compressor` | buckets carried up (a fold over the levels), compressed and forgotten, revisions, MIX; a batch step by step; a call of `compress` with every draw |
| `FvConverter` | `fv_converter/datum_to_fv_converter` and its parts | a rule applied to one value after the other, keys, weights, hashing, reverting |
| `ServiceConfig` | `*_factory.cpp`; second part: `converter_config`, its factories, `dynamic_loader` | a request and what it makes, or why it is refused; types and rules registered one by one |
| `Json` | `util/text/json`; second part: `common/jsonconfig`, `cast.h`, `json_converter` | a stream of code points, the parser and the one it has read ahead; casts with and without a trace; a document's datum |
| `Vectors` | `storage/storage_type`, `common/vector_util`, `assoc_vector`, `fixed_size_heap`, `clustering/util`; second part: `lsh_util` | two vectors and what is made of them; a heap; the probe generator |
| `BitVectors` | `storage/bit_vector` | memory and length of each vector, every call and copy |
| `ThreadPool` | `common/thread_pool` | queue, workers, the clients' futures; `Async`, `AsyncAll`, `CallInline`, `Get`, `EndCall`, `Look`, `Execute`, `Spurious`, `Destroy` |
| `ProjectionCache` | `common/lru` with `nearest_neighbor/lsh_function` | the map, `prev_`, `next_`, `head_` and `tail_` as pointers; `Hit`, `Miss`, `Store` by several threads |
| `Monitors` | `util/concurrent`: `mutex`, `condition`, `pcbuf`, `mvar`, `chan`, `qsem`; second part: `rwmutex` | programs of instructions, one step each; scopes entered for ever, for a while or not at all |

Abstractions shared by all: numbers that are only added and averaged are formal
sums (`LinearMix`) or integers, real numbers are exact fractions where a property is
about them (`UpdateRules`, `BatchClustering`) and inputs where not (costs, scores),
a string is a model value or a sequence of tokens, hash values are given, distances
are exact.  What is one step is what the code does under one lock, or what it does
in a thread that no other touches.

Operators marked `Mutant of ...` are mistakes for section 4; no action uses them.

### 2.2 Instances

`LinearMix` carries its symmetry and scope at its end.  The other instances are sums: in
each behaviour one component runs, named by the variable `part` from the start, and
the variables of all others are empty and stay so.  A sum has the behaviours of its
components and no interleavings between them, so what it checks of a component is
what a run of its own would.

| module | components |
|---|---|
| `MCRounds` | `TableMix` (extended), `WeightMix`, `Bandit`, `StatWindow` |
| `MCMixables` | `BitIndexMix` (extended) and, as the instance `L`, its second part; `InvertedIndexMix`, `Burst` and its second part, `LofMix`, `Clustering` |
| `MCLearners` | `NNClassifier` (extended), `LinearClassifier`, `UpdateRules`, `NeighborTables`, `GraphMix` |
| `MCContainers` | `LruUnlearner` (extended), `RandomUnlearner`, `TablePull`, `BitVectors`, `ColumnStore`, `LightLof`, `ProjectionCache`, `LocalStorageMixture`, `Vectors`, `Json`, `ServiceConfig`, `FvConverter` |
| `MCWaiting` | `ThreadPool` (extended), `Monitors`, `BatchClustering` |

### 2.3 What the modules assume of their environment

A server of Jubatus runs calls that read a model at once, and `train` beside MIX
where the driver locks itself; `clear`, `load` and what else changes the model as a
whole run alone.  The modules assume that where the code relies on it:

- `LinearMix`: one mixer, whose rounds do not overlap and gather every node or are
  given up; a put of an old round does not arrive in a later one; a model is
  loaded between rounds only.  `v1` of a weight is modelled; `v2` and `v3` follow
  the same paths with a minimum and an average of their own.
- `TableMix`: a node that still has rows of a push or put to apply is not pulled
  from and accepts no other (`Pull`, `Push`).  Nothing in the repository promises
  this; `NoHoles` fails without it, because rows are applied in position order
  while the version vector advances by clock.  `clear` is not an action here: it
  sets the clock back, and a version would name two rows.
- `StatWindow`: `XLogX`, the table of n log n, is not less at a sum than the sum of its
  values at the parts, which n log n is not for whole numbers.
- `WeightMix`: a put may be lost or refused; what is said of nodes that agree leaves out
  those that were cleared or loaded while a round gathers.
- `BitIndexMix`, `InvertedIndexMix`: a node does nothing else during its put (the
  server holds its model lock).  `clear` is not an action.  Every put of the first
  arrives; those of the second may be lost.
- `GraphMix`: the nodes that only other servers own (`global_nodes_`), without which
  `shortest_path` throws for an unknown node, are not kept.
- `NNClassifier`: which calls may overlap is the constant `Together`; the passing
  run and the theorems let `train` and the push of MIX overlap at will.  `master_`
  of `labels` stays empty, as this classifier mixes its table only.
- `ThreadPool`: a call's futures live until the call has got them all; no call
  begins once the destructor has.  Waking without a notification is allowed.
- `Monitors`: `wait` and `signal` of a `qsem` are called for one.  (For more, `wait`
  waits until there are as many and takes one, `util/concurrent/qsem.h:58-60`.)
- `BatchClustering`: one call on a new object, so that k-means given fewer than k points
  ends without centers; that a later call of that kind keeps those it had
  (`clustering/kmeans_clustering_method.cpp:82`) is not modelled.
- `ProjectionCache`, `BitVectors`, `ColumnStore`: after a step that is undefined in
  C++, or stopped half way by an exception, nothing is called.
- `GraphMix`, `Bandit`, `Burst`, `StatWindow`, `LofMix`, `Clustering`,
  `NeighborTables`: calls of one server run one at a time (the regression's `train`
  excepted, which MIX may interrupt), those of several in any order between the
  steps of a round.

## 3. Runs

| run | question | instance |
|---|---|---|
| `linear_mix` | does one version mean one master; is the fold the average of the newest; is anything counted twice, unlabelled or lost | 3 nodes, 2 updates, 2 labels, 2 rounds |
| `rounds` | do index, clock and version vector of the tables stay right and is an exchange complete; do weights of features, bandits and statistics add up | 3 nodes, 2 keys, 3 writes, 2 rounds, 3 pulls; 2 servers, 2 words, 2 documents, 2 updates and a clear or load; 2 arms, 3 calls; windows of 2, 4 pushes |
| `mixables` | do the other storages that MIX brings together stay sound and agree | 2 nodes each; 3 rows, 2 values, 3 rounds, 4 edits for the bit index, about half of that for each other storage |
| `learners` | locks, rows against counts and unlearners, the numbers learned, the graph | 2 threads, 4 ids, 2 labels, 2 places; 3 labels and 3 calls for the linear classifiers; 2 servers, 2 rows, 2 columns, 3 calls and 2 rounds for the other users of neighbours; every method, 2 trains, 2 features; 3 nodes in a row on 2 servers, 3 rounds |
| `containers` | the structures of one server, documents and configurations | 3 plain and 3 sticky ids in 3 places; 3 keys and 4 writes for a pull; 2 vectors, 2 columns, 4 cached seeds in 3 places; every block and section the factories tell apart |
| `waiting` | does what must end come to an end, and is it right then | 3 workers, 2 clients of 2 calls; 3 threads on each monitor with one spurious wakeup; 2 and 5 points, 3 centers |
| `table_pull_delete`, `bit_index_cleared`, `nn_classifier_deadlock`, `nn_classifier_counts`, `projection_lone`, `bit_vector_copy` | one documented claim each that the code does not keep (section 6) | the smallest that shows it |

### What the properties say

- `linear_mix`.  `Agreement`: nodes of one version hold one master, but for the labels
  that one of them has forgotten weights of: deleted, cleared, unlearned for another, or
  dropped by a put because its unlearner did not take the label in.  No version records
  these, and `lost` remembers them per node.  `FoldIsAverage`: the
  fold is the plain average of the nodes at the newest version, whatever the order.
  `CountedOnce`, `GatheredSurvives`: nothing is mixed in twice and nothing that was
  gathered is lost by a node that takes the put, of labels in its memory once it has.
  `WeightsAreLabelled`: no weight is
  under a class name that is not registered.
- `rounds`.  `TablesWellFormed`, `VersionNamesRow`, `NoRegress`: index and rows are
  inverse, a clock is past its table, a version names one row everywhere, no row is
  replaced by an older one.  `ExchangesComplete`: what a version vector covers, the
  node has (checked while one of the two ways of MIX is used, nothing is deleted and
  no put lost, as each of those opens holes that nothing closes), and with no writes
  during a linear round the tables end equal, ties of clocks included.  `WeightsAreSound`:
  frequencies fit the documents counted, rows and weights arrive together, nodes that
  are up to date agree.  `ArmsAddUp`: a player's total is the sum over its
  arms, and an arm has no more trials than were given, but for those known twice: the
  differences have no version, so that a server whose put was lost gives the same again
  (`bandit/summation_storage.cpp:236-244`) and so does one that unpacked a model;
  `again` counts what they hold unmixed at that moment, and no more than that is ever
  counted again.  `StatsAreSound`: totals and extremes are those of the window, and the
  entropy is not negative.
- `mixables`.  `RowsAreServed`, `MastersAgree`, `QuietRoundsConverge`: see
  `BitIndexMix`; two quiet rounds are needed, since a removal that loses against
  another node's update is kept and wins a round later.  `IndexesAreSound`: norms are
  those of the cells and rows that a query finds are listed and known, but for the
  rows named in section 7; between rounds the servers hold the same cells and norms,
  of every row; lsh rows are in the bucket of each of their hashes.
  `BurstsAreSound`, `BurstsAreOptimal`: results are stored in order, windows count
  their documents, the states chosen are the cheapest.  `PointsAreKept`: buckets keep the weight given and no point is
  clustered twice.  `LofTablesHold`: what is removed stays hidden and the two tables
  list the same rows.
- `learners`.  `LocksSuffice`: no wait in a circle, one thread in the unlearner.
  `RowsAreCounted`: ids in memory have rows or a call that sees to them; calls that did
  not overlap leave exact counts.  `LabelsAreSafe`: no label inherits weights, the
  methods that hold the lock leave none behind.  `NeighborsAreServed`: what the unlearner
  remembers has rows, original rows and values fit the table, sizes are bounded where
  the code bounds them.  `GraphIsSound`: edges are listed
  where they end; an answer of `shortest_path` for few hops or many follows edges that
  there have been from the source on; and while nothing was removed or updated a climb
  meets no circle, and with hops enough the answer ends at the target.  `ResultsAreRight`: quiet rounds give the
  distances; an update takes away the loss it is for and no certainty is lost by it
  (`UpdateRules`).
- `containers`.  `StructuresAgree`: list and index, vector and map, columns and index,
  vectors and sets agree; a pull reads rows there are, as many as announced, and skips
  none.  `ImplementsUnlearner`: every step of `lru_unlearner` is one of the contract;
  `PromisesKept`: so for `random_unlearner`, `can_touch` foretells `touch`, and a
  storage with a difference answers as one without.  `ScoresHold`: the scores of
  `light_lof` are those of the neighbours of now; buckets are probed nearest first.
  `CacheIsSound`, `FeaturesAreRight`, `DocumentsAreRead`: see the modules.
- `waiting`.  `PoolIsSound`: a queued pointer is to a live, unfinished future, and no
  worker sleeps beside a task.  `MonitorsAreSound`: mutexes and values survive waits and
  nested calls; scopes have the lock exactly when told so.  `ClustersHold`: clusters are
  what their definitions say, coresets weigh what their points do.  `PoolReturns`,
  `MonitorsServe`, `ClusteringEnds`: liveness.

### Bounds, and why they are enough

Three nodes are the least with a pairwise fold that must weigh (two against one)
and with a third party whose row travels two hops.  Two rounds let a node miss
one and meet the next.  Two updates are two nodes training apart, or one twice.
Two keys and three writes give a tie of clocks, a swap of the last row into a
hole and a version overtaken by another of its owner.  Where the storage has one
version only, or none (bit index, inverted index, bandits, windows), two nodes show every order
of a call and the steps of a round.  The unlearners have as many
plain ids as places and as many sticky ones, so that they fill, evict and refuse.  A pool of three workers has one more
than the clients and than the functions of a call; a cache of three has a first, a
middle and a last node.  Two threads suffice for every pair of critical sections,
which is what the locks are about; three are on each monitor, so that one can be
woken in another's stead.  Texts and vectors are enumerated to the length at which
every branch of the code that reads them has been taken.

Where the whole product is too large, a CONSTRAINT in the MC module (`Scope`,
`PartScope`) is a union of scenarios, each closed under the order of events: trained
only or administered with one update (`LinearMix`); linear only, gossip only, or both
with two writes (`MCRounds`); a third round of the bit index after at most three
edits, a second one of lof after at most two calls (`MCMixables`); a graph that changes
until its second round and is left alone in a third, and whose third edge, which makes a
circle beside the landmark, comes after the other two (`MCLearners`).
All passing runs say `CHECK_DEADLOCK FALSE`, because writes, rounds or calls are bounded and the
system stops when they are used up, or when the pool has been destroyed; that calls do
not wait for each other is an invariant (`LocksSuffice`) or liveness (`waiting`).

### Fairness

Three components have liveness properties.  The pool's fairness is weak, per worker
for looking into the queue and executing a task, and per client for getting a
finished future and ending a call: threads that can run do run, and functions
handed to the pool return.  Nothing is assumed of waking without a notification,
of calls being made, or of the destructor.  The monitors' is weak per thread: for its
next instruction, and for a timeout that has come; a mutex or a notification goes to
whoever the operating system picks.  The loop of k-means is one thread that runs.  The
MIX protocol has none: a mixer may stop for ever, and no module claims that it does not.

## 4. Mutants

Every checked property has a mutant: an operator beside the definition it changes
(`... Mutant of ...`) that is a plausible mistake in that code, such as a missing
version check, a clock not moved past the row's, a list entry left behind, or a
notification forgotten.  With it the run finds the property violated.

## 5. Theorems

Every theorem holds for any number of nodes, threads, keys or ids, from the named
assumptions of its module only.

`LinearMix_proofs` (finitely many nodes, and a `Unit` that every number of them
divides):

- `TypesHold`: `Spec => []TypeOK`.  The strengthening `TypeInv` adds that every
  difference but the empty one counts a node, so that `mix` divides by no zero.
- `LabelsHold`: `Spec => []WeightsAreLabelled`; inductive with the types.  The
  point is `put_diff`, which may bring back weights of a label deleted meanwhile
  and registers it again, and adds zero where it has nothing.
- `CountedOnceHolds`: `Spec => []CountedOnce`.  `OnceInv` says where an update may
  be: a difference holding it is at a version newer than every master holding it,
  all differences holding it are at one version (a load copies both), and the
  fold holding it expects that version.  So a node that takes a put had nothing
  of what it takes, and clears its difference.
- `AgreementHolds`: `Spec => []Agreement`.  `Agreeing` says that a master at version 0
  is empty, that the fold expects at least the version of every node asked, and
  that while putting, who took the put is exactly the fold ahead of who has not, each of
  these label by label, of labels that neither has forgotten weights of: what the
  unlearner's callback deletes in the middle of a put, and what the put then drops,
  is forgotten by that node.
- `GatheredSurvivesHere`: `Spec => GatheredSurvives`, an action property.  `KeepInv`
  follows what each node gave through the pairwise fold: weights are never negative,
  a weighted mean of two that are not is zero only if both are, and what a node gave
  at the version the fold expects is in it.  A put drops only labels that are not in
  memory after it, whatever the order in which it touched them (`Touches`).

- `FoldIsAverageHere`: `Spec => []FoldIsAverage`.  `SumTheorems` gives the sums; the
  invariant says that the fold, times what it counts, is the sum of what the nodes
  asked so far have given at the newest version, whatever the pairs.

`SumTheorems` holds what these and the next two modules count with: sums over finite
sets (that there is one, that it is the only one, what adding, taking and changing an
element does to it, sums of sums), counts in sequences, and that a set of numbers with
an element has a least one.  The provers cannot instantiate the library's induction, so
every induction here is a least counterexample: the set of sets (or numbers) for which
the claim fails has a minimal member (`FS_StrictSubsetOrderingWellFounded`), which
cannot be empty (zero) and cannot be anything else.  A recursive function of a model is
reached the same way: up to the first place where it would not satisfy its equation.

`Rounds_proofs`, first the tables, in three invariants, each resting on the ones before:

- `TablesStayWellFormed` and `VersionsNameRows`, from `IInv`: tables are well formed,
  and every version anywhere (in tables, lists, messages) is below its owner's clock.
  Lemmas on `Store`, `SetRow` and `DeleteAt` carry the array reasoning.
- `RowsNeverRegress`: `Spec => NoRegress`, an action property, from `IInv` and what
  each operation does to the rows of other keys.
- `VectorsHideNothing` from `HoleInv`: whatever a vector covers is in the table, or in
  what the node has still to apply, and what travels is covered by nothing older.
- `QuietRoundsConverge` from `QuietInv`, which follows every row of every table through
  a linear round that nobody disturbs.  `ExchangesAreComplete` is both together and
  states the checked `ExchangesComplete`.

then the others, each with an invariant of its own, and last the composition, where the
component that runs keeps its invariant beside those that do not (`PartInv`):

- `WeightsAreSoundHere`: frequencies of a master and a difference are those of the
  documents counted in it; a fold counts the documents of the differences whose weights
  it took; and nodes of the newest version that are not `apart` have one master.  The
  attempt to prove this for any number of nodes showed an earlier form of the property
  to be false of three, two of them loaded while a round gathers.
- `ArmsAddUpHere`: of an arm of a player, the trials of every server, what waits to be
  folded and what was folded are together no more than was given and is known twice
  (`Within`), step by step of a round, lost puts and models unpacked in the middle of
  one included; and a player's total is the sum over the arms there are.
- `StatsAreSoundHere`: the totals of each key, extremes included, through pushes at one
  end of the window and losses at the other; what the keys count adds up to the length
  of the window; and as n log n of a sum is at least the sum of its parts, the entropy of
  what was gathered, from at most `window_size` values of each server asked, is not
  negative.
- `WeightsStaySound`, `ArmsStayAdded`, `StatsStaySound`: the properties the run checks.

`Unlearners_proofs`:

- `LruKeepsPromise`: `Spec => ImplementsUnlearner`, the refinement of `Unlearner` under
  `memory <- entry_map \cup sticky_ids`.  `IInv` says that the list has each indexed id
  exactly once (so that the size of the index is the length of the list), that sticky
  ids are apart and that both together are within the bound, also in what was saved.
- `LruIsInOrder`: the list is in the order of use, so the victim is the id used longest
  ago; `LruForetells`: `can_touch` foretells `touch`.
- `RandomKeepsPromise`, `RandomMapMatches`: the same for the vector and map of
  `random_unlearner`, from the bijection between them through swap-with-last removal.

`Mixables_proofs`, the bit index first, then bursts:

- `RowsAreServedHere`, `MastersAgreeHere`, `QuietRoundsConvergeHere` from one `IInv`: a
  master's row unknown to the unlearner is removed in the difference; masters agree on
  each row that a put has, or has not, applied to both; the first quiet round leaves
  only removals in the differences, the second nothing.
- `RowsFindableHere`: the buckets of the lsh index, which are never mixed, list every
  row under each of its hashes.  Inductive with `IInv`: a row of the master is in the
  master's buckets even while it is removed or replaced in the difference.
- `BurstsStaySound`: `PartsSpec => []BurstsAreSound`, for any keywords, batches and window
  sizes.  That windows count what was taken (`Counts`) is inductive once it also says
  that nothing was taken past the newest window, since the next one copies what
  overlaps and has zeros elsewhere, and once windows are known to be in order (`Ordered`),
  since counting stops at the first window without the batch.  Results stay in order
  through a put of any sequence of results, in order or not (`StoreAllIs`, by a least
  counterexample).

`Classifiers_proofs`, the nearest neighbour classifier first (assuming of `Together`, the
calls that may overlap, that
`train` does not overlap `delete_label` nor a push `clear`, which is what the findings
of section 6 show to be needed; and that a count fits 64 bits):

- `LocksSufficeHere` from `SafeInv`: who holds which lock at each program counter.
- `RowsAreCountedHere`, from `MemoryHasRows` (an id in memory without a row has a call
  that accounts for it) and `SoloInv`, which follows the one call there is while
  nothing overlapped.

then the linear classifiers (finitely many class names, none of them the mark of no
label, and a bound on calls):

- `TypesHold` and `NothingInheritedHere` from `CSafeInv`: what each thread may know at
  each program counter, which ids are taken, and that an id that was given away is
  never given again, so that weights found under it are its label's own.
- `HeldLockIsEnoughHere` from `HeldInv`: while a thread is between reading a score and
  writing by it under the lock, no other thread has deleted the labels it read.
- `LabelsStaySafe`: `PartsSpec => []LabelsAreSafe`, the three together in the composition;
- `NeighborsStayServed`: `PartsSpec => []NeighborsAreServed`, from the next module, whose
  instance is shown, definition by definition, to be the one of the run.

`NeighborTables_proofs` (sticky ids are ids, ids are negative, as the numbers of the
regression's calls are not, and sizes are numbers):

- `NeighborsAreServedHere`: `Spec => []NeighborsAreServed`.  A table is read as a map from
  ids to rows: what `Add`, `set_row` and the deletion that swaps the last row into the
  hole do to the arrays is done once, and `Touched` says in terms of maps what `touch`
  does to table, values, original rows and memory.  A put of many rows is followed
  through the recursive function by a least counterexample: after the first n rows the
  table has, of each id, a row not older than those, and its clock and its version vector
  have reached exactly what they have to.
- The invariant is `ServedInv`.  `Steady`: types, index and rows inverse, and an id in
  memory has a row or belongs to the `train` under way.  `OrigRecent`: of the rows that
  lie anywhere (`Abroad`: in a table or gathered), those of a server are below its clock
  and, under one id, none is newer than what that server put together last, so that
  whatever MIX brings, a row of one's own version is one's own latest.  `RowsByCall`: a
  row of the regression is made of its id and of nothing else.  `InStep`: both tables of
  a regression are `Level`, or one ahead in the middle of `train`, or one behind by
  exactly what was gathered in the middle of a put (`Behind`, with clocks and vectors
  `Reached`), and what is gathered of both is the same but for a server in between.
  None of the parts of `NeighborsAreServed` is inductive without these: a round two puts
  later would tell.

`Waiting_proofs`:

- `PoolIsSoundHere`: `GotFinished` and `TasksAlive` tie queue, workers and futures to
  the calls they belong to, `TasksDistinct` makes a task be executed once, and
  `NobodySleeps` needs that as many notifications are on their way as tasks wait.
- `MonitorsHoldHere`, for any programs whose calls a thread makes one after the other:
  `MonitorInv` says that what is left of a call fits the depth of its locks, that the
  recursive mutex belongs to whoever runs inside and to nobody while all sleep, that a
  sleeper has saved what its caller held, and that the condition a thread tested is
  still so where it relies on it.
- `HoldersHoldHere`, for any scripts of nested scopes of the `rwmutex`: a scope holds
  the lock exactly when told so, and writers are alone.
- `MonitorsAreSoundHere`: `PartsSpec => []MonitorsAreSound`, both in the composition.

Only model-checked.  Out of the provers' reach: liveness, which rests on fairness and so
on ENABLED, and what a recursive definition computes for every input (`Json`,
`FvConverter`, paths in `GraphMix`, the cheapest states of `Burst`): `PoolReturns`,
`MonitorsServe`, `ClusteringEnds`, `DocumentsAreRead`, `FeaturesAreRight`,
`ResultsAreRight`, `GraphIsSound`, `BurstsAreOptimal`.  Not tried yet: `IndexesAreSound`
(but for `RowsFindable`, proved), `PointsAreKept`, `LofTablesHold`,
`StructuresAgree` (but for what it says of the unlearners), `ScoresHold`, `CacheIsSound`,
`PromisesKept` (but for the unlearners), `ClustersHold`.

## 6. Findings

1. `nn_classifier_deadlock`: `train` takes `unlearner_mutex_` and then the table's
   lock, `delete_label` the table's lock and then `unlearner_mutex_`
   (`classifier/nearest_neighbor_classifier.cpp:77-82`, `:157-172`).
2. `nn_classifier_counts`: `labels::add` looks and inserts under two locks and
   resets an increment made in between (`storage/labels.cpp:46-48`).
3. `table_pull_delete`: the size of the table is read once for two walks, and a
   deletion in between makes the pull read past its end
   (`framework/mixable_versioned_table.cpp:163-179`).
4. `bit_index_cleared`: a row only the difference holds leaves no mark when it is
   removed between `get_diff` and `put_diff`, and comes back
   (`storage/bit_index_storage.cpp:74`).
5. `projection_lone`: `touch` of the only node of an `lru` empties `head_` for good
   (`common/lru.hpp:127`).
6. `bit_vector_copy`: a vector assigned an empty one keeps memory without a block and
   is written beyond it by the next, longer assignment (`storage/bit_vector.hpp:188`).


## 7. What the code does not keep

Where a behaviour was found that would break a property, and no text of the repository
promises otherwise, the property says what is kept and the module says where the rest
went.  By component:

- `LinearMix`: `delete_label` and `clear` change a master and leave its version, so
  nodes of one version may differ from then on (`storage/local_storage_mixture.cpp`).
  So does `put_diff` with a label unlearner
  (`framework/linear_function_mixer.cpp:88-117`): it touches the labels of the
  difference, which may unlearn others, on each server others, and drops from the
  difference the labels that are not in memory.  `lost` has what a node forgot,
  `Agreement` excepts it, and `GatheredSurvives` is about the labels in memory after
  the put; a model loaded from a peer keeps the loader's `tbl_diff_` only as the file
  has it.
- `TableMix`: version vectors have holes.  A row applied in position order moves the
  vector past rows of smaller clocks that are still to come, a deleted row is never
  asked for again, `clear` sets `clock_` back and leaves `vc_`
  (`storage/column_table.cpp`).  A local `update_row` takes over a row that came by
  MIX, under the local owner.  Nodes whose `owner` is the empty string share one clock
  and hide rows from each other.
- `NeighborTables`: neither `driver/nearest_neighbor` nor the recommender gives its
  unlearner to the mixable table, so the rows that MIX brings are not bounded,
  although column tables touch an unlearner on MIX (`ChangeLog.rst:309`); the driver
  ignores that `touch` refuses; `values_` of the regression is not shortened;
  `estimate` ignores what `exact_match().first` says.
- `LofMix`: a row removed but not yet mixed comes back in the engine and not in the
  scores; a row the unlearner refuses is dropped from the scores only; `set_row` of an
  ignored row leaves an id without a row.
- `ColumnStore`: a bit vector that is too long throws after the columns before it have
  the new value; unpacking a file with columns of other types is noticed half way.
- `BitVectors`: a copy is the length of the source, whatever the target has
  (`CopiesFit` excepts the assignment of section 6).
- `LinearClassifier`: the perceptron and the passive aggressive methods write weights
  after they let go of the lock under which they read the score, and leave weights of
  a label deleted in between.  `HeldLockIsEnough` is about the others.
- `UpdateRules`: a variance can become negative when a label is deleted between
  reading and writing (`spoilt` excepts it); the confidence weighted regression passes
  its target by the new variance, and divides by zero on an empty vector; `1 / 2 * C`
  of the second passive aggressive regression is a division of integers and is zero;
  the sums of the passive aggressive regressions are neither mixed nor packed.
- `LocalStorage`: the default `update` (`storage/storage_base.cpp`) loses a decrement
  whose label is the increment's.
- `InvertedIndexMix`: MIX replaces cells and adds norms
  (`storage/inverted_index_storage.cpp:334-351`), so that of a row that two servers
  write in one round, as `inverted_index_storage_test.cpp:186-217` has it, the norm is
  not that of the cells that won; and a norm that becomes wrong stays so.  What is
  said of norms and of rows that queries find excepts (`Strays`, `Kept`): rows that
  two servers have written before a put cleared what one of them wrote; rows removed
  or unlearned at a server between its difference and its put, which clears the
  removal; rows removed, with cells in the master, at a server without their original,
  as only the original's cells are set to zero; with an unlearner, rows no new cell of
  which is positive, which `put_diff` takes for removed ones and whose norm it erases
  (`:255-270`, `:306-318`); the rows in the difference of a server whose put
  was lost, for it gives them again and their norms are added twice; and everything on
  such a server and on one whose put unlearned a row, for the callback writes into
  differences about to be cleared (`:270`).  TLC finds a property violated without any
  one of these.  That the servers left agree on all cells and
  norms has no exception for rows.
- `GraphMix`: after removals the trees that servers mixed apart can hold a circle (two
  edges and a node removed and the node made again, with an edge elsewhere), and a
  climb in it ends by `max_hop` alone (`graph/graph_wo_index.cpp:301-330`), with a
  part of a way that does not lead to the target.  With too few hops the answer is
  such a part as well, and the landmark is pushed without a look at the bound
  (`:316`), so that an answer can be one node longer than `max_hop`.
- `Bandit`: differences have no version, as said in section 3; deleting an arm on one
  server does not delete it in what was gathered.
- `BitIndexMix`: a removal that lost against another node's update is kept and wins a
  round later; euclid_lsh probes some buckets twice.
- `WeightMix`: `clear` leaves the version of the weights.  `StatWindow`: `stat::clear`
  leaves the entropy and the number it was computed of.
- `Clustering`: `clear` and `unpack` leave the centers of the clustering before;
  `clustering_factory` always makes the compressor with the euclidean distance,
  whatever `distance` says (`ChangeLog.rst:17`); a coreset can weigh more than its
  points (`clustering/kmeans_compressor.cpp:80-109`); a negative k passes the check.
- `Json`: `1e5` at the end of a text is read as 1; a number, one white space and the
  end of the text is an error and not the end of the data; floats that are integers
  come back as integers, others with twelve digits; a NUL ends a string; code points
  above U+FFFF lose bits.
- `ServiceConfig`: integers are narrowed unchecked; a struct that is given a text or a
  number throws at once and is not added to the trace; the factory of regressions
  knows the name `AROW` but not the others of the classifiers; an
  `unlearner_parameter` without `unlearner` is ignored by some factories and refused
  by others; `except` of binary rules is not read; a standard deviation of zero is
  accepted.
- `Monitors`: `rwmutex::read_lock(0)`, which tries and does not wait, answers the
  opposite of what it did (`util/concurrent/rwmutex.cpp:127`); the instance has no
  such lock in its programs.

## 8. Not modelled, and the plan

Not modelled: drivers that only convert and forward; learners that keep examples in an
inverted index (the index itself is `InvertedIndexMix`, the rest arithmetic); the
gaussian mixture of `clustering/gmm`, real-valued throughout; regular expressions and
other formats of data (`FvConverter` takes what a pattern matches as given); the rest of
`util/`, general-purpose C++ support such as smart pointers, function objects, fixed-size
vectors and wrappers of system calls; vendored and build files.  Of modelled components,
what only reads, `pack` and `unpack` unless said otherwise, and the values of hashes and
scores are left out; `PROJECT.json` says so for each.

Of the plan, the modules and the runs are done, and so are the theorems on every
component where servers exchange rows, counts or weights, on the locks, and on the
unlearners.  What is left, in the order in which it would tell most: the buckets of
`Clustering` and the two tables of `LofMix`, whose invariants TLC already checks; the
inverted index's norms, which are sums and can use `SumTheorems`; and the cache's list
of nodes.
