--------------------------- MODULE ServiceConfig ----------------------------
(***************************************************************************)
(* How a configuration becomes a learner: the factories of every service,  *)
(* and the engines and unlearners they make on the way.  A block of the    *)
(* configuration is cast to the members a structure has; what a structure  *)
(* has of its own is one key, "own", that is good, of another type, or a   *)
(* value its constructor refuses.  A creation makes parts, one after the   *)
(* other, until one is refused.  The second part is how a configuration    *)
(* becomes a converter.                                                    *)
(***************************************************************************)
EXTENDS Integers, Sequences, FiniteSets, TLC

CONSTANTS
    Request  \* what may be asked for: [service, name, block] or a clustering

VARIABLES
    asked,   \* the request
    got      \* what it made, or Waiting

vars == <<asked, got>>

\* A block of the configuration: null, no object, or an object by key.
Object(f) == [kind |-> "object", at |-> f]
NullBlock == [kind |-> "null", at |-> <<>>]
NoObject == [kind |-> "other", at |-> <<>>]
IsNull(b) == b.kind = "null"
Has(b, key) == key \in DOMAIN b.at

\* The outcome of a step: the parts it makes, or why it throws.
Made(parts) == [why |-> "ok", parts |-> parts]
Thrown(why) == [why |-> why, parts |-> {}]
Waiting == Thrown("waiting")
Then(first, second) ==
    IF first.why # "ok" THEN first
    ELSE [why |-> second.why, parts |-> first.parts \cup second.parts]
Check(holds, why) == IF holds THEN Made({}) ELSE Thrown(why)

-----------------------------------------------------------------------------
\* config_cast_check: an object that has what it must and nothing else.
config_cast_check(b, must, may) ==
    Check(/\ b.kind = "object"
          /\ must \subseteq DOMAIN b.at /\ DOMAIN b.at \subseteq must \cup may
          /\ Has(b, "own") => b.at["own"] # "mistyped", "cast")

\* The constructor looks at what its structure holds.
Construct(part, b) ==
    Then(Check(Has(b, "own") => b.at["own"] # "refused", "parameter"), Made({part}))
\* Some constructors have nothing to refuse.
Accept(part) == Made({part})

Unlearning == {"unlearner", "unlearner_parameter"}

\* unlearner/unlearner_factory.cpp
make_unlearner(name, b) ==
    IF name \notin {"lru", "random"} THEN Thrown("unsupported")
    ELSE Then(config_cast_check(b, {"own"}, {}), Construct(<<"unlearner", name>>, b))

\* The unlearner of a block, which needs its parameter; a parameter that has no
\* unlearner is not looked at.
create_unlearner(b) ==
    IF ~Has(b, "unlearner") THEN Made({})
    ELSE IF ~Has(b, "unlearner_parameter") THEN Thrown("no_parameter")
    ELSE make_unlearner(b.at["unlearner"], b.at["unlearner_parameter"])

\* Where it is looked at.
create_unlearner_strictly(b) ==
    Then(create_unlearner(b),
         Check(Has(b, "unlearner_parameter") => Has(b, "unlearner"), "lone_parameter"))

NeighborNames == {"euclid_lsh", "lsh", "minhash"}

\* nearest_neighbor/nearest_neighbor_factory.cpp
create_nearest_neighbor(name, b) ==
    IF name \notin NeighborNames THEN Thrown("unsupported")
    ELSE Then(config_cast_check(b, {"own"}, {}), Construct(<<"nearest_neighbor", name>>, b))

NeighborOf(b) == create_nearest_neighbor(b.at["method"], b.at["parameter"])

-----------------------------------------------------------------------------
\* Names that have a short form in the configuration.
Long(name) ==
    CASE name = "PA" -> "passive_aggressive" [] name = "PA1" -> "passive_aggressive_1"
      [] name = "PA2" -> "passive_aggressive_2" [] name = "CW" -> "confidence_weighted"
      [] name = "AROW" -> "arow" [] name = "NHERD" -> "normal_herd"
      [] name = "NN" -> "nearest_neighbor" [] OTHER -> name
Regularized == {"passive_aggressive_1", "passive_aggressive_2", "confidence_weighted", "arow",
                "normal_herd"}
Similar == {"cosine", "euclidean"}

\* classifier/classifier_factory.cpp
create_classifier(name, b) ==
    LET long == Long(name)
        part == <<"classifier", long>>
        given == Check(~IsNull(b), "no_block")
    IN  CASE long \in {"perceptron", "passive_aggressive"} ->
                IF IsNull(b) THEN Accept(part)
                ELSE Then(config_cast_check(b, {}, Unlearning),
                          Then(create_unlearner(b), Accept(part)))
          [] long \in Regularized ->
                Then(given, Then(config_cast_check(b, {"own"}, Unlearning),
                                 Then(create_unlearner(b), Construct(part, b))))
          [] long = "nearest_neighbor" ->
                Then(given, Then(config_cast_check(b, {"own", "method", "parameter"}, Unlearning),
                    Then(create_unlearner(b), Then(NeighborOf(b), Construct(part, b)))))
          [] name \in Similar ->
                Then(given, Then(config_cast_check(b, {"own"}, {}), Construct(part, b)))
          [] OTHER -> Thrown("unsupported")

\* regression/regression_factory.cpp, which does not know "arow".
create_regression(name, b) ==
    LET long == Long(name)
        part == <<"regression", long>>
        given == Check(~IsNull(b), "no_block")
        plain == Then(config_cast_check(b, {"own"}, {}), Construct(part, b))
    IN  CASE name = "arow" -> Thrown("unsupported")
          [] long \in {"perceptron", "passive_aggressive"} \cup Regularized -> plain
          [] long = "nearest_neighbor" ->
                Then(given, Then(config_cast_check(b, {"own", "method", "parameter"}, Unlearning),
                    Then(create_unlearner(b), Then(NeighborOf(b), Construct(part, b)))))
          [] name \in Similar -> Then(given, plain)
          [] OTHER -> Thrown("unsupported")

\* recommender/recommender_factory.cpp
create_recommender(name, b) ==
    LET part == <<"recommender", name>>
    IN  CASE name = "inverted_index" ->
                IF IsNull(b) THEN Accept(part)
                ELSE Then(config_cast_check(b, {}, Unlearning),
                          Then(create_unlearner_strictly(b), Accept(part)))
          [] name = "inverted_index_euclid" ->
                IF IsNull(b) THEN Accept(part)
                ELSE Then(config_cast_check(b, {}, Unlearning \cup {"own"}),
                          Then(create_unlearner_strictly(b), Accept(part)))
          [] name \in NeighborNames ->
                Then(config_cast_check(b, {"own"}, Unlearning),
                     Then(Construct(part, b), create_unlearner_strictly(b)))
          [] name = "nearest_neighbor_recommender" ->
                Then(config_cast_check(b, {"method", "parameter"}, Unlearning),
                     Then(NeighborOf(b), Then(create_unlearner(b), Accept(part))))
          [] OTHER -> Thrown("unsupported")

\* anomaly/anomaly_factory.cpp
create_anomaly(name, b) ==
    LET part == <<"anomaly", name>>
        cast == config_cast_check(b, {"own", "method", "parameter"}, Unlearning)
    IN  CASE name = "lof" ->
                Then(cast, Then(create_unlearner(b),
                    Then(create_recommender(b.at["method"], b.at["parameter"]), Construct(part, b))))
          [] name = "light_lof" ->
                Then(cast, Then(NeighborOf(b), Then(create_unlearner(b), Construct(part, b))))
          [] OTHER -> Thrown("unsupported")

\* bandit/bandit_factory.cpp
create_bandit(name, b) ==
    LET part == <<"bandit", name>>
        cast == Then(Check(~IsNull(b), "no_block"), config_cast_check(b, {"own"}, {}))
    IN  CASE name \in {"epsilon_greedy", "epsilon_decreasing", "softmax", "exp3"} ->
                Then(cast, Construct(part, b))
          [] name \in {"ucb1", "ts"} -> Then(cast, Accept(part))
          [] OTHER -> Thrown("unsupported")

\* storage/storage_factory.cpp
create_storage(name) ==
    IF name \in {"local", "local_mixture"} THEN Made({<<"storage", name>>}) ELSE Thrown("unsupported")

-----------------------------------------------------------------------------
\* A distance that is not given is the Euclidean one.
Default == "euclidean"
Distances == {"euclidean", "cosine"}

\* clustering/clustering_method_factory.cpp; gmm has no use for a distance.
create_method(method, distance, b) ==
    LET part(d) == <<"method", method, d>>
        known == Check(distance \in Distances \cup {"none"}, "parameter")
        used == IF distance = "none" THEN Default ELSE distance
    IN  CASE method \in {"kmeans", "dbscan"} ->
                Then(config_cast_check(b, {"own"}, {}), Then(Construct(part(used), b), known))
          [] method = "gmm" -> Then(config_cast_check(b, {"own"}, {}), Construct(part(Default), b))
          [] OTHER -> Thrown("unsupported")

\* clustering/storage_factory.cpp, both forms of create: without a distance the
\* compressor of k-means has the Euclidean one.
create_points(method, compressor, distance, b) ==
    LET cast == config_cast_check(b, {"own"}, {})
        used == IF method = "kmeans" /\ distance # "none" THEN distance ELSE Default
    IN  CASE method \in {"kmeans", "gmm", "dbscan"} /\ compressor = "simple" ->
                Then(cast, Construct(<<"points", "simple", Default>>, b))
          [] method \in {"kmeans", "gmm"} /\ compressor = "compressive" ->
                Then(cast, Then(Construct(<<"points", "compressive", used>>, b),
                                Check(used \in Distances, "parameter")))
          [] OTHER -> Thrown("unsupported")

\* clustering/clustering_factory.cpp: the distance is not given to the points.
create_clustering(r) ==
    Then(create_method(r.name, r.distance, r.block),
         create_points(r.name, r.compressor, "none", r.compressor_block))

-----------------------------------------------------------------------------
Init == asked \in Request /\ got = Waiting

Create(r) ==
    CASE r.service = "unlearner" -> make_unlearner(r.name, r.block)
      [] r.service = "nearest_neighbor" -> create_nearest_neighbor(r.name, r.block)
      [] r.service = "classifier" -> create_classifier(r.name, r.block)
      [] r.service = "regression" -> create_regression(r.name, r.block)
      [] r.service = "recommender" -> create_recommender(r.name, r.block)
      [] r.service = "anomaly" -> create_anomaly(r.name, r.block)
      [] r.service = "bandit" -> create_bandit(r.name, r.block)
      [] r.service = "storage" -> create_storage(r.name)
      [] r.service = "clustering" -> create_clustering(r)
      [] r.service = "points" -> create_points(r.name, r.compressor, r.distance, r.compressor_block)

create == /\ got = Waiting
          /\ got' = Create(asked)
          /\ UNCHANGED asked

Next == create

Spec == Init /\ [][Next]_vars

-----------------------------------------------------------------------------
\* What there is to ask for, one name of each, and what its structure has: own
\* members, a block of which nothing is refused, an engine, an unlearner.
Linear == Regularized \cup {"perceptron", "passive_aggressive"}
Known ==
    [unlearner |-> {"lru", "random"}, nearest_neighbor |-> NeighborNames,
     classifier |-> Linear \cup Similar \cup {"nearest_neighbor"},
     regression |-> Linear \cup Similar \cup {"nearest_neighbor"},
     recommender |-> NeighborNames
         \cup {"inverted_index", "inverted_index_euclid", "nearest_neighbor_recommender"},
     anomaly |-> {"lof", "light_lof"},
     bandit |-> {"epsilon_greedy", "epsilon_decreasing", "softmax", "exp3", "ucb1", "ts"}]

OfNothing == {<<"classifier", "perceptron">>, <<"classifier", "passive_aggressive">>,
              <<"recommender", "inverted_index">>, <<"recommender", "inverted_index_euclid">>}
Ownless == (OfNothing \cup {<<"recommender", "nearest_neighbor_recommender">>})
               \ {<<"recommender", "inverted_index_euclid">>}
Unrefusing == Ownless \cup {<<"recommender", "inverted_index_euclid">>, <<"bandit", "ucb1">>,
                            <<"bandit", "ts">>}
EngineOf(part) ==
    CASE part = <<"anomaly", "lof">> -> {"recommender"}
      [] part \in {<<"anomaly", "light_lof">>, <<"recommender", "nearest_neighbor_recommender">>,
                   <<"classifier", "nearest_neighbor">>, <<"regression", "nearest_neighbor">>} ->
            {"nearest_neighbor"}
      [] OTHER -> {}
Unlearns(part) ==
    \/ part[1] \in {"recommender", "anomaly"}
    \/ part[1] = "classifier" /\ part[2] \notin Similar
    \/ part = <<"regression", "nearest_neighbor">>
Strict(part) == part[1] = "recommender" /\ part[2] # "nearest_neighbor_recommender"

Must(part) ==
    (IF part \in OfNothing \cup Ownless THEN {} ELSE {"own"})
        \cup (IF EngineOf(part) = {} THEN {} ELSE {"method", "parameter"})
May(part) ==
    Must(part) \cup (IF part \in Ownless THEN {} ELSE {"own"})
        \cup (IF Unlearns(part) THEN Unlearning ELSE {})

RECURSIVE Faults(_, _, _), Named(_, _, _)
\* Everything that is wrong with what is asked, whatever is looked at first.
Faults(service, name, b) ==
    LET part == <<service, Long(name)>>
        of(key, f(_)) == IF Has(b, key) THEN f(b.at[key]) ELSE {}
        OwnFault(v) == (IF v = "mistyped" THEN {"cast"} ELSE {})
                       \cup (IF v = "refused" /\ part \notin Unrefusing THEN {"parameter"} ELSE {})
        EngineFault(m) == IF ~Has(b, "parameter") THEN {}
                          ELSE UNION {Faults(e, m, b.at["parameter"]) : e \in EngineOf(part)}
        UnlearnerFault(u) == IF ~Has(b, "unlearner_parameter") THEN {"no_parameter"}
                             ELSE Faults("unlearner", u, b.at["unlearner_parameter"])
    IN  IF Long(name) \notin Known[service] \/ (service = "regression" /\ name = "arow")
        THEN {"unsupported"}
        ELSE IF IsNull(b) THEN IF part \in OfNothing THEN {} ELSE {"cast", "no_block"}
        ELSE (IF b.kind = "object" /\ Must(part) \subseteq DOMAIN b.at /\ DOMAIN b.at \subseteq May(part)
              THEN {} ELSE {"cast"})
             \cup of("own", OwnFault) \cup of("method", EngineFault)
             \cup (IF Unlearns(part) THEN of("unlearner", UnlearnerFault) ELSE {})
             \cup (IF Strict(part) /\ Has(b, "unlearner_parameter") /\ ~Has(b, "unlearner")
                   THEN {"lone_parameter"} ELSE {})

\* Everything a request without a fault names, one part for each.
Named(service, name, b) ==
    {<<service, Long(name)>>}
        \cup (IF Has(b, "unlearner") THEN {<<"unlearner", b.at["unlearner"]>>} ELSE {})
        \cup UNION {Named(e, b.at["method"], b.at["parameter"]) : e \in EngineOf(<<service, Long(name)>>)}

\* A request is refused only for a fault it has, and without one everything
\* that it names is made: an unlearner at any depth, an engine of an engine.
\* The exception is the distance of the points of a clustering (create_clustering).
FactoriesAreRight ==
    got # Waiting =>
        IF asked.service \in DOMAIN Known
        THEN LET faults == Faults(asked.service, asked.name, asked.block)
             IN  IF got.why = "ok"
                 THEN faults = {} /\ got.parts = Named(asked.service, asked.name, asked.block)
                 ELSE got.why \in faults
        ELSE got.why = "ok" =>
                 /\ asked.service = "clustering" =>
                        \E p, q \in got.parts :
                            /\ p[1] = "method" /\ p[2] = asked.name
                            /\ asked.name # "gmm" /\ asked.distance # "none" => p[3] = asked.distance
                            /\ q[1] = "points" /\ q[2] = asked.compressor
                            /\ asked.name = "dbscan" => q[2] = "simple"
                 /\ asked.service = "points" =>
                        \A q \in got.parts :
                            /\ q[2] = asked.compressor
                            /\ asked.name = "kmeans" /\ q[2] = "compressive" /\ asked.distance # "none"
                                   => q[3] = asked.distance
                 /\ asked.service = "storage" => got.parts = {<<"storage", asked.name>>}

---------------------------------------------------------------------------
(***************************************************************************)
(* How a configuration becomes a converter: the types of each section are  *)
(* made by its factory, by a plugin where the factory knows none, and the  *)
(* rules are registered one by one with the type they name.  The caller of *)
(* initialize_converter may have a converter with rules already; one that  *)
(* throws half way leaves the rules registered so far.                     *)
(* A parameter is a number, or Word for a text that is none.               *)
(***************************************************************************)

CONSTANTS
    Config,     \* [hash, ext, types, rules]: see below
    Converter,  \* the converters there may be before
    Word,       \* a text that is no number
    Library,    \* where there are plugins: <<place, path>>
    Symbol,     \* the functions a plugin has
    Sample      \* the numbers filters are tried on

VARIABLES
    config,     \* what is read: hash none or one number, by section the
                \* parameters of types and a sequence of rules
    made,       \* by section, the types made, by name
    conv,       \* rules, weights that are asked for, the hasher's size
    at,         \* the step
    why         \* "ok", or why it threw

converterVars == <<config, made, conv, at, why>>

Section == <<"string_filter", "num_filter", "string", "num", "binary", "combination">>
Sections == {Section[i] : i \in 1..6}

Thing(t) == [why |-> "ok", thing |-> t]
Refused(w) == [why |-> w, thing |-> <<>>]

-----------------------------------------------------------------------------
\* get_or_die, get_with_default, get_int_or_die
HasParam(params, key) == key \in DOMAIN params
get_with_default(params, key, default) == IF HasParam(params, key) THEN params[key] ELSE default
AllGiven(params, keys) == keys \subseteq DOMAIN params
AllNumbers(params, keys) == \A k \in keys \cap DOMAIN params : params[k] # Word

\* dynamic_loader: a path with a slash is where it says, another one is looked
\* for below JUBATUS_PLUGIN_PATH and then in the directory of the installation.
\* Then the function is looked up and called, and must return an instance.
dynamic_loader(path) ==
    LET places == IF path.slash THEN <<"here">> ELSE <<"environment", "installation">>
        found == {i \in DOMAIN places : <<places[i], path.name>> \in Library}
    IN  IF found = {} THEN "none" ELSE places[CHOOSE i \in found : \A j \in found : i <= j]
load_object(params) ==
    IF dynamic_loader(params["path"]) = "none" THEN Refused("cannot load")
    ELSE IF params["function"] \notin Symbol THEN Refused("no symbol")
    ELSE Thing(<<"plugin", dynamic_loader(params["path"]), params["function"]>>)

\* so_factory, the same for each kind of type.
so_factory(method, params) ==
    IF method # "dynamic" THEN Refused("unknown")
    ELSE IF ~AllGiven(params, {"path", "function"}) THEN Refused("missing")
    ELSE load_object(params)

\* The types a factory knows: the parameters they need, those that are numbers,
\* and what the constructor refuses.
KnownMethods ==
    ("string_filter" :> {"regexp"}) @@ ("string" :> {"ngram", "regexp", "split"})
    @@ ("num_filter" :> {"add", "linear_normalization", "gaussian_normalization",
                         "sigmoid_normalization"})
    @@ [s \in {"num", "binary", "combination"} |-> {}]
Needs(section, method) ==
    CASE section = "string_filter" -> {"pattern", "replace"}
      [] method = "ngram" -> {"char_num"} [] method = "regexp" -> {"pattern"}
      [] method = "split" -> {"separators"} [] method = "add" -> {"value"}
      [] method = "linear_normalization" -> {"min", "max"}
      [] method = "gaussian_normalization" -> {"average", "standard_deviation"}
      [] OTHER -> {}
Numbers == {"char_num", "group", "value", "min", "max", "average", "standard_deviation", "gain", "bias"}
\* A pattern is the number of its groups.
Constructs(section, method, params) ==
    LET p(key, default) == get_with_default(params, key, default)
    IN  CASE method = "ngram" -> p("char_num", 0) > 0
          [] method = "regexp" /\ section = "string" ->
                p("pattern", Word) # Word /\ p("group", 0) \in 0..p("pattern", Word)
          [] method = "regexp" /\ section = "string_filter" ->
                p("pattern", Word) # Word /\ p("replace", 0) <= p("pattern", Word)
          [] method = "linear_normalization" -> p("max", 0) > p("min", 0)
          [] method = "gaussian_normalization" -> p("standard_deviation", 0) >= 0
          [] method = "sigmoid_normalization" -> p("gain", 1) # 0
          [] OTHER -> TRUE

\* What a factory makes of a method: its own first, then what the extension has.
create_plugin(section, method, params) ==
    IF method \in KnownMethods[section]
    THEN IF ~AllGiven(params, Needs(section, method)) THEN Refused("missing")
         ELSE IF ~AllNumbers(params, Numbers) THEN Refused("no number")
         ELSE IF ~Constructs(section, method, params) THEN Refused("refused")
         ELSE Thing(<<"own", method, params>>)
    ELSE IF config.ext THEN so_factory(method, params) ELSE Refused("unknown")

Make(section, params) ==
    IF HasParam(params, "method") THEN create_plugin(section, params["method"], params) ELSE Refused("missing")

\* The types there are without any configuration.
Defaults(section) ==
    LET names == CASE section = "string" -> {"str", "space"}
                   [] section = "num" -> {"num", "log", "str"}
                   [] section = "combination" -> {"add", "mul"}
                   [] OTHER -> {}
    IN  [n \in names |-> <<"default", n>>]

\* A number filter as a fraction; how a sigmoid rises is not modelled.
filter(thing, v) ==
    LET p(key, default) == get_with_default(thing[3], key, default)
        min == p("min", 0)
        max == p("max", 0)
    IN  CASE thing[2] = "add" -> <<v + p("value", 0), 1>>
          [] thing[2] = "linear_normalization" ->
                IF p("truncate", 1) = 1 /\ max < v THEN <<1, 1>>
                ELSE IF p("truncate", 1) = 1 /\ v < min THEN <<0, 1>>
                ELSE <<v - min, max - min>>
          [] thing[2] = "gaussian_normalization" -> <<v - p("average", 0), p("standard_deviation", 0)>>
          [] OTHER -> <<v, 1>>

-----------------------------------------------------------------------------
\* What a rule matches, with what it excepts; a rule for combinations has both
\* twice.  init_binary_rules does not look at what is excepted.
create_key_matcher(section, rule) ==
    IF section = "binary" THEN <<rule.key, {}>> ELSE <<rule.key, rule.except>>

\* make_weight_type
Samples == {"bin", "tf", "log_tf"}
Globals == {"bin", "idf", "idf1", "bm25", "weight"}
Weighs(section, rule) ==
    section = "string" => rule.sample \in Samples /\ rule.global \in Globals

Fresh == [rules |-> <<>>, idf |-> FALSE, bm25 |-> FALSE, hash |-> {}]

ConverterInit == /\ config \in Config
        /\ conv \in Converter \cup {Fresh}
        /\ made = [s \in Sections |-> Defaults(s)]
        /\ at = <<"hash", 1>>
        /\ why = "ok"

Throw(w) == /\ why' = w
            /\ at' = <<"failed", 1>>
            /\ UNCHANGED <<config, made, conv>>

\* The size of the hash is looked at before anything else.
CheckHash ==
    /\ at[1] = "hash"
    /\ IF \E n \in config.hash : n <= 0 THEN Throw("hash_max_size")
       ELSE at' = <<"types", 1>> /\ UNCHANGED <<config, made, conv, why>>

\* init_string_filter_types and the like: whichever comes first of the types
\* that cannot be made throws; a name that there is already is made anew.
InitTypes ==
    /\ at[1] = "types"
    /\ LET section == Section[at[2]]
           types == config.types[section]
           result == [n \in DOMAIN types |-> Make(section, types[n])]
           wrong == {n \in DOMAIN types : result[n].why # "ok"}
       IN  \/ \E n \in wrong : Throw(result[n].why)
           \/ /\ wrong = {}
              /\ made' = [made EXCEPT ![section] = [n \in DOMAIN types |-> result[n].thing] @@ @]
              /\ at' = IF at[2] < 6 THEN <<"types", at[2] + 1>> ELSE <<"clear", 1>>
              /\ UNCHANGED <<config, conv, why>>

clear_rules ==
    /\ at[1] = "clear"
    /\ conv' = [Fresh EXCEPT !.hash = conv.hash]
    /\ at' = <<"rules", 1>>
    /\ UNCHANGED <<config, made, why>>

\* init_string_filter_rules and the like, one rule: register_string_rule notes
\* which weights must be kept.
InitRules ==
    /\ at[1] = "rules"
    /\ LET section == Section[at[2]]
           done == Len(SelectSeq(conv.rules, LAMBDA r : r.section = section))
           rules == config.rules[section]
           rule == rules[done + 1]
       IN  IF done = Len(rules)
           THEN /\ at' = IF at[2] < 6 THEN <<"rules", at[2] + 1>> ELSE <<"set_hash", 1>>
                /\ UNCHANGED <<config, made, conv, why>>
           ELSE IF rule.type \notin DOMAIN made[section] THEN Throw("unknown type")
           ELSE IF ~Weighs(section, rule) THEN Throw("unknown weight")
           ELSE /\ conv' =
                     [conv EXCEPT
                        !.rules = Append(@, [section |-> section, rule |-> rule,
                                             matcher |-> create_key_matcher(section, rule),
                                             thing |-> made[section][rule.type]]),
                        !.idf = @ \/ (section = "string" /\ rule.global \in {"idf", "idf1"}),
                        !.bm25 = @ \/ (section = "string" /\ rule.global = "bm25")]
                /\ UNCHANGED <<config, made, at, why>>

\* A converter keeps its hasher when the configuration has none.
set_hash_max_size ==
    /\ at[1] = "set_hash"
    /\ conv' = [conv EXCEPT !.hash = IF config.hash = {} THEN @ ELSE config.hash]
    /\ at' = <<"done", 1>>
    /\ UNCHANGED <<config, made, why>>

ConverterNext == CheckHash \/ InitTypes \/ clear_rules \/ InitRules \/ set_hash_max_size

ConverterSpec == ConverterInit /\ [][ConverterNext]_vars

-----------------------------------------------------------------------------
\* What a rule's type should be: the one the configuration defines, before one
\* of the same name that there is anyway.
Meant(section, name) ==
    IF name \in DOMAIN config.types[section] THEN Make(section, config.types[section][name]).thing
    ELSE Defaults(section)[name]
Registered(section) == SelectSeq(conv.rules, LAMBDA r : r.section = section)
AllRules == UNION {{<<s, config.rules[s][i]>> : i \in DOMAIN config.rules[s]} : s \in Sections}

\* Whether anything in the configuration is wrong, used or not.
Wrong ==
    \/ \E n \in config.hash : n <= 0
    \/ \E s \in Sections : \E n \in DOMAIN config.types[s] : Make(s, config.types[s][n]).why # "ok"
    \/ \E x \in AllRules :
          \/ x[2].type \notin DOMAIN config.types[x[1]] \cup DOMAIN Defaults(x[1])
          \/ ~Weighs(x[1], x[2])

\* A converter that is made has exactly the rules of its configuration, section
\* by section in their order, each with the type it means and what it excepts
\* (but for binary values), keeps what its weights need, and has the hash that
\* is given; one is refused only if something is wrong, and then no rule of an
\* earlier configuration is left once the first new one is there.  A number
\* normalized between bounds and truncated is within 0 and 1, and no filter has
\* a negative denominator.
ConverterIsRight ==
    /\ at[1] = "done" =>
          /\ ~Wrong
          /\ \A s \in Sections :
                /\ Len(Registered(s)) = Len(config.rules[s])
                /\ \A i \in DOMAIN config.rules[s] :
                      LET r == Registered(s)[i]
                      IN  /\ r.rule = config.rules[s][i] /\ r.thing = Meant(s, r.rule.type)
                          /\ s # "binary" => r.matcher = <<r.rule.key, r.rule.except>>
          /\ \A i, j \in DOMAIN conv.rules :
                \E k, l \in 1..6 : /\ Section[k] = conv.rules[i].section /\ Section[l] = conv.rules[j].section
                                   /\ i <= j => k <= l
          /\ conv.idf <=> \E x \in AllRules : x[1] = "string" /\ x[2].global \in {"idf", "idf1"}
          /\ conv.bm25 <=> \E x \in AllRules : x[1] = "string" /\ x[2].global = "bm25"
          /\ config.hash # {} => conv.hash = config.hash
    /\ at[1] = "failed" => Wrong
    /\ at[1] \in {"rules", "set_hash", "done"} =>
          \A i \in DOMAIN conv.rules : <<conv.rules[i].section, conv.rules[i].rule>> \in AllRules
    /\ \A n \in DOMAIN made["num_filter"] :
          LET thing == made["num_filter"][n]
          IN  thing[1] = "own" =>
                 \A v \in Sample :
                    LET f == filter(thing, v)
                    IN  /\ f[2] >= 0
                        /\ thing[2] = "linear_normalization" =>
                              /\ f[2] > 0
                              /\ get_with_default(thing[3], "truncate", 1) = 1 => f[1] \in 0..f[2]
=============================================================================
