---------------------------- MODULE MCContainers ----------------------------
(***************************************************************************)
(* Model-checking instance of what a single server does to containers, one *)
(* of them in each behaviour: the unlearners (LruUnlearner, extended), a   *)
(* pull from a column table, bit vectors, the columns of a table, the tables *)
(* of light_lof, the cache of random vectors, JSON texts and what is made of *)
(* them, the vector a datum becomes, weights with a difference, vectors and*)
(* the probes of an index, and what a configuration makes.  What a component *)
(* does not use is empty and stays so.                                     *)
(***************************************************************************)
EXTENDS LruUnlearner, Integers, TLC

VARIABLES part, table, used, deletes, pulls, seen, peer, stage, size, place,
          count, packed, conf, nn, scores, recent, sticky, outcome, calls,
          map, prev, next, head, tail, thread, grnd, used_last, lone, vec,
          on, outgrown, flips, keys, tuples, index, array, plain, stored,
          archive, torn, overread, changes, stream, written, reader,
          documents, phase, asked, how, result, master, learned, manager,
          version, kept, gathered, since, given, trained, hash,
          perturbation_sets, heap, bases, probes, left, right, combined,
          vector, assoc, expected, best, most, pushed, used_vectors, setting,
          types_made, converter, reached, blamed, wish, creation, config,
          datum, step, at, strings, nums, fv

VARIABLES ids, id_map, rsaved, rlast

R == INSTANCE RandomUnlearner
        WITH saved <- rsaved, last <- rlast

rvars == <<ids, id_map, rsaved, rlast>>

MCNext ==
    \/ R!Init /\ Next /\ UNCHANGED rvars
    \/ Init /\ R!Next /\ UNCHANGED vars

MCInit == Init /\ R!Init

\* Type invariant of both unlearners.
TypesOK == TypeOK /\ R!TypeOK

\* The map of the random unlearner finds exactly the ids of its vector.
MapMatchesIds == R!MapMatchesIds

\* random_unlearner keeps the promise of unlearner_base, with no sticky ids.
RandomImplementsUnlearner == R!ImplementsUnlearner

\* Ids that agree in stickiness are interchangeable.
Symmetry == Permutations(Id \ Sticky) \cup Permutations(Sticky)


\* A text that is no number.
NoNumber == 99

Absent == <<>>

\* Blocks of the factories: what is of its own, an engine, an unlearner.
Optional(key, V) == {Absent} \cup {key :> v : v \in V}
Block(own, methods, parameters, unlearners) ==
    {[kind |-> "object", at |-> a @@ b @@ c @@ d @@ e] :
        a \in own, b \in methods, c \in parameters, d \in unlearners,
        e \in {Absent, "extra" :> 1}}
Own(V) == Optional("own", V)
NullOrNone == {[kind |-> "null", at |-> <<>>], [kind |-> "other", at |-> <<>>]}
Simple == NullOrNone \cup Block(Own({"good", "mistyped", "refused"}), {Absent}, {Absent}, {Absent})
Parameter == {[kind |-> "object", at |-> a] : a \in Own({"good", "refused"})}
Unlearner == {a @@ b : a \in Optional("unlearner", {"lru", "random", "fifo"}),
                       b \in Optional("unlearner_parameter", Parameter)}
Unlearned == NullOrNone \cup Block(Own({"good", "refused"}), {Absent}, {Absent}, Unlearner)
Engines(names) == Optional("method", names)
Nested == NullOrNone \cup Block(Own({"good", "refused"}), Engines({"lsh", "euclid_lsh", "other"}),
                                Optional("parameter", Parameter), Unlearner)
Deep == NullOrNone \cup Block(Own({"good"}), Engines({"inverted_index", "lsh", "nearest_neighbor_recommender"}),
                              Optional("parameter", {[kind |-> "object", at |-> a @@ b] :
                                  a \in Own({"good"}), b \in {Absent, ("unlearner" :> "lru"),
                                      ("method" :> "lsh") @@ ("parameter" :> [kind |-> "object", at |-> ("own" :> "good")])}}),
                              Unlearner)
Ask(service, names, blocks) == [service : {service}, name : names, block : blocks]

Requests ==
    UNION {Ask("unlearner", {"lru", "random", "fifo"}, Simple),
           Ask("nearest_neighbor", {"lsh", "minhash", "euclid_lsh", "none"}, Simple),
           Ask("classifier", {"perceptron", "PA", "PA1", "passive_aggressive_2", "CW", "AROW", "arow",
                              "normal_herd", "cosine", "KNN"}, Unlearned),
           Ask("regression", {"perceptron", "PA", "PA1", "passive_aggressive_2", "CW", "AROW", "arow",
                              "normal_herd", "cosine", "KNN"}, Unlearned),
           Ask("classifier", {"NN"}, Nested), Ask("regression", {"NN"}, Nested),
           Ask("recommender", {"lsh", "inverted_index", "inverted_index_euclid"}, Unlearned),
           Ask("recommender", {"nearest_neighbor_recommender"}, Nested),
           Ask("anomaly", {"light_lof"}, Nested), Ask("anomaly", {"lof"}, Deep),
           Ask("bandit", {"exp3", "ucb1", "greedy"}, Simple),
           Ask("storage", {"local", "local_mixture", "remote"}, {[kind |-> "null", at |-> <<>>]})}
    \cup [service : {"clustering", "points"}, name : {"kmeans", "gmm", "dbscan", "other"}, block : Simple,
          distance : {"none", "euclidean", "cosine", "manhattan"},
          compressor : {"simple", "compressive", "none"}, compressor_block : Simple]

\* Sections of a converter's configuration: the usual ones, with one of them,
\* or it and the numbers, replaced by others.
Sections == {"string_filter", "num_filter", "string", "num", "binary", "combination"}
Of(type) == [type |-> type, key |-> 1, except |-> {2}]
OfText(type, sample, global) == Of(type) @@ [sample |-> sample, global |-> global]
Method(name) == "method" :> name
Defined(types, rules) == [types |-> types, rules |-> rules]
Plugin(slash, name, function) ==
    Method("dynamic") @@ ("path" :> [slash |-> slash, name |-> name]) @@ ("function" :> function)
Plugins == {Plugin(s, n, f) : s \in BOOLEAN, n \in {"a", "b"}, f \in {"create", "other"}}
               \cup {Method("dynamic") @@ ("function" :> "create")}
Usual ==
    [s \in Sections |->
        Defined(Absent, CASE s = "string" -> <<OfText("str", "bin", "idf"), OfText("space", "tf", "bin")>>
                          [] s = "num" -> <<Of("num"), Of("log")>>
                          [] s = "combination" -> <<Of("mul")>> [] OTHER -> <<>>)]

Numeric ==
    {Method("add") @@ ("value" :> v) : v \in {1, NoNumber}}
    \cup {Method("linear_normalization") @@ ("min" :> a) @@ ("max" :> b) @@ t :
              a \in {-1, 1}, b \in {1, 2}, t \in Optional("truncate", {0})}
    \cup {Method("gaussian_normalization") @@ ("average" :> 0) @@ ("standard_deviation" :> d) : d \in -1..1}
    \cup {Method("sigmoid_normalization") @@ ("gain" :> d) : d \in {-1, 0}}
    \cup {Method("sigmoid_normalization"), Method("add"), Absent}
Splitting ==
    {Method("ngram") @@ ("char_num" :> n) : n \in {0, 2, NoNumber}}
    \cup {Method("regexp") @@ ("pattern" :> q) @@ g : q \in {1, NoNumber}, g \in Optional("group", {-1, 1, 2})}
    \cup {Method("split") @@ ("separators" :> NoNumber), Method("regexp"), Method("split")}
Replacing ==
    {Method("regexp") @@ ("pattern" :> q) @@ ("replace" :> r) : q \in {1, NoNumber}, r \in {1, 2}}
    \cup {Method("regexp"), Method("other")}
Once(P) == {Defined("x" :> q, <<Of("x")>>) : q \in P} \cup {Defined(Absent, <<Of("x")>>)}

Others(s) ==
    CASE s = "string_filter" -> Once(Replacing)
      [] s = "num_filter" -> Once(Numeric)
      [] s = "string" ->
            {Defined("str" :> q, <<OfText("space", "log_tf", "idf1"), OfText("str", "bin", "bm25")>>) : q \in Splitting}
            \cup {Defined(Absent, <<OfText("str", "bin", "weight"), OfText("str", x, "idf")>>) : x \in {"bin", "df"}}
            \cup {Defined(Absent, <<OfText("str", "bin", "tf")>>), Defined(Absent, <<OfText("other", "bin", "bin")>>)}
      [] s = "num" ->
            {Defined("num" :> q, <<Of("num"), Of("log")>>) : q \in Plugins}
            \cup {Defined(Absent, <<Of("str"), Of("none")>>)}
      [] s = "binary" -> {Defined("image" :> q, <<Of("image")>>) : q \in Plugins}
      [] OTHER -> {Defined(("add" :> q) @@ ("sub" :> q), <<Of("add"), Of("mul"), Of("sub")>>) :
                     q \in {Plugin(TRUE, "a", "create"), Plugin(FALSE, "b", "create"), Method("other")}}

Setting(f, h, ext) ==
    [hash |-> h, ext |-> ext, types |-> [s \in Sections |-> f[s].types],
     rules |-> [s \in Sections |-> f[s].rules]]
Settings ==
    UNION {{Setting([Usual EXCEPT ![s] = x], {}, e) : x \in Others(s), e \in BOOLEAN} : s \in Sections}
    \cup UNION {{Setting([Usual EXCEPT ![s] = x, !["num"] = y], {5}, TRUE) :
                    x \in Others(s), y \in Others("num")} : s \in Sections \ {"num"}}
    \cup {Setting(Usual, h, TRUE) : h \in {{}, {0}, {-1}, {7}}}

\* A converter that has a rule already.
Earlier == [rules |-> <<[section |-> "binary", rule |-> Of("old"), matcher |-> 1, thing |-> 2]>>,
            idf |-> TRUE, bm25 |-> TRUE, hash |-> {3}]
Libraries == {<<"here", "a">>, <<"environment", "b">>, <<"installation", "b">>, <<"installation", "a">>}

P == INSTANCE TablePull
        WITH Key <- Sticky, Me <- "me", Write <- Id \ Sticky, MaxPulls <- 2, MaxDeletes <- 1,
             During <- {"add"}, i <- place

\* Lengths of one block and of two, and a position that one of them lacks.
B == INSTANCE BitVectors
        WITH Vec <- {1, 2}, Length <- {3, 9}, Position <- {0, 2, 3, 8}, MaxCalls <- 5,
             v <- vec, bits <- on, calls <- flips

\* Bit vectors without memory, too short, as long as the column's and longer.
Bit(n, b) == [num |-> n, blocks |-> b]
NoBlocks == <<-1>>

T == INSTANCE ColumnStore
        WITH Key <- {"j", "k", "l"}, Plain <- {7}, BlockBits <- 2, Width <- 4, None <- NoBlocks,
             Bits <- {Bit(0, NoBlocks), Bit(2, <<1>>), Bit(3, <<1, 0>>), Bit(4, <<2, 1>>),
                      Bit(5, <<1, 1, 1>>)},
             MaxCalls <- 4, calls <- changes, saved <- archive

\* At most three rows, ids that cannot be unlearned, and pairs set in bulk.
Item(i, p) == [id |-> i, point |-> p]
Bulks == {<<Item(i, p), Item(j, 1)>> : i \in {1, 3}, j \in {2, 4}, p \in {0, 1}}
           \cup {<<Item(2, 3), Item(1, 1)>>}
Configs == {[k |-> 2, reverse |-> 5, max_size |-> 3, ignore |-> TRUE],
            [k |-> 2, reverse |-> 4, max_size |-> 2, ignore |-> FALSE]}

A == INSTANCE LightLof
        WITH Id <- 1..4, Point <- {0, 1, 3}, Sticky <- {3, 4}, Config <- Configs,
             Bulk <- Bulks, MaxCalls <- 3, lru <- recent

C == INSTANCE ProjectionCache
        WITH Thread <- {1, 2}, Key <- 1..4, Null <- 0, MaxSize <- 3, recent <- used_last

\* Chained filters; rules for strings and numbers that overlap, with their
\* exceptions; combinations in both orders; and a hash that collides.
Rule(k, e, x) == [key |-> k, except |-> e] @@ x
All == <<"*">>
Filters == <<Rule(All, {}, [suffix |-> <<"x">>]),
             Rule(<<"*", "x">>, {}, [suffix |-> <<"/">>]),
             Rule(<<"k", "*">>, {<<"*", "/">>}, [suffix |-> <<"@">>])>>
Str(k, e, t, s, g) == Rule(k, e, [type |-> t, sample |-> s, global |-> g])
Whole == <<Str(All, {}, "str", "bin", "idf")>>
Split == <<Str(All, {<<"k">>}, "space", "tf", "bin"), Str(<<"k">>, {}, "bigram", "tf", "idf")>>
Num(k, t) == Rule(k, {}, [type |-> t])
Named == <<Num(<<"k", "*">>, "str"), Num(<<"*", "x">>, "num")>>
Pairs == <<[left |-> All, right |-> <<"k", "*">>, name |-> "mul"],
           [left |-> <<"*", "num">>, right |-> <<"*", "idf">>, name |-> "add"]>>
RuleSet(sf, nf, sr, nr, c, h) ==
    [string_filters |-> sf, num_filters |-> nf, string_rules |-> sr, num_rules |-> nr,
     combinations |-> c, hash_max_size |-> h]
Converters ==
    {RuleSet(Filters, <<Rule(<<"k">>, {}, [suffix |-> <<"x">>])>>, Whole, <<Num(All, "num")>>, Pairs, 0),
     RuleSet(<<>>, <<Rule(<<"k">>, {}, [suffix |-> <<"x">>])>>, Split, Named, Pairs, 2),
     RuleSet(Filters, <<>>, Split, Named, <<>>, 2),
     RuleSet(<<>>, <<>>, <<>>, Named, Pairs, 0)}

\* Keys and values with the characters that separate the parts of a feature's
\* key, and texts of up to three bytes.
Keys == {<<"k">>, <<"x", "/">>, <<"x", "@", "idf">>, <<"k", "$">>}
Values == {<<"x">>, <<"@", "str", "#">>, <<"$", "x", "/">>}
Texts == UNION {[1..n -> {"x", " ", "h", "c"}] : n \in 0..3}
Data ==
    {[strings |-> <<<<k, v>>>>, nums |-> x] :
        k \in Keys, v \in Values, x \in {<<>>} \cup {<<<<l, y>>>> : l \in Keys, y \in {0, 2}}}
    \cup {[strings |-> <<<<<<"k">>, t>>, <<<<"x">>, <<"x">>>>>>, nums |-> <<>>] : t \in Texts}
FilterTail(s) == IF s = <<>> THEN s ELSE Tail(s)
HashLength(k) == Len(k)
CommonKey(k) == k[Len(k) - 6] = "x"

F == INSTANCE FvConverter
        WITH Config <- Converters, Datum <- Data, Filter <- FilterTail, Hash <- HashLength,
             IsCommon <- CommonKey, stage <- step

\* Documents with what is lost and what is not: a number of no digits after the
\* point, one with an exponent, NUL, code points that are escaped, a key again.
Nil == <<"Null", 0>>
Printable ==
    {Nil, <<"Integer", -3>>, <<"Float", <<-125, -2>>>>, <<"Float", <<1, 0>>>>, <<"Float", <<1, -6>>>>,
     <<"String", <<97, 34, 10, 3>>>>, <<"String", <<0>>>>, <<"String", <<233, 128512>>>>,
     <<"Array", <<<<"Integer", 1>>, <<"Array", <<<<"String", <<>>>>>>>>>>>>,
     <<"Object", (<<97>> :> <<"Bool", TRUE>>) @@ (<<34, 0>> :> <<"Array", <<Nil>>>>)>>}

\* Documents of the type asked for, with a key too many, a wrong type, a member
\* missing or null, at the top and below.
Num3 == <<"Integer", 3>>
Scalars == {Nil, <<"Bool", TRUE>>, Num3, <<"Integer", 9>>, <<"Float", <<15, -1>>>>, <<"String", "x">>}
Objects(K, V) == UNION {{<<"Object", f>> : f \in [D -> V]} : D \in SUBSET K}
Arrays(V) == {<<"Array", s>> : s \in UNION {[1..n -> V] : n \in 0..2}}
Leaf == {Num3, <<"String", "x">>, Nil}
Inner == <<"struct", <<<<"a", <<"Integer">>, FALSE>>, <<"b", <<"Float">>, TRUE>>>>>>
Outer == <<"struct", <<<<"a", <<"Array", Inner>>, FALSE>>, <<"b", Inner, TRUE>>,
                       <<"c", <<"map", <<"String">>>>, TRUE>>, <<"d", <<"json">>, FALSE>>>>>>
Inside == {<<"Object", ("a" :> Num3)>>, <<"Object", ("a" :> <<"String", "x">>) @@ ("z" :> Nil)>>,
           <<"Object", ("a" :> <<"Integer", 9>>) @@ ("b" :> <<"Float", <<15, -1>>>>)>>,
           Nil, <<"Array", <<>>>>}
Outside ==
    Objects({"a", "b"}, Inside \cup {<<"Array", <<x, y>>>> : x, y \in Inside})
    \cup {<<"Object", f @@ ("d" :> Nil)>> :
             f \in UNION {[D -> Inside \cup Objects({"p"}, Leaf)] : D \in {{"b", "c"}, {"c", "z"}, {"a", "z"}}}}
Types == {<<"Integer">>, <<"Float">>, <<"Bool">>, <<"Array", <<"Integer">>>>, <<"map", <<"Float">>>>, Inner}
Asked ==
    {<<t, v>> : t \in Types, v \in Scalars \cup Arrays(Scalars) \cup Objects({"a", "b", "z"}, Leaf)}
    \cup {<<Outer, v>> : v \in Outside}

\* The key z looks like the way to a member.
SpellZ(k) == IF k = "z" THEN <<"a", "/", "a">> ELSE <<k>>

J == INSTANCE Json
        WITH Doc <- Printable, Typed <- {91, 93, 44, 45, 46, 49, 101, 32}, MaxText <- 4,
             MaxDocs <- 2, IntMax <- 12, Precision <- 2, text <- stream, docs <- written,
             parser <- reader, read <- documents, state <- phase,
             Given <- Asked, IntBits <- 4, Spell <- SpellZ, given <- asked, mode <- how,
             outcome <- result

M == INSTANCE LocalStorageMixture
        WITH Feature <- {"f"}, Label <- {"a", "b"}, Weight <- {<<2, 1, 1>>}, Step <- {1},
             Vector <- {("f" :> 1) @@ ("g" :> 2)}, MaxVersion <- 1, MaxCalls <- 3,
             tbl <- master, tbl_diff <- learned, km <- manager, saved <- kept, diff <- gathered,
             calls <- trained

\* Distances that differ, that are the same within and across tables, and none.
Hashes == {<<3, 17, 5, 12>>, <<0, 0, 4, 9>>, <<7, 3, 7, 3>>, <<-4, 15, 22, 1>>, <<5, 5, 20, 10>>}

V == INSTANCE Vectors
        WITH Hash <- Hashes, Scale <- 10, Tables <- 2, probe_heap <- heap, Key <- 1..3, Value <- {1, 2}, MaxCalls <- 4, l <- left, r <- right, op <- combined,
             result <- vector, heap <- best, max_size <- most, calls <- used_vectors

O == INSTANCE ServiceConfig
        WITH Request <- Requests, asked <- wish, got <- creation, Config <- Settings,
             Converter <- {Earlier}, Word <- NoNumber, Library <- Libraries, Symbol <- {"create"},
             Sample <- -3..3, config <- setting, made <- types_made, conv <- converter,
             at <- reached, why <- blamed

ASSUME InstancesAssumption ==
    /\ P!BoundAssumption /\ P!DuringAssumption
    /\ B!VectorAssumption /\ T!ColumnAssumption /\ J!JsonAssumption /\ J!ConfigAssumption

pullVars == <<table, used, deletes, pulls, seen, peer, stage, size, place,
              count, packed>>
lofVars == <<conf, nn, scores, recent, sticky, outcome, calls>>
cacheVars == <<map, prev, next, head, tail, thread, grnd, used_last, lone>>
bitsVars == <<vec, on, outgrown, flips>>
columnsVars == <<keys, tuples, index, array, plain, stored, archive, torn,
                 overread, changes>>
jsonVars == <<stream, written, reader, documents, phase>>
castVars == <<asked, how, result>>
weightsVars == <<master, learned, manager, version, kept, gathered, since,
                 given, trained>>
probeVars == <<hash, perturbation_sets, heap, bases, probes>>
vectorsVars == <<left, right, combined, vector, assoc, expected, best, most,
                 pushed, used_vectors>>
settingVars == <<setting, types_made, converter, reached, blamed>>
wishVars == <<wish, creation>>
fvVars == <<config, datum, step, at, strings, nums, fv>>

\* What a component that does not run has instead of its state.
Nothing == <<>>
NoPull ==
    /\ table = Nothing /\ used = Nothing /\ deletes = Nothing
    /\ pulls = Nothing /\ seen = Nothing /\ peer = Nothing /\ stage = Nothing
    /\ size = Nothing /\ place = Nothing /\ count = Nothing
    /\ packed = Nothing
NoLof ==
    /\ conf = Nothing /\ nn = Nothing /\ scores = Nothing /\ recent = Nothing
    /\ sticky = Nothing /\ outcome = Nothing /\ calls = Nothing
NoCache ==
    /\ map = Nothing /\ prev = Nothing /\ next = Nothing /\ head = Nothing
    /\ tail = Nothing /\ thread = Nothing /\ grnd = Nothing
    /\ used_last = Nothing /\ lone = Nothing
NoBits ==
    /\ vec = Nothing /\ on = Nothing /\ outgrown = Nothing /\ flips = Nothing
NoColumns ==
    /\ keys = Nothing /\ tuples = Nothing /\ index = Nothing
    /\ array = Nothing /\ plain = Nothing /\ stored = Nothing
    /\ archive = Nothing /\ torn = Nothing /\ overread = Nothing
    /\ changes = Nothing
NoJson ==
    /\ stream = Nothing /\ written = Nothing /\ reader = Nothing
    /\ documents = Nothing /\ phase = Nothing
NoCast ==
    /\ asked = Nothing /\ how = Nothing /\ result = Nothing
NoWeights ==
    /\ master = Nothing /\ learned = Nothing /\ manager = Nothing
    /\ version = Nothing /\ kept = Nothing /\ gathered = Nothing
    /\ since = Nothing /\ given = Nothing /\ trained = Nothing
NoProbe ==
    /\ hash = Nothing /\ perturbation_sets = Nothing /\ heap = Nothing
    /\ bases = Nothing /\ probes = Nothing
NoVectors ==
    /\ left = Nothing /\ right = Nothing /\ combined = Nothing
    /\ vector = Nothing /\ assoc = Nothing /\ expected = Nothing
    /\ best = Nothing /\ most = Nothing /\ pushed = Nothing
    /\ used_vectors = Nothing
NoSetting ==
    /\ setting = Nothing /\ types_made = Nothing /\ converter = Nothing
    /\ reached = Nothing /\ blamed = Nothing
NoWish ==
    /\ wish = Nothing /\ creation = Nothing
NoFv ==
    /\ config = Nothing /\ datum = Nothing /\ step = Nothing /\ at = Nothing
    /\ strings = Nothing /\ nums = Nothing /\ fv = Nothing

PartsInit ==
    \/ /\ part = "unlearners" /\ MCInit /\ NoPull /\ NoLof /\ NoCache
       /\ NoBits /\ NoColumns /\ NoJson /\ NoCast /\ NoWeights /\ NoProbe
       /\ NoVectors /\ NoSetting /\ NoWish /\ NoFv
    \/ /\ part = "pull" /\ P!Init /\ MCInit /\ NoLof /\ NoCache /\ NoBits
       /\ NoColumns /\ NoJson /\ NoCast /\ NoWeights /\ NoProbe /\ NoVectors
       /\ NoSetting /\ NoWish /\ NoFv
    \/ /\ part = "bits" /\ B!Init /\ MCInit /\ NoPull /\ NoLof /\ NoCache
       /\ NoColumns /\ NoJson /\ NoCast /\ NoWeights /\ NoProbe /\ NoVectors
       /\ NoSetting /\ NoWish /\ NoFv
    \/ /\ part = "columns" /\ T!Init /\ MCInit /\ NoPull /\ NoLof /\ NoCache
       /\ NoBits /\ NoJson /\ NoCast /\ NoWeights /\ NoProbe /\ NoVectors
       /\ NoSetting /\ NoWish /\ NoFv
    \/ /\ part = "lof" /\ A!Init /\ MCInit /\ NoPull /\ NoCache /\ NoBits
       /\ NoColumns /\ NoJson /\ NoCast /\ NoWeights /\ NoProbe /\ NoVectors
       /\ NoSetting /\ NoWish /\ NoFv
    \/ /\ part = "cache" /\ C!Init /\ MCInit /\ NoPull /\ NoLof /\ NoBits
       /\ NoColumns /\ NoJson /\ NoCast /\ NoWeights /\ NoProbe /\ NoVectors
       /\ NoSetting /\ NoWish /\ NoFv
    \/ /\ part = "weights" /\ M!Init /\ MCInit /\ NoPull /\ NoLof /\ NoCache
       /\ NoBits /\ NoColumns /\ NoJson /\ NoCast /\ NoProbe /\ NoVectors
       /\ NoSetting /\ NoWish /\ NoFv
    \/ /\ part = "probe" /\ V!ProbeInit /\ MCInit /\ NoPull /\ NoLof
       /\ NoCache /\ NoBits /\ NoColumns /\ NoJson /\ NoCast /\ NoWeights
       /\ NoVectors /\ NoSetting /\ NoWish /\ NoFv
    \/ /\ part = "vectors" /\ V!Init /\ MCInit /\ NoPull /\ NoLof /\ NoCache
       /\ NoBits /\ NoColumns /\ NoJson /\ NoCast /\ NoWeights /\ NoProbe
       /\ NoSetting /\ NoWish /\ NoFv
    \/ /\ part = "json" /\ J!Init /\ MCInit /\ NoPull /\ NoLof /\ NoCache
       /\ NoBits /\ NoColumns /\ NoCast /\ NoWeights /\ NoProbe /\ NoVectors
       /\ NoSetting /\ NoWish /\ NoFv
    \/ /\ part = "cast" /\ J!CastInit /\ MCInit /\ NoPull /\ NoLof /\ NoCache
       /\ NoBits /\ NoColumns /\ NoJson /\ NoWeights /\ NoProbe /\ NoVectors
       /\ NoSetting /\ NoWish /\ NoFv
    \/ /\ part = "setting" /\ O!ConverterInit /\ MCInit /\ NoPull /\ NoLof
       /\ NoCache /\ NoBits /\ NoColumns /\ NoJson /\ NoCast /\ NoWeights
       /\ NoProbe /\ NoVectors /\ NoWish /\ NoFv
    \/ /\ part = "wish" /\ O!Init /\ MCInit /\ NoPull /\ NoLof /\ NoCache
       /\ NoBits /\ NoColumns /\ NoJson /\ NoCast /\ NoWeights /\ NoProbe
       /\ NoVectors /\ NoSetting /\ NoFv
    \/ /\ part = "fv" /\ F!Init /\ MCInit /\ NoPull /\ NoLof /\ NoCache
       /\ NoBits /\ NoColumns /\ NoJson /\ NoCast /\ NoWeights /\ NoProbe
       /\ NoVectors /\ NoSetting /\ NoWish

PartsNext ==
    \/ /\ part = "unlearners" /\ MCNext
       /\ UNCHANGED <<part, pullVars, lofVars, cacheVars, bitsVars,
                      columnsVars, jsonVars, castVars, weightsVars,
                      probeVars, vectorsVars, settingVars, wishVars, fvVars>>
    \/ /\ part = "pull" /\ P!Next
       /\ UNCHANGED <<part, vars, rvars, lofVars, cacheVars, bitsVars,
                      columnsVars, jsonVars, castVars, weightsVars,
                      probeVars, vectorsVars, settingVars, wishVars, fvVars>>
    \/ /\ part = "bits" /\ B!Next
       /\ UNCHANGED <<part, vars, rvars, pullVars, lofVars, cacheVars,
                      columnsVars, jsonVars, castVars, weightsVars,
                      probeVars, vectorsVars, settingVars, wishVars, fvVars>>
    \/ /\ part = "columns" /\ T!Next
       /\ UNCHANGED <<part, vars, rvars, pullVars, lofVars, cacheVars,
                      bitsVars, jsonVars, castVars, weightsVars, probeVars,
                      vectorsVars, settingVars, wishVars, fvVars>>
    \/ /\ part = "lof" /\ A!Next
       /\ UNCHANGED <<part, vars, rvars, pullVars, cacheVars, bitsVars,
                      columnsVars, jsonVars, castVars, weightsVars,
                      probeVars, vectorsVars, settingVars, wishVars, fvVars>>
    \/ /\ part = "cache" /\ C!Next
       /\ UNCHANGED <<part, vars, rvars, pullVars, lofVars, bitsVars,
                      columnsVars, jsonVars, castVars, weightsVars,
                      probeVars, vectorsVars, settingVars, wishVars, fvVars>>
    \/ /\ part = "weights" /\ M!Next
       /\ UNCHANGED <<part, vars, rvars, pullVars, lofVars, cacheVars,
                      bitsVars, columnsVars, jsonVars, castVars, probeVars,
                      vectorsVars, settingVars, wishVars, fvVars>>
    \/ /\ part = "probe" /\ V!ProbeNext
       /\ UNCHANGED <<part, vars, rvars, pullVars, lofVars, cacheVars,
                      bitsVars, columnsVars, jsonVars, castVars, weightsVars,
                      vectorsVars, settingVars, wishVars, fvVars>>
    \/ /\ part = "vectors" /\ V!Next
       /\ UNCHANGED <<part, vars, rvars, pullVars, lofVars, cacheVars,
                      bitsVars, columnsVars, jsonVars, castVars, weightsVars,
                      probeVars, settingVars, wishVars, fvVars>>
    \/ /\ part = "json" /\ J!Next
       /\ UNCHANGED <<part, vars, rvars, pullVars, lofVars, cacheVars,
                      bitsVars, columnsVars, castVars, weightsVars,
                      probeVars, vectorsVars, settingVars, wishVars, fvVars>>
    \/ /\ part = "cast" /\ J!CastNext
       /\ UNCHANGED <<part, vars, rvars, pullVars, lofVars, cacheVars,
                      bitsVars, columnsVars, jsonVars, weightsVars,
                      probeVars, vectorsVars, settingVars, wishVars, fvVars>>
    \/ /\ part = "setting" /\ O!ConverterNext
       /\ UNCHANGED <<part, vars, rvars, pullVars, lofVars, cacheVars,
                      bitsVars, columnsVars, jsonVars, castVars, weightsVars,
                      probeVars, vectorsVars, wishVars, fvVars>>
    \/ /\ part = "wish" /\ O!Next
       /\ UNCHANGED <<part, vars, rvars, pullVars, lofVars, cacheVars,
                      bitsVars, columnsVars, jsonVars, castVars, weightsVars,
                      probeVars, vectorsVars, settingVars, fvVars>>
    \/ /\ part = "fv" /\ F!Next
       /\ UNCHANGED <<part, vars, rvars, pullVars, lofVars, cacheVars,
                      bitsVars, columnsVars, jsonVars, castVars, weightsVars,
                      probeVars, vectorsVars, settingVars, wishVars>>

partsVars == <<part, vars, rvars, pullVars, lofVars, cacheVars, bitsVars, columnsVars, jsonVars, castVars, weightsVars, probeVars, vectorsVars, settingVars, wishVars, fvVars>>

PartsSpec == PartsInit /\ [][PartsNext]_partsVars

---------------------------------------------------------------------------
\* random_unlearner keeps the promise of unlearner_base as lru_unlearner does, whose
\* can_touch foretells touch; and weights with a difference answer as those without.
PromisesKept ==
    /\ RandomImplementsUnlearner /\ CanTouchIsRight
    /\ (part = "weights" => M!Local!Init) /\ [][part = "weights" => M!Answers]_weightsVars

\* Both structures of each unlearner agree, and lru_unlearner's list is in the
\* order of use; a pull reads rows there are, as many as it announced, and skips
\* none; every column has the value last set for a key, where the index says,
\* wherever rows were moved to; and a bit vector is the set of the bits set in
\* it; and vectors are combined by their keys and kept in order.
StructuresAgree ==
    /\ TypesOK /\ ListMatchesMap /\ ListInOrder /\ MapMatchesIds
    /\ part = "pull" => P!TypeOK /\ P!ReadsInBounds /\ P!HeaderMatches /\ P!NothingSkipped
    /\ part = "columns" => T!CellsAreThoseSet
    /\ part = "bits" => B!VectorsAreSets
    /\ part = "vectors" => V!VectorsAreRight

\* The scores of light_lof are those of its neighbours of now, and the buckets of
\* an index are tried in the order of their distances.
ScoresHold ==
    /\ part = "lof" => A!ScoresAreCurrent
    /\ part = "probe" => V!ProbesAreNearestFirst

\* Cached vectors are those of their seeds, and the oldest is discarded.
CacheIsSound == part = "cache" => C!TypeOK /\ C!VectorsRight /\ C!OldestLeaves

\* Filters chain, keys are read back, text is split right and features are
\* combined once.
FeaturesAreRight ==
    part = "fv" => F!FiltersChain /\ F!KeysReadBack /\ F!SplitsAreRight /\ F!CombinedOnce

\* Documents are read as they were printed, or mean, and a configuration is
\* accepted exactly if nothing is wrong with it, and told what is; a learner or
\* a converter made of one is what it describes, and refused only for a fault.
DocumentsAreRead ==
    /\ part = "json" => J!DocumentsAreRead
    /\ part = "cast" => J!ConfigsAreRead
    /\ part = "setting" => O!ConverterIsRight
    /\ part = "wish" => O!FactoriesAreRight
=============================================================================
