---------------------------- MODULE FvConverter ----------------------------
(***************************************************************************)
(* fv_converter: a datum becomes a feature vector, one rule applied to one *)
(* value after the other.  A string is a sequence of tokens: characters,   *)
(* and the names of rules and weights.  "h" and "c" stand for the first and*)
(* the continuing byte of a UTF-8 character.                               *)
(***************************************************************************)
EXTENDS Integers, FiniteSets, Sequences, SequencesExt, FiniteSetsExt, TLC

CONSTANTS Config,  \* the rules an initialized converter may have
          Datum,   \* [strings, nums]: sequences of <<key, value>>
          Hash(_), \* calc_string_hash
          Filter(_), \* the string filter of the filter rules
          IsCommon(_)  \* features that every document has: their idf is 0

VARIABLES config, datum,  \* fixed
          stage,          \* what comes next, or "done" or "thrown"
          at,             \* how much of it is done
          strings, nums,  \* the filtered values
          fv              \* the features: a sequence of <<key, value>>

vars == <<config, datum, stage, at, strings, nums, fv>>

Init ==
    /\ config \in Config /\ datum \in Datum
    /\ stage = "filter_strings" /\ at = 1
    /\ strings = <<>> /\ nums = <<>> /\ fv = <<>>

---------------------------------------------------------------------------
(* Matchers and splitters                                                  *)

match_pattern(p, key) ==
    CASE p = <<>> \/ p = <<"*">> -> TRUE
      [] p # <<>> /\ p # <<"*">> /\ Head(p) = "*" -> IsSuffix(Tail(p), key)
      [] p # <<>> /\ Head(p) # "*" /\ p[Len(p)] = "*" -> IsPrefix(SubSeq(p, 1, Len(p) - 1), key)
      [] OTHER -> key = p

match(r, key) == match_pattern(r.key, key) /\ ~\E e \in r.except : match_pattern(e, key)

Find(s, c) == SelectInSeq(s, LAMBDA d : d = c)     \* 0: not found
FindLast(s, c) == SelectLastInSeq(s, LAMBDA d : d = c)

\* The words between separators: <<first, last>>
space_split[s \in Seq(STRING), last \in Nat] ==
    LET words == {i \in last..Len(s) : s[i] # " "}
        begin == Min(words)
        spaces == {i \in begin..Len(s) : s[i] = " "}
    IN  CASE words = {} -> <<>>
          [] words # {} /\ spaces = {} -> <<<<begin, Len(s)>>>>
          [] OTHER -> <<<<begin, Min(spaces) - 1>>>> \o space_split[s, Min(spaces)]

\* Mutant of Slide: the start of the character, not its end, is remembered.
SlideStart(s, len, q, i) ==
    [q EXCEPT !.n = @ + 1, !.p = (@ + 1) % len, !.queue[q.p] = i - 1,
              !.bounds = IF q.n + 1 >= len THEN Append(@, <<q.queue[q.p] + 1, i>>) ELSE @]

\* A character ends at i: the ring holds where the last len characters ended.
Slide(s, len, q, i) ==
    [q EXCEPT !.n = @ + 1, !.p = (@ + 1) % len, !.queue[q.p] = i,
              !.bounds = IF q.n + 1 >= len THEN Append(@, <<q.queue[q.p] + 1, i>>) ELSE @]

character_ngram(s, len) ==
    LET Step(q, i) == IF i = Len(s) \/ s[i + 1] # "c" THEN Slide(s, len, q, i) ELSE q
    IN  FoldLeft(Step, [n |-> 0, p |-> 0, queue |-> [j \in 0..len-1 |-> 0], bounds |-> <<>>],
                 [i \in 1..Len(s) |-> i]).bounds

split(name, s) ==
    CASE name = "space" -> space_split[s, 1]
      [] name = "bigram" -> character_ngram(s, 2)
      [] OTHER -> <<<<1, Len(s)>>>>                \* without_split

---------------------------------------------------------------------------
(* Keys: "key$value@type#sample/global", "key@type", "key@str$value"       *)

make_feature(key, value, r) ==
    key \o <<"$">> \o value \o <<"@", r.type, "#", r.sample, "/", r.global>>

get_group_key_from_key(key) ==
    LET last == FindLast(key, "@") IN LET dollar == Find(key, "$") IN
    IF last = 0 \/ dollar = 0 THEN <<>>
    ELSE SubSeq(key, 1, dollar - 1) \o SubSeq(key, last, Len(key))

get_global_weight_type_from_key(key) ==
    LET p == FindLast(key, "/") IN IF p = 0 THEN <<>> ELSE SubSeq(key, p + 1, Len(key))

revert_num_value(f) ==
    LET last == FindLast(f[1], "@")
        value == SubSeq(f[1], last + 1, Len(f[1]))
        name == SubSeq(f[1], 1, last - 1)
    IN  CASE last = 0 -> <<>>
          [] last > 0 /\ value = <<"num">> -> <<name, f[2]>>
          [] last > 0 /\ Len(value) = 3 /\ IsPrefix(<<"str", "$">>, value) ->
                <<name, CHOOSE v \in 0..9 : ToString(v) = value[3]>>
          [] OTHER -> <<>>

\* Mutant of revert_string_value: the value is taken up to its first "@".
revert_string_valueFirst(f) ==
    LET key == f[1]
        sharp == FindLast(key, "#")
        last == Find(key, "@")
        dollar == Find(key, "$")
    IN  IF 0 \in {sharp, last, dollar} THEN <<>>
        ELSE IF SubSeq(key, last + 1, sharp - 1) # <<"str">> THEN <<>>
        ELSE <<SubSeq(key, 1, dollar - 1), SubSeq(key, dollar + 1, last - 1)>>

revert_string_value(f) ==
    LET key == f[1]
        sharp == FindLast(key, "#")
        last == FindLast(SubSeq(key, 1, sharp), "@")
        dollar == Find(key, "$")
    IN  IF 0 \in {sharp, last, dollar} THEN <<>>
        ELSE IF SubSeq(key, last + 1, sharp - 1) # <<"str">> THEN <<>>
        ELSE <<SubSeq(key, 1, dollar - 1), SubSeq(key, dollar + 1, last - 1)>>

---------------------------------------------------------------------------
(* The conversion                                                          *)

Matching(r, values) == SelectSeq(values, LAMBDA v : match(r, v[1]))

\* linear_normalization_filter over [0, 1], truncating
LinearNormalization(v) == IF v > 1 THEN 1 ELSE IF v < 0 THEN 0 ELSE v

Filtered(r, values, kind) ==
    LET m == Matching(r, values)
    IN  [i \in DOMAIN m |-> <<m[i][1] \o r.suffix,
            IF kind = "string" THEN Filter(m[i][2]) ELSE LinearNormalization(m[i][2])>>]

\* Mutant of ApplyFilter: the rule filters what the other rules left only.
ApplyFilterOnce(r, values, done, kind) == done \o Filtered(r, values, kind)

\* A rule filters the values given and those the rules before it made.
ApplyFilter(r, values, done, kind) ==
    done \o Filtered(r, values, kind) \o Filtered(r, done, kind)

Advance(next, last) ==
    IF at >= last THEN stage' = next /\ at' = 1 ELSE at' = at + 1 /\ UNCHANGED stage

FilterStrings ==
    /\ stage = "filter_strings"
    /\ strings' = IF at > Len(config.string_filters) THEN strings
                  ELSE ApplyFilter(config.string_filters[at], datum.strings, strings, "string")
    /\ Advance("convert_strings", Len(config.string_filters))
    /\ UNCHANGED <<config, datum, nums, fv>>

FilterNums ==
    /\ stage = "filter_nums"
    /\ nums' = IF at > Len(config.num_filters) THEN nums
               ELSE ApplyFilter(config.num_filters[at], datum.nums, nums, "num")
    /\ Advance("convert_nums", Len(config.num_filters))
    /\ UNCHANGED <<config, datum, strings, fv>>

Throws(key) == \E i \in DOMAIN key : key[i] = "$"       \* check_key

\* How often each word occurs; the features come in any order of the words.
Counts(r, v) ==
    LET b == split(r.type, v)
        word(i) == SubSeq(v, b[i][1], b[i][2])
    IN  [w \in {word(i) : i \in DOMAIN b} |-> Cardinality({i \in DOMAIN b : word(i) = w})]

\* Every rule is applied to the values given, then to the filtered ones.
StringJobs ==
    LET Jobs(values) == FlattenSeq([i \in DOMAIN config.string_rules |->
            [j \in DOMAIN values |-> <<config.string_rules[i], values[j]>>]])
    IN  SelectSeq(Jobs(datum.strings) \o Jobs(strings), LAMBDA j : match(j[1], j[2][1]))

ConvertString ==
    /\ stage = "convert_strings" /\ at <= Len(StringJobs)
    /\ LET r == StringJobs[at][1]
           key == StringJobs[at][2][1]
           count == Counts(r, StringJobs[at][2][2])
       IN  IF Throws(key) /\ DOMAIN count # {}
           THEN stage' = "thrown" /\ UNCHANGED <<at, fv>>
           ELSE /\ \E order \in SetToSeqs(DOMAIN count) :
                    fv' = fv \o [i \in DOMAIN order |->
                        <<make_feature(key, order[i], r), IF r.sample = "bin" THEN 1 ELSE count[order[i]]>>]
                /\ Advance("filter_nums", Len(StringJobs))
    /\ UNCHANGED <<config, datum, strings, nums>>

NoStrings ==
    /\ stage = "convert_strings" /\ StringJobs = <<>>
    /\ stage' = "filter_nums"
    /\ UNCHANGED <<config, datum, at, strings, nums, fv>>

NumFeature(r, v) ==
    IF r.type = "str" THEN <<v[1] \o <<"@", "str", "$", ToString(v[2])>>, 1>>
                      ELSE <<v[1] \o <<"@", r.type>>, v[2]>>

ConvertNums ==
    /\ stage = "convert_nums"
    /\ LET made == FlattenSeq([i \in DOMAIN (datum.nums \o nums) |->
               LET v == (datum.nums \o nums)[i]
                   rules == SelectSeq(config.num_rules, LAMBDA r : match(r, v[1]))
               IN  [j \in DOMAIN rules |-> <<v[1], NumFeature(rules[j], v)>>]])
       IN  IF \E i \in DOMAIN made : Throws(made[i][1])
           THEN stage' = "thrown" /\ UNCHANGED fv
           ELSE stage' = "get_weight" /\ fv' = fv \o [i \in DOMAIN made |-> made[i][2]]
    /\ UNCHANGED <<config, datum, at, strings, nums>>

\* What a weight becomes; a feature that weighs nothing, of any kind, goes.
GlobalWeight(f) ==
    IF get_global_weight_type_from_key(f[1]) = <<"idf">> /\ IsCommon(f[1]) THEN 0 ELSE f[2]

get_weight ==
    /\ stage = "get_weight"
    /\ fv' = SelectSeq([i \in DOMAIN fv |-> <<fv[i][1], GlobalWeight(fv[i])>>], LAMBDA f : f[2] # 0)
    /\ stage' = "combine"
    /\ UNCHANGED <<config, datum, at, strings, nums>>

Either(r, f, g) ==
    \/ match_pattern(r.left, f[1]) /\ match_pattern(r.right, g[1])
    \/ match_pattern(r.right, f[1]) /\ match_pattern(r.left, g[1])

\* Mutant of Pairs: a pair is met from both of its sides.
PairsTwice(n) == FlattenSeq([j \in 1..n |-> [m \in 1..n |-> <<j, m>>]])

Pairs(n) == FlattenSeq([j \in 1..n |-> [m \in 1..n - j |-> <<j, j + m>>]])

\* add and mul commute: every pair of the features that were there is met once
convert_combinations ==
    /\ stage = "combine"
    /\ LET Combined(f, g, r) ==
               <<f[1] \o <<"&">> \o g[1] \o <<"/", r.name>>,
                 IF r.name = "add" THEN f[2] + g[2] ELSE f[2] * g[2]>>
           New(r) ==
               LET pairs == SelectSeq(Pairs(Len(fv)), LAMBDA p : Either(r, fv[p[1]], fv[p[2]]))
               IN  [i \in DOMAIN pairs |-> Combined(fv[pairs[i][1]], fv[pairs[i][2]], r)]
       IN  fv' = IF Len(fv) < 2 THEN fv
                 ELSE fv \o FlattenSeq([i \in DOMAIN config.combinations |-> New(config.combinations[i])])
    /\ stage' = "hash"
    /\ UNCHANGED <<config, datum, at, strings, nums>>

hash_feature_keys ==
    /\ stage = "hash"
    /\ fv' = IF config.hash_max_size = 0 THEN fv
             ELSE [i \in DOMAIN fv |-> <<<<ToString(Hash(fv[i][1]) % config.hash_max_size)>>, fv[i][2]>>]
    /\ stage' = "merge"
    /\ UNCHANGED <<config, datum, at, strings, nums>>

\* sort_and_merge: once sorted, the values of equal keys are added up
sort_and_merge ==
    /\ stage = "merge"
    /\ LET first == SelectSeq([i \in DOMAIN fv |-> i], LAMBDA i : ~\E j \in 1..i-1 : fv[j][1] = fv[i][1])
           sum[k \in {fv[i][1] : i \in DOMAIN fv}, i \in 0..Len(fv)] ==
               IF i = 0 THEN 0 ELSE sum[k, i - 1] + (IF fv[i][1] = k THEN fv[i][2] ELSE 0)
       IN  fv' = [k \in DOMAIN first |-> <<fv[first[k]][1], sum[fv[first[k]][1], Len(fv)]>>]
    /\ stage' = "done"
    /\ UNCHANGED <<config, datum, at, strings, nums>>

Next ==
    \/ FilterStrings
    \/ ConvertString
    \/ NoStrings
    \/ FilterNums
    \/ ConvertNums
    \/ get_weight
    \/ convert_combinations
    \/ hash_feature_keys
    \/ sort_and_merge

Spec == Init /\ [][Next]_vars

---------------------------------------------------------------------------
\* The rules of a chain apply one after the other to the value.
Chain(v, chain) ==
    FoldLeft(LAMBDA k, i : IF k # <<>> /\ match(config.string_filters[i], k)
                           THEN k \o config.string_filters[i].suffix ELSE <<>>, v[1],
             SelectSeq([i \in DOMAIN config.string_filters |-> i], LAMBDA i : i \in chain))

\* The filtered strings are what the chains of rules, in their order, make of
\* the values given: no rule takes its own output, and none misses another's.
FiltersChain ==
    stage = "convert_strings" =>
        \A key \in ({strings[i][1] : i \in DOMAIN strings} \cup
                   {Chain(datum.strings[i], c) : i \in DOMAIN datum.strings,
                        c \in SUBSET DOMAIN config.string_filters \ {{}}}) \ {<<>>} :
            Cardinality({i \in DOMAIN strings : strings[i][1] = key}) =
            Cardinality({<<i, c>> \in (DOMAIN datum.strings) \X (SUBSET DOMAIN config.string_filters \ {{}}) :
                            Chain(datum.strings[i], c) = key})

\* What a feature's key says is read back from it, whatever characters the key
\* and the value of the datum have: the group and the weight of bm25 and idf,
\* and the strings and numbers that revert_feature makes of the vector.
KeysReadBack ==
    stage = "get_weight" =>
        /\ \A j \in DOMAIN StringJobs :
            LET r == StringJobs[j][1] IN LET v == StringJobs[j][2] IN
            \A w \in DOMAIN Counts(r, v[2]) :
                LET key == make_feature(v[1], w, r) IN
                /\ \E i \in DOMAIN fv : fv[i][1] = key
                /\ get_group_key_from_key(key) = v[1] \o <<"@", r.type, "#", r.sample, "/", r.global>>
                /\ get_global_weight_type_from_key(key) = <<r.global>>
                /\ revert_num_value(<<key, 1>>) = <<>>
                /\ r.type = "str" => revert_string_value(<<key, 1>>) = <<v[1], w>>
        /\ \A i \in DOMAIN datum.nums, r \in ToSet(config.num_rules) :
            match(r, datum.nums[i][1]) =>
                /\ revert_num_value(NumFeature(r, datum.nums[i])) = datum.nums[i]
                /\ get_global_weight_type_from_key(NumFeature(r, datum.nums[i])[1])
                       \notin {<<"bin">>, <<"idf">>, <<"idf1">>, <<"bm25">>, <<"weight">>}

Run(s, S, p) == \A i \in p[1]..p[2] : s[i] \in S
IsChar(s, p) == s[p[1]] # "c" /\ Run(s, {"c"}, <<p[1] + 1, p[2]>>) /\ (p[2] < Len(s) => s[p[2] + 1] # "c")

\* Words are the longest runs without a space; bigrams are the pairs of UTF-8
\* characters next to each other, and no character is cut.
SplitsAreRight ==
    \A i \in DOMAIN datum.strings :
        LET s == datum.strings[i][2]
            Bounds == {p \in (1..Len(s)) \X (1..Len(s)) : p[1] <= p[2]}
            text == {"x", "h", "c"}
        IN  s # <<>> /\ ToSet(s) \subseteq text \cup {" "} /\ s[1] # "c" =>
            /\ ToSet(split("space", s)) =
                {p \in Bounds : /\ Run(s, text, p)
                                /\ p[1] > 1 => s[p[1] - 1] = " "
                                /\ p[2] < Len(s) => s[p[2] + 1] = " "}
            /\ ToSet(split("bigram", s)) =
                {p \in Bounds : \E m \in p[1]..p[2] - 1 : IsChar(s, <<p[1], m>>) /\ IsChar(s, <<m + 1, p[2]>>)}

\* Every pair of features has one combination for each rule that matches it,
\* in one or the other order.
CombinedOnce ==
    stage \in {"hash", "merge"} /\ config.hash_max_size = 0 /\ config.combinations # <<>> =>
        LET old == {i \in DOMAIN fv : ~\E j \in DOMAIN fv[i][1] : fv[i][1][j] = "&"}
        IN  Len(fv) - Cardinality(old) =
            Cardinality({<<p, r>> \in kSubset(2, old) \X (DOMAIN config.combinations) :
                            \E i, j \in p : i # j /\ Either(config.combinations[r], fv[i], fv[j])})
=============================================================================
