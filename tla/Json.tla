-------------------------------- MODULE Json --------------------------------
(***************************************************************************)
(* JSON documents, their text and the parser that reads one document       *)
(* after another from a stream (util/text/json), and, in the second part,  *)
(* what is made of a document: a configuration, a value or a datum.  Texts *)
(* are sequences of code points; the parser has read one ahead, or none.   *)
(***************************************************************************)
EXTENDS Integers, Sequences, FiniteSets, SequencesExt, TLC

CONSTANTS Doc,         \* documents to print
          Typed,       \* code points to type
          MaxText,     \* typed at most
          MaxDocs,     \* printed at most
          IntMax,      \* the greatest integer
          Precision    \* digits printed of a number

JsonAssumption ==
    /\ Typed \subseteq 0..127 /\ MaxText \in Nat /\ MaxDocs \in Nat
    /\ IntMax \in Nat /\ Precision \in Nat \ {0}

VARIABLES text,      \* the stream
          docs,      \* what was printed to it, <<document, escaped>>
          parser,    \* [rest, cbuf, ok]
          read,      \* the documents read
          state      \* "writing", "reading", or what was thrown: "end" where a
                     \* document was looked for, "error" within one

jsonVars == <<text, docs, parser, read, state>>

Tab == 9    LF == 10    Blank == 32    Quote == 34    Plus == 43    Comma == 44
Minus == 45    Dot == 46    Slash == 47    Zero == 48    Colon == 58    Upper == 69
Open == 91    Back == 92    Close == 93    Exp == 101    Begin == 123    End == 125
FalseText == <<102, 97, 108, 115, 101>>
NullText == <<110, 117, 108, 108>>
TrueText == <<116, 114, 117, 101>>
U == 117

IsDigit(c) == c \in Zero..Zero + 9
IsSpace(c) == c \in Tab..13 \/ c = Blank
IsControl(c) == c < Blank \/ c = 127

\* The character after the backslash, for those that have one of their own.
Escapes == (Quote :> Quote) @@ (Back :> Back) @@ (Slash :> Slash) @@ (8 :> 98)
             @@ (12 :> 102) @@ (LF :> 110) @@ (13 :> 114) @@ (Tab :> 116)

---------------------------------------------------------------------------
(* Documents.  A number m * 10^e is <<m, e>>, with e as great as possible. *)

Null == <<"Null", 0>>
Bool(b) == <<"Bool", b>>
Integer(n) == <<"Integer", n>>
String(s) == <<"String", s>>
Array(s) == <<"Array", s>>
Object(f) == <<"Object", f>>

RECURSIVE Normal(_, _)
Normal(m, e) ==
    IF m = 0 THEN <<0, 0>> ELSE IF m % 10 = 0 THEN Normal(m \div 10, e + 1) ELSE <<m, e>>
Float(m, e) == <<"Float", Normal(m, e)>>

---------------------------------------------------------------------------
(* Printing.                                                               *)

RECURSIVE Decimal(_)
Decimal(n) == IF n < 10 THEN <<Zero + n>> ELSE Decimal(n \div 10) \o <<Zero + (n % 10)>>
Times(n, c) == [i \in 1..n |-> c]
tohex(d) == IF d <= 9 THEN Zero + d ELSE 55 + d
Signed(n) == IF n < 0 THEN <<Minus>> \o Decimal(-n) ELSE Decimal(n)

\* As many digits as the precision allows, with an exponent where there would
\* be more, or four zeros after the point.
Rounded(m, e) ==
    LET over == Len(Decimal(m)) - Precision
    IN  IF over <= 0 THEN <<m, e>>
        ELSE Normal((m + 5 * 10 ^ (over - 1)) \div 10 ^ over, e + over)
PrintedFloat(m, e) ==
    LET r == Rounded(IF m < 0 THEN -m ELSE m, e)
        d == Decimal(r[1])
        x == r[2] + Len(d) - 1
        Pointed(k) == SubSeq(d, 1, k) \o (IF k < Len(d) THEN <<Dot>> \o SubSeq(d, k + 1, Len(d)) ELSE <<>>)
        abs == IF x < -4 \/ x >= Precision
                 THEN Pointed(1) \o <<Exp, IF x < 0 THEN Minus ELSE Plus>>
                        \o (IF x \in -9..9 THEN <<Zero>> ELSE <<>>) \o Decimal(IF x < 0 THEN -x ELSE x)
               ELSE IF r[2] >= 0 THEN d \o Times(r[2], Zero)
               ELSE IF x >= 0 THEN Pointed(x + 1)
               ELSE <<Zero, Dot>> \o Times(-x - 1, Zero) \o d
    IN  IF m < 0 THEN <<Minus>> \o abs ELSE abs

\* Four digits of code point u, whatever it is.
Coded(u) ==
    <<Back, U, tohex((u \div 4096) % 16), tohex((u \div 256) % 16), tohex((u \div 16) % 16), tohex(u % 16)>>
print_char(u, escape) ==
    IF u \in DOMAIN Escapes THEN <<Back, Escapes[u]>>
    ELSE IF IsControl(u) \/ (escape /\ u > 127) THEN Coded(u)
    ELSE <<u>>

\* A string ends at its first NUL.
UpToNul(s) == IF Contains(s, 0) THEN SubSeq(s, 1, SelectInSeq(s, LAMBDA c : c = 0) - 1) ELSE s
PrintedString(s, escape) ==
    <<Quote>> \o FlattenSeq([i \in 1..Len(UpToNul(s)) |-> print_char(s[i], escape)]) \o <<Quote>>

Layout(open, items, close, level, pretty) ==
    LET Line(n) == IF pretty THEN <<LF>> \o Times(2 * n, Blank) ELSE <<>>
    IN  <<open>> \o FlattenSeq([i \in 1..Len(items) |->
                        (IF i > 1 THEN <<Comma>> ELSE <<>>) \o Line(level + 1) \o items[i]])
          \o Line(level) \o <<close>>

\* The members of an object come in the order of the table, any order.
RECURSIVE Printed(_, _, _, _)
Printed(v, level, pretty, escape) ==
    CASE v[1] = "Null" -> NullText
      [] v[1] = "Bool" -> IF v[2] THEN TrueText ELSE FalseText
      [] v[1] = "Integer" -> Signed(v[2])
      [] v[1] = "Float" -> PrintedFloat(v[2][1], v[2][2])
      [] v[1] = "String" -> PrintedString(v[2], escape)
      [] v[1] = "Array" ->
            Layout(Open, [i \in 1..Len(v[2]) |-> Printed(v[2][i], level + 1, pretty, escape)],
                   Close, level, pretty)
      [] v[1] = "Object" ->
            LET keys == SetToSeq(DOMAIN v[2])
            IN  Layout(Begin, [i \in 1..Len(keys) |->
                    PrintedString(keys[i], escape) \o <<Colon>> \o (IF pretty THEN <<Blank>> ELSE <<>>)
                      \o Printed(v[2][keys[i]], level + 1, pretty, escape)],
                    End, level, pretty)

---------------------------------------------------------------------------
(* Parsing.  An operator takes the parser's state p to its next; what was  *)
(* read is in p.val, and nothing is done after a failure.                  *)

None == -1
Start(s) == [rest |-> s, cbuf |-> None, ok |-> TRUE, val |-> Null]
Fail(p) == [p EXCEPT !.ok = FALSE]

AtEnd(p) == p.rest = <<>>
Drained(p) == p.cbuf = None /\ AtEnd(p)
Peeked(p) ==
    IF ~p.ok \/ p.cbuf # None THEN p
    ELSE IF AtEnd(p) THEN Fail(p)
    ELSE [p EXCEPT !.cbuf = Head(p.rest), !.rest = Tail(@)]
peek(p) == Peeked(p).cbuf
incr(p) == [Peeked(p) EXCEPT !.cbuf = None]
Sees(p, C) == Peeked(p).ok /\ peek(p) \in C

\* Mutant of ss: one white space only.
ssOnce(p) == IF ~p.ok \/ AtEnd(p) THEN p ELSE IF IsSpace(peek(p)) THEN incr(p) ELSE Peeked(p)

\* White space is skipped while the stream has more behind what was read ahead.
RECURSIVE ss(_)
ss(p) == IF ~p.ok \/ AtEnd(p) THEN p ELSE IF IsSpace(peek(p)) THEN ss(incr(p)) ELSE Peeked(p)

match(p, c) == IF Sees(p, {c}) THEN incr(p) ELSE Fail(p)
smatch(p, c) == match(ss(p), c)

Literal(p, t, v) ==
    LET upto[i \in 0..Len(t)] == IF i = 0 THEN p ELSE match(upto[i - 1], t[i])
    IN  [upto[Len(t)] EXCEPT !.val = v]

HexDigit(c) ==
    CASE IsDigit(c) -> c - Zero [] c \in 65..70 -> c - 55 [] c \in 97..102 -> c - 87 [] OTHER -> None
parse_hex(p) ==
    IF ~Peeked(p).ok \/ HexDigit(peek(p)) = None THEN Fail(p)
    ELSE [incr(p) EXCEPT !.val = 16 * @ + HexDigit(peek(p))]

RECURSIVE Characters(_, _)
Characters(p, s) ==
    IF ~Peeked(p).ok THEN Fail(p)
    ELSE IF peek(p) = Quote THEN [p EXCEPT !.val = s]
    ELSE IF peek(p) = Back
      THEN LET q == incr(p)
               c == peek(q)
               h == parse_hex(parse_hex(parse_hex(parse_hex([incr(q) EXCEPT !.val = 0]))))
               own == {u \in DOMAIN Escapes : Escapes[u] = c}
           IN  IF ~Peeked(q).ok THEN Fail(q)
               ELSE IF c = U THEN IF h.ok THEN Characters(h, Append(s, h.val)) ELSE h
               ELSE IF own = {} THEN Fail(q)
               ELSE Characters(incr(q), Append(s, CHOOSE u \in own : TRUE))
    ELSE IF peek(p) < Blank THEN Fail(p)
    ELSE Characters(incr(p), Append(s, peek(p)))
parse_string_prim(p) == LET q == Characters(match(p, Quote), <<>>) IN IF q.ok THEN match(q, Quote) ELSE q

\* What strtod and strtoll make of the longest part they understand: digits,
\* a point among them and an exponent.
RECURSIVE Value(_)
Value(ds) == IF ds = <<>> THEN 0 ELSE 10 * Value(Front(ds)) + (Last(ds) - Zero)
Sign(neg, n) == IF neg THEN -n ELSE n

\* Digits are taken while the stream has more; before the point, also the last.
RECURSIVE Digits(_, _, _)
Digits(p, ds, last) ==
    IF p.ok /\ (~AtEnd(p) \/ (last /\ ~Drained(p)))
      THEN IF IsDigit(peek(p)) THEN Digits(incr(p), Append(ds, peek(p)), last)
           ELSE [Peeked(p) EXCEPT !.val = ds]
      ELSE [p EXCEPT !.val = ds]

parse_number(p) ==
    LET neg == Sees(p, {Minus})
        int == Digits(IF neg THEN incr(p) ELSE p, <<>>, TRUE)
        pointed == ~AtEnd(int) /\ peek(int) = Dot
        frac == IF pointed THEN Digits(incr(int), <<>>, FALSE) ELSE [int EXCEPT !.val = <<>>]
        exped == ~AtEnd(frac) /\ peek(frac) \in {Exp, Upper}
        e == incr(frac)
        eneg == Sees(e, {Minus})
        exp == IF exped THEN Digits(IF Sees(e, {Plus, Minus}) THEN incr(e) ELSE Peeked(e), <<>>, FALSE)
               ELSE Digits(frac, <<>>, FALSE)
        n == Value(int.val)
        num == Float(Sign(neg, Value(int.val \o frac.val)),
                     Sign(eneg, IF exped THEN Value(exp.val) ELSE 0) - Len(frac.val))
    IN  IF exped /\ AtEnd(e) THEN Fail(e)
        ELSE IF pointed \/ exped THEN [exp EXCEPT !.val = num]
        ELSE IF n > (IF neg THEN IntMax + 1 ELSE IntMax) THEN Fail(exp)
        ELSE [exp EXCEPT !.val = Integer(Sign(neg, n))]

RECURSIVE parse_impl(_), Elements(_, _), Members(_, _, _)
Elements(p, s) ==
    IF Sees(ss(p), {Close}) THEN [smatch(p, Close) EXCEPT !.val = Array(s)]
    ELSE LET q == parse_impl(IF s = <<>> THEN ss(p) ELSE smatch(p, Comma))
         IN  IF q.ok THEN Elements(q, Append(s, q.val)) ELSE q

\* A key again replaces the member.
Members(p, f, first) ==
    IF Sees(ss(p), {End}) THEN [smatch(p, End) EXCEPT !.val = Object(f)]
    ELSE LET k == parse_string_prim(ss(IF first THEN ss(p) ELSE smatch(p, Comma)))
             q == parse_impl(smatch(k, Colon))
         IN  IF k.ok /\ q.ok THEN Members(q, (k.val :> q.val) @@ f, FALSE) ELSE Fail(p)

parse_impl(p) ==
    LET q == ss(p)
    IN  CASE ~q.ok \/ ~Peeked(q).ok -> Fail(q)
          [] peek(q) = Begin -> Members(match(q, Begin), [k \in {} |-> Null], TRUE)
          [] peek(q) = Open -> Elements(match(q, Open), <<>>)
          [] IsDigit(peek(q)) \/ peek(q) = Minus -> parse_number(q)
          [] peek(q) = Quote -> LET r == parse_string_prim(q) IN [r EXCEPT !.val = String(@)]
          [] peek(q) = FalseText[1] -> Literal(q, FalseText, Bool(FALSE))
          [] peek(q) = NullText[1] -> Literal(q, NullText, Null)
          [] peek(q) = TrueText[1] -> Literal(q, TrueText, Bool(TRUE))
          [] OTHER -> Fail(q)

---------------------------------------------------------------------------
Init ==
    /\ text = <<>> /\ docs = <<>> /\ parser = Start(<<>>) /\ read = <<>> /\ state = "writing"

Type(c) ==
    /\ state = "writing" /\ docs = <<>> /\ Len(text) < MaxText
    /\ text' = Append(text, c)
    /\ UNCHANGED <<docs, parser, read, state>>

\* pretty ends with a new line; after the others the writer puts a blank, or
\* nothing after the last.
Write(v, pretty, escape, sep) ==
    /\ state = "writing" /\ (docs = <<>> => text = <<>>) /\ Len(docs) < MaxDocs
    /\ docs # <<>> => IsSpace(Last(text))
    /\ docs' = Append(docs, <<v, escape>>)
    /\ text' = text \o Printed(v, 0, pretty, escape) \o (IF pretty THEN <<LF>> ELSE <<>>) \o sep
    /\ UNCHANGED <<parser, read, state>>

\* parse, on a parser made for the stream.  End of data is thrown where the
\* parser looks for a document and there is nothing left.
parse ==
    /\ state \in {"writing", "reading"}
    /\ LET p == ss(IF state = "writing" THEN Start(text) ELSE parser)
           q == parse_impl(p)
           over == Drained(p)
       IN  /\ parser' = IF over \/ ~q.ok THEN p ELSE [q EXCEPT !.val = Null]
           /\ read' = IF over \/ ~q.ok THEN read ELSE Append(read, q.val)
           /\ state' = IF over THEN "end" ELSE IF q.ok THEN "reading" ELSE "error"
    /\ UNCHANGED <<text, docs>>

Next ==
    \/ \E c \in Typed : Type(c)
    \/ \E v \in Doc, pretty, escape \in BOOLEAN, sep \in {<<>>, <<Blank>>} : Write(v, pretty, escape, sep)
    \/ parse

Spec == Init /\ [][Next]_jsonVars

---------------------------------------------------------------------------
\* A document is read back as it was printed unless it has a number that is
\* printed without a point or with more digits than are printed, a string with
\* NUL, or, escaped, a code point of more than four digits.
RECURSIVE Kept(_, _)
Kept(v, escape) ==
    CASE v[1] = "Float" ->
            /\ Len(Decimal(IF v[2][1] < 0 THEN -v[2][1] ELSE v[2][1])) <= Precision
            /\ \E i \in DOMAIN PrintedFloat(v[2][1], v[2][2]) : PrintedFloat(v[2][1], v[2][2])[i] \in {Dot, Exp}
      [] v[1] = "String" -> ~Contains(v[2], 0) /\ (escape => \A i \in DOMAIN v[2] : v[2][i] < 65536)
      [] v[1] = "Array" -> \A i \in DOMAIN v[2] : Kept(v[2][i], escape)
      [] v[1] = "Object" -> \A k \in DOMAIN v[2] : Kept(String(k), escape) /\ Kept(v[2][k], escape)
      [] OTHER -> TRUE

\* A number that the stream ends with, one white space or none behind it,
\* leaves what the parser has read ahead.
EndsInNumber == docs # <<>> /\ Last(docs)[1][1] \in {"Integer", "Float"}

\* Documents printed to one stream are read from it one after the other, the
\* same, and then its end.
StreamsReadBack ==
    docs # <<>> =>
        /\ \A i \in DOMAIN read : Kept(docs[i][1], docs[i][2]) => read[i] = docs[i][1]
        /\ state = "end" => Len(read) = Len(docs)
        /\ state = "error" => EndsInNumber /\ Len(read) = Len(docs)

\* What the texts typed mean, by their grammar.
AllDigits(t) == t # <<>> /\ \A i \in DOMAIN t : IsDigit(t[i])
IntPart(t) == AllDigits(t) /\ (Len(t) > 1 => t[1] # Zero)
Parts(t) == {<<SubSeq(t, 1, i - 1), SubSeq(t, i + 1, Len(t)), t[i]>> : i \in DOMAIN t}

Unsigned(t) ==
    {Integer(Value(t)) : x \in {y \in {t} : IntPart(y)}}
    \cup {Float(Value(p[1] \o p[2]), -Len(p[2])) :
             p \in {q \in Parts(t) : q[3] = Dot /\ IntPart(q[1]) /\ AllDigits(q[2])}}
    \cup {Float(Value(p[1]), IF p[2][1] = Minus THEN -Value(Tail(p[2])) ELSE Value(p[2])) :
             p \in {q \in Parts(t) : q[3] = Exp /\ IntPart(q[1]) /\
                       (AllDigits(q[2]) \/ (Len(q[2]) > 1 /\ q[2][1] = Minus /\ AllDigits(Tail(q[2]))))}}
Negative(v) == IF v[1] = "Integer" THEN Integer(-v[2]) ELSE Float(-v[2][1], v[2][2])

RECURSIVE Means(_), Lists(_)
Lists(t) ==
    {<<v>> : v \in Means(t)}
    \cup UNION {{<<v>> \o s : v \in Means(p[1]), s \in Lists(p[2])} : p \in {q \in Parts(t) : q[3] = Comma}}
Means(t) ==
    Unsigned(t)
    \cup (IF t # <<>> /\ t[1] = Minus THEN {Negative(v) : v \in Unsigned(Tail(t))} ELSE {})
    \cup (IF Len(t) > 1 /\ t[1] = Open /\ Last(t) = Close
            THEN LET in == SubSeq(t, 2, Len(t) - 1)
                 IN  {Array(s) : s \in Lists(in) \cup {u \in {<<>>} : in = <<>>}}
          ELSE {})

\* The last digit of an exponent is lost if the text ends with it and it is the
\* only one, without sign.
LosesExponent(t) ==
    Len(t) > 2 /\ IsDigit(Last(t)) /\ t[Len(t) - 1] = Exp

Fits(v) == v[1] = "Integer" => v[2] \in -IntMax - 1..IntMax

\* A text without white space that is a document is read as what it means, or
\* refused for an integer too great.
TextsAreRead ==
    docs = <<>> /\ state \notin {"writing", "end"} =>
        \A v \in Means(text) :
            /\ Fits(v) /\ ~LosesExponent(text) => read # <<>> /\ read[1] = v
            /\ ~Fits(v) => read = <<>> /\ state = "error"

DocumentsAreRead == StreamsReadBack /\ TextsAreRead

---------------------------------------------------------------------------
(***************************************************************************)
(* What is made of a JSON document: a configuration, cast to a type with   *)
(* all that is wrong collected or with the first thing thrown              *)
(* (core/common/jsonconfig); a value, cast without a trace and written back*)
(* (util/text/json/cast.h); and a datum, one entry for each leaf           *)
(* (fv_converter/json_converter).                                          *)
(***************************************************************************)

CONSTANTS Given,     \* pairs of a type and a document, both as below
          IntBits,   \* of an int; a document's integers have more
          Spell(_)   \* the characters of a key

ConfigAssumption == IntBits \in Nat \ {0}

VARIABLES given, mode, outcome

configVars == <<given, mode, outcome>>

(***************************************************************************)
(* Documents are pairs as in Json.  Types are <<"Bool">>, <<"Integer">>,   *)
(* <<"Float">>, <<"String">>, <<"json">>, <<"Array", type>>,               *)
(* <<"map", type>> and <<"struct", fields>>, a field being                 *)
(* <<name, type, optional>>.  A path is a sequence of keys and indices.    *)
(***************************************************************************)
Nothing == <<"nothing">>     \* nothing was assigned

Names(fields) == {fields[i][1] : i \in DOMAIN fields}
Keys(v) == DOMAIN v[2]
Key(path, k) == Append(path, <<"key", k>>)
At(path, i) == Append(path, <<"index", i>>)

\* static_cast to int of what a document's integer holds
Narrow(n) == ((n + 2 ^ (IntBits - 1)) % (2 ^ IntBits)) - 2 ^ (IntBits - 1)

\* json_cast of a scalar.
Scalar(type, v) ==
    IF type[1] = "Integer" THEN Narrow(v[2])
    ELSE IF type[1] = "Float" /\ v[1] = "Integer" THEN <<v[2], 0>>
    ELSE v[2]
Takes(type) ==
    CASE type[1] = "Float" -> {"Float", "Integer"}
      [] type[1] \in {"map", "struct"} -> {"Object"}
      [] OTHER -> {type[1]}
Expected(type) == IF type[1] \in {"map", "struct"} THEN "Object" ELSE type[1]
TypeError(path, type, v) == <<"type_error", path, Expected(type), v[1]>>

---------------------------------------------------------------------------
(* config_cast.  c is [val, errors, thrown]: with trace an error is        *)
(* collected, otherwise thrown, and after a throw nothing is done.  The    *)
(* value of an optional member is a sequence of at most one.               *)

Clean == [val |-> Nothing, errors |-> <<>>, thrown |-> <<>>]
Threw(c) == c.thrown # <<>>
Push(c, trace, e) ==
    IF Threw(c) THEN c
    ELSE IF trace THEN [c EXCEPT !.errors = Append(@, e), !.val = Nothing]
    ELSE [c EXCEPT !.thrown = <<e>>]

RECURSIVE Serialize(_, _, _, _, _), Items(_, _, _, _, _), Entries(_, _, _, _, _, _),
          Fields(_, _, _, _, _, _)

Items(c, type, v, path, trace) ==
    LET upto[i \in 0..Len(v[2])] ==
            IF i = 0 THEN <<c, <<>>>>
            ELSE LET d == Serialize(upto[i - 1][1], type, v[2][i], At(path, i - 1), trace)
                 IN  <<d, Append(upto[i - 1][2], d.val)>>
        last == upto[Len(v[2])]
    IN  [last[1] EXCEPT !.val = last[2]]

Entries(c, type, v, keys, path, trace) ==
    IF keys = <<>> \/ Threw(c) THEN [c EXCEPT !.val = [k \in {} |-> Nothing]]
    ELSE LET d == Serialize(c, type, v[2][Head(keys)], Key(path, Head(keys)), trace)
             rest == Entries(d, type, v, Tail(keys), path, trace)
         IN  [rest EXCEPT !.val = (Head(keys) :> d.val) @@ @]

\* contain throws for what is no object, trace or not.
Fields(c, fields, v, done, path, trace) ==
    IF fields = <<>> \/ Threw(c) THEN [c EXCEPT !.val = done]
    ELSE IF v[1] # "Object" THEN Push(c, FALSE, TypeError(path, <<"struct">>, v))
    ELSE LET name == fields[1][1]
             optional == fields[1][3]
             there == name \in Keys(v) /\ ~(optional /\ v[2][name] = Null)
             d == IF there THEN Serialize(c, fields[1][2], v[2][name], Key(path, name), trace)
                  ELSE IF optional THEN c
                  ELSE Push([c EXCEPT !.val = Nothing], trace, <<"not_found", path, name>>)
             val == IF ~optional THEN d.val ELSE IF there THEN <<d.val>> ELSE <<>>
         IN  Fields(d, Tail(fields), v, (name :> val) @@ done, path, trace)

Redundant(c, keys, path, trace) ==
    LET upto[i \in 0..Len(keys)] ==
            IF i = 0 THEN c ELSE Push(upto[i - 1], trace, <<"redundant_key", path, keys[i]>>)
    IN  upto[Len(keys)]

\* Mutant of Serialize: what is redundant is looked for in the first place only.
SerializeTop(c, type, v, path, trace) ==
    IF Threw(c) THEN c
    ELSE IF type[1] = "struct"
      THEN Fields(IF v[1] = "Object" /\ path = <<>>
                    THEN Redundant(c, SetToSeq(Keys(v) \ Names(type[2])), path, trace) ELSE c,
                  type[2], v, [k \in {} |-> Nothing], path, trace)
    ELSE IF type[1] = "json" THEN [c EXCEPT !.val = v]
    ELSE IF v[1] \notin Takes(type) THEN Push(c, trace, TypeError(path, type, v))
    ELSE IF type[1] = "Array" THEN Items(c, type[2], v, path, trace)
    ELSE IF type[1] = "map" THEN Entries(c, type[2], v, SetToSeq(Keys(v)), path, trace)
    ELSE [c EXCEPT !.val = Scalar(type, v)]

Serialize(c, type, v, path, trace) ==
    IF Threw(c) THEN c
    ELSE IF type[1] = "struct"
      THEN Fields(IF v[1] = "Object"
                    THEN Redundant(c, SetToSeq(Keys(v) \ Names(type[2])), path, trace) ELSE c,
                  type[2], v, [k \in {} |-> Nothing], path, trace)
    ELSE IF type[1] = "json" THEN [c EXCEPT !.val = v]
    ELSE IF v[1] \notin Takes(type) THEN Push(c, trace, TypeError(path, type, v))
    ELSE IF type[1] = "Array" THEN Items(c, type[2], v, path, trace)
    ELSE IF type[1] = "map" THEN Entries(c, type[2], v, SetToSeq(Keys(v)), path, trace)
    ELSE [c EXCEPT !.val = Scalar(type, v)]

config_cast(type, v, trace) == Serialize(Clean, type, v, <<>>, trace)

\* config_cast_check throws all that was collected at once.
config_cast_check(type, v) ==
    LET c == config_cast(type, v, TRUE)
    IN  IF ~Threw(c) /\ c.errors # <<>> THEN [c EXCEPT !.thrown = <<<<"cast_check_error", c.errors>>>>] ELSE c

---------------------------------------------------------------------------
(* json_cast: a bad cast is thrown, a key too many is not seen, and a      *)
(* missing one is null.  <<>> stands for the throw, <<x>> for the value x. *)

Bad == <<>>
AllOf(f) == IF \E k \in DOMAIN f : f[k] = Bad THEN Bad ELSE <<[k \in DOMAIN f |-> f[k][1]]>>
Field(type, n) == CHOOSE f \in Range(type[2]) : f[1] = n

RECURSIVE from_json(_, _)
from_json(type, v) ==
    IF type[1] = "json" THEN <<v>>
    ELSE IF v[1] \notin Takes(type) THEN Bad
    ELSE CASE type[1] \in {"Array", "map"} -> AllOf([k \in DOMAIN v[2] |-> from_json(type[2], v[2][k])])
           [] type[1] = "struct" ->
                LET Member(f, x) == IF f[3] /\ x = Null THEN <<<<>>>>
                                    ELSE LET y == from_json(f[2], x) IN IF f[3] /\ y # Bad THEN <<y>> ELSE y
                IN  AllOf([n \in Names(type[2]) |->
                             Member(Field(type, n), IF n \in Keys(v) THEN v[2][n] ELSE Null)])
           [] OTHER -> <<Scalar(type, v)>>

\* to_json; an optional member without value is left out.
RECURSIVE to_json(_, _)
to_json(type, x) ==
    CASE type[1] = "json" -> x
      [] type[1] = "Array" -> <<"Array", [i \in DOMAIN x |-> to_json(type[2], x[i])]>>
      [] type[1] = "map" -> <<"Object", [k \in DOMAIN x |-> to_json(type[2], x[k])]>>
      [] type[1] = "struct" ->
            <<"Object", [n \in {m \in DOMAIN x : Field(type, m)[3] => x[m] # <<>>} |->
                           LET f == Field(type, n) IN to_json(f[2], IF f[3] THEN x[n][1] ELSE x[n])]>>
      [] OTHER -> <<type[1], x>>

---------------------------------------------------------------------------
(* json_converter.  The name of a leaf is made of the characters on the way*)
(* to it, one sequence that is made longer and cut again.                  *)

NullString == "null"
OfKey(k) == <<"/">> \o Spell(k)
OfIndex(i) == <<"[", ToString(i), "]">>
Number(v) ==
    CASE v[1] = "Integer" -> <<v[2], 0>>
      [] v[1] = "Bool" -> <<IF v[2] THEN 1 ELSE 0, 0>>
      [] v[1] = "Float" -> v[2]
Text(v) == IF v[1] = "Null" THEN NullString ELSE v[2]

\* d is [path, nums, strings]; children are the keys or indices of what is no
\* leaf, names what they add to the path.
RECURSIVE iter_convert(_, _)
Children(d, v, children, names) ==
    LET upto[i \in 0..Len(children)] ==
            IF i = 0 THEN d
            ELSE [iter_convert([upto[i - 1] EXCEPT !.path = @ \o names[i]], v[2][children[i]])
                    EXCEPT !.path = SubSeq(@, 1, Len(d.path))]
    IN  upto[Len(children)]
iter_convert(d, v) ==
    CASE v[1] \in {"Integer", "Float", "Bool"} -> [d EXCEPT !.nums = Append(@, <<d.path, Number(v)>>)]
      [] v[1] \in {"String", "Null"} -> [d EXCEPT !.strings = Append(@, <<d.path, Text(v)>>)]
      [] v[1] = "Array" -> Children(d, v, [i \in DOMAIN v[2] |-> i], [i \in DOMAIN v[2] |-> OfIndex(i - 1)])
      [] v[1] = "Object" ->
             LET keys == SetToSeq(Keys(v))
             IN  Children(d, v, keys, [i \in DOMAIN keys |-> OfKey(keys[i])])
convert(v) == iter_convert([path |-> <<>>, nums |-> <<>>, strings |-> <<>>], v)

---------------------------------------------------------------------------
CastInit == given \in Given /\ mode = "none" /\ outcome = Clean

Do(m, o) ==
    /\ mode = "none" /\ mode' = m /\ outcome' = o
    /\ UNCHANGED given

CastNext ==
    \/ Do("strict", config_cast(given[1], given[2], FALSE))
    \/ Do("check", config_cast_check(given[1], given[2]))
    \/ Do("plain", [Clean EXCEPT !.val = from_json(given[1], given[2])])
    \/ Do("datum", [Clean EXCEPT !.val = convert(given[2])])

CastSpec == CastInit /\ [][CastNext]_configVars

---------------------------------------------------------------------------
(* What is wrong with a document, and what it means if nothing is.         *)

RECURSIVE Problems(_, _, _)
Problems(type, v, path) ==
    IF type[1] = "json" THEN {}
    ELSE IF v[1] \notin Takes(type) THEN {TypeError(path, type, v)}
    ELSE CASE type[1] = "Array" -> UNION {Problems(type[2], v[2][i], At(path, i - 1)) : i \in DOMAIN v[2]}
           [] type[1] = "map" -> UNION {Problems(type[2], v[2][k], Key(path, k)) : k \in Keys(v)}
           [] type[1] = "struct" ->
                {<<"redundant_key", path, k>> : k \in Keys(v) \ Names(type[2])}
                \cup {<<"not_found", path, f[1]>> : f \in {g \in Range(type[2]) : ~g[3] /\ g[1] \notin Keys(v)}}
                \cup UNION {Problems(f[2], v[2][f[1]], Key(path, f[1])) :
                              f \in {g \in Range(type[2]) : g[1] \in Keys(v) /\ ~(g[3] /\ v[2][g[1]] = Null)}}
           [] OTHER -> {}

\* Some struct is given no object, which ends the collecting.
RECURSIVE NoObject(_, _)
NoObject(type, v) ==
    CASE type[1] = "Array" -> v[1] = "Array" /\ \E i \in DOMAIN v[2] : NoObject(type[2], v[2][i])
      [] type[1] = "map" -> v[1] = "Object" /\ \E k \in Keys(v) : NoObject(type[2], v[2][k])
      [] type[1] = "struct" ->
            v[1] # "Object" \/ \E f \in Range(type[2]) :
               f[1] \in Keys(v) /\ ~(f[3] /\ v[2][f[1]] = Null) /\ NoObject(f[2], v[2][f[1]])
      [] OTHER -> FALSE

CastType == given[1]
Wrong == Problems(given[1], given[2], <<>>)

\* A configuration is refused exactly if something is wrong with it, and told,
\* then, one of the things wrong or, unless a struct is given no object, all,
\* each once; which the cast that throws at once finds in the same order.
ErrorsAreTold ==
    /\ mode = "strict" =>
          /\ Threw(outcome) <=> Wrong # {}
          /\ Threw(outcome) =>
                LET c == config_cast(CastType, given[2], TRUE)
                IN  outcome.thrown[1] \in Wrong /\ outcome.thrown[1] = (c.errors \o c.thrown)[1]
    /\ mode = "check" =>
          /\ Threw(outcome) <=> Wrong # {}
          /\ ~NoObject(CastType, given[2]) =>
                Range(outcome.errors) = Wrong /\ Len(outcome.errors) = Cardinality(Wrong)

\* What is accepted is written back as a document with the same meaning.
\* A value cast without a trace is the one of the configuration.
CastsAgree ==
    mode \in {"strict", "plain"} /\ Wrong = {} =>
        LET x == IF mode = "plain" THEN outcome.val[1] ELSE outcome.val
            back == config_cast(CastType, to_json(CastType, x), FALSE)
        IN  /\ ~Threw(back) /\ back.val = x
            /\ mode = "plain" => x = config_cast(CastType, given[2], TRUE).val

\* Without a trace, only keys too many, and missing ones that may be anything,
\* go unnoticed.
BadCastsAreSeen ==
    mode = "plain" /\ outcome.val # Bad =>
        \A e \in Wrong : e[1] = "redundant_key" \/ e[1] = "not_found"

\* Every leaf is one entry of the datum, with its value, under the name of the
\* way to it; and that of no other, unless a key has a slash or a bracket.
RECURSIVE Leaves(_, _)
Leaves(v, path) ==
    CASE v[1] = "Array" -> UNION {Leaves(v[2][i], At(path, i - 1)) : i \in DOMAIN v[2]}
      [] v[1] = "Object" -> UNION {Leaves(v[2][k], Key(path, k)) : k \in Keys(v)}
      [] OTHER -> {<<path, v>>}
NameOf(path) ==
    FlattenSeq([i \in DOMAIN path |-> IF path[i][1] = "key" THEN OfKey(path[i][2]) ELSE OfIndex(path[i][2])])
Separates(path) ==
    \E i \in DOMAIN path : path[i][1] = "key" /\ Range(Spell(path[i][2])) \cap {"/", "["} # {}

LeavesAreNamed ==
    mode = "datum" =>
        LET d == outcome.val
            leaves == Leaves(given[2], <<>>)
            texts == {l \in leaves : l[2][1] \in {"String", "Null"}}
        IN  /\ Range(d.strings) = {<<NameOf(l[1]), Text(l[2])>> : l \in texts}
            /\ Range(d.nums) = {<<NameOf(l[1]), Number(l[2])>> : l \in leaves \ texts}
            /\ Len(d.strings) = Cardinality(texts) /\ Len(d.nums) = Cardinality(leaves \ texts)
            /\ (\A l \in leaves : ~Separates(l[1])) =>
                  Cardinality({NameOf(l[1]) : l \in leaves}) = Cardinality(leaves)

ConfigsAreRead == ErrorsAreTold /\ CastsAgree /\ BadCastsAreSeen /\ LeavesAreNamed
=============================================================================
