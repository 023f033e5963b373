---------------------------- MODULE Rounds_proofs ----------------------------
(***************************************************************************)
(* What rounds of MIX keep alike, for any nodes and servers, keys, writes  *)
(* and bounds (MCRounds).                                                  *)
(*                                                                         *)
(* The column tables (TableMix): every table stays well formed, a version  *)
(* names one row, no row is replaced by an older one, version vectors hide *)
(* no row and a quiet round makes all tables equal.  Three invariants, each*)
(* resting on the ones before it: IInv (types, well formed tables,         *)
(* versions), HoleInv (what vectors promise) and QuietInv (where the rows  *)
(* of a linear round stand).                                               *)
(*                                                                         *)
(* Then the others: the weights of words of a recommender fit the documents*)
(* they count, come with the rows, and agree where versions do; the trials *)
(* of bandits' arms add up and none is counted twice; the statistics of a  *)
(* window are its own and their entropy is not negative.  Last, the same of*)
(* the composition.                                                        *)
(***************************************************************************)
EXTENDS MCRounds, SumTheorems, SequenceTheorems

Index == UNION {[D -> Nat] : D \in SUBSET Key}
Table == [rows : Seq(RowType), index : Index, clock : Nat]

---------------------------------------------------------------------------
(* The operations of a column_table.                                       *)

\* Writing a row keeps the index inverse to the rows, and adds that row only.
LEMMA StoreKeeps ==
    ASSUME NEW t \in Table, IndexConsistent(t), NEW r \in RowType
    PROVE  /\ Store(t, r) \in Table
           /\ IndexConsistent(Store(t, r))
           /\ Contents(Store(t, r)) \subseteq Contents(t) \cup {r}
           /\ Store(t, r).clock = t.clock
<1> DEFINE s == Store(t, r)
<1>1. /\ t.rows \in Seq(RowType)
      /\ t.clock \in Nat
      /\ Size(t) = Len(t.rows)
      /\ Size(t) \in Nat
      /\ DOMAIN t.rows = 1..Size(t)
      /\ \A i \in 1..Size(t) : t.rows[i] \in RowType
  BY DEF Table, Size
<1>2. PICK D \in SUBSET Key : t.index \in [D -> Nat]
  BY DEF Table, Index
<1>3. r.key \in Key
  BY DEF RowType
<1>4. CASE Has(t, r.key)
  <2> DEFINE p == t.index[r.key]
  <2>1. p \in 1..Size(t) /\ t.rows[p].key = r.key
    BY <1>4 DEF Has, IndexConsistent
  <2>2. /\ s.index = t.index
        /\ s.clock = t.clock
        /\ s.rows = [t.rows EXCEPT ![p] = r]
        /\ s \in Table
    BY <1>1, <1>4, <2>1 DEF Store, Table
  <2>3. /\ Size(s) = Size(t)
        /\ \A i \in 1..Size(t) : s.rows[i] = IF i = p THEN r ELSE t.rows[i]
    BY <1>1, <2>1, <2>2 DEF Size
  <2>4. IndexConsistent(s)
    BY <2>1, <2>2, <2>3 DEF IndexConsistent
  <2>5. Contents(s) \subseteq Contents(t) \cup {r}
    BY <2>3 DEF Contents
  <2>6. QED
    BY <2>2, <2>4, <2>5
<1>5. CASE ~Has(t, r.key)
  <2> DEFINE n == Size(t) + 1
             x == [k \in D \cup {r.key} |-> IF k = r.key THEN n ELSE t.index[k]]
  <2>1. DOMAIN t.index = D /\ r.key \notin D
    BY <1>2, <1>5 DEF Has
  <2>2. /\ s.index = x
        /\ s.clock = t.clock
        /\ s.rows = Append(t.rows, r)
        /\ s = [rows |-> s.rows, index |-> s.index, clock |-> s.clock]
    BY <1>5, <2>1 DEF Store, Table
  <2>3. x \in Index
    <3>1. x \in [D \cup {r.key} -> Nat]
      BY <1>1, <1>2
    <3>2. D \cup {r.key} \in SUBSET Key
      BY <1>2, <1>3
    <3>3. QED
      BY <3>1, <3>2 DEF Index
  <2>4. s \in Table
    <3>1. s.rows \in Seq(RowType) /\ s.index \in Index /\ s.clock \in Nat
      BY <1>1, <2>2, <2>3
    <3> HIDE DEF s, x
    <3>2. QED
      BY <2>2, <3>1 DEF Table
  <2>5. /\ Size(s) = n
        /\ s.rows[n] = r
        /\ \A i \in 1..Size(t) : s.rows[i] = t.rows[i]
    BY <1>1, <2>2 DEF Size
  <2>6. IndexConsistent(s)
    <3>1. ASSUME NEW k \in DOMAIN s.index
          PROVE  s.index[k] \in 1..Size(s) /\ s.rows[s.index[k]].key = k
      <4>1. CASE k = r.key
        BY <4>1, <1>1, <2>2, <2>5
      <4>2. CASE k # r.key
        <5>1. k \in DOMAIN t.index /\ s.index[k] = t.index[k]
          BY <3>1, <4>2, <2>1, <2>2
        <5>2. t.index[k] \in 1..Size(t) /\ t.rows[t.index[k]].key = k
          BY <5>1 DEF IndexConsistent
        <5>3. QED
          BY <1>1, <2>5, <5>1, <5>2
      <4>3. QED
        BY <4>1, <4>2
    <3>2. ASSUME NEW i \in 1..Size(s)
          PROVE  s.rows[i].key \in DOMAIN s.index /\ s.index[s.rows[i].key] = i
      <4>1. CASE i = n
        BY <4>1, <2>2, <2>5
      <4>2. CASE i # n
        <5>1. i \in 1..Size(t) /\ s.rows[i] = t.rows[i]
          BY <1>1, <3>2, <4>2, <2>5
        <5>2. t.rows[i].key \in DOMAIN t.index /\ t.index[t.rows[i].key] = i
          BY <5>1 DEF IndexConsistent
        <5>3. t.rows[i].key # r.key
          BY <5>2, <2>1
        <5>4. QED
          BY <5>1, <5>2, <5>3, <2>1, <2>2
      <4>3. QED
        BY <4>1, <4>2
    <3>3. QED
      BY <3>1, <3>2 DEF IndexConsistent
  <2>7. Contents(s) \subseteq Contents(t) \cup {r}
    <3>1. ASSUME NEW i \in 1..Size(s)
          PROVE  s.rows[i] \in Contents(t) \cup {r}
      <4>1. i = n \/ i \in 1..Size(t)
        BY <1>1, <2>5
      <4>2. QED
        BY <4>1, <2>5 DEF Contents
    <3>2. QED
      BY <3>1 DEF Contents
  <2>8. QED
    BY <2>2, <2>4, <2>6, <2>7
<1>6. QED
  BY <1>4, <1>5

\* A deletion fills the hole with the last row and moves its index.
LEMMA DeleteAtKeeps ==
    ASSUME NEW t \in Table, IndexConsistent(t), NEW i \in 1..Size(t)
    PROVE  /\ DeleteAt(t, i) \in Table
           /\ IndexConsistent(DeleteAt(t, i))
           /\ Contents(DeleteAt(t, i)) \subseteq Contents(t)
           /\ DeleteAt(t, i).clock = t.clock + 1
<1> DEFINE n == Size(t)
           s == DeleteAt(t, i)
           gone == t.rows[i].key
           last == t.rows[n].key
<1>1. /\ t.rows \in Seq(RowType)
      /\ t.clock \in Nat
      /\ n = Len(t.rows)
      /\ n \in Nat
      /\ 1 <= i /\ i <= n
      /\ \A j \in 1..n : t.rows[j] \in RowType
  BY DEF Table, Size
<1>2. PICK D \in SUBSET Key : t.index \in [D -> Nat]
  BY DEF Table, Index
<1>3. /\ gone \in D /\ t.index[gone] = i
      /\ last \in D /\ t.index[last] = n
  <2>1. i \in 1..n /\ n \in 1..n /\ DOMAIN t.index = D
    BY <1>1, <1>2
  <2>2. QED
    BY <2>1 DEF IndexConsistent
<1> DEFINE moved == [t.index EXCEPT ![last] = i]
           rest == [j \in 1..n - 1 |-> IF j = i THEN t.rows[n] ELSE t.rows[j]]
           x == [k \in DOMAIN moved \ {gone} |-> moved[k]]
<1>4. /\ DOMAIN moved = D
      /\ \A k \in D : moved[k] = IF k = last THEN i ELSE t.index[k]
  BY <1>2
<1>5. /\ s.rows = rest
      /\ s.index = x
      /\ s.clock = t.clock + 1
      /\ s = [rows |-> s.rows, index |-> s.index, clock |-> s.clock]
  BY DEF DeleteAt
<1>6. x \in Index
  <2>1. x \in [D \ {gone} -> Nat]
    BY <1>1, <1>2, <1>4
  <2>2. D \ {gone} \in SUBSET Key
    BY <1>2
  <2>3. QED
    BY <2>1, <2>2 DEF Index
<1>7. rest \in Seq(RowType) /\ Len(rest) = n - 1
  <2>1. n - 1 \in Nat
    BY <1>1
  <2>2. rest \in [1..n - 1 -> RowType]
    BY <1>1
  <2>3. QED
    BY <2>1, <2>2
<1>8. s \in Table /\ Size(s) = n - 1
  <2>1. s.rows \in Seq(RowType) /\ Len(s.rows) = n - 1
    BY <1>5, <1>7
  <2>2. s.index \in Index /\ s.clock \in Nat
    BY <1>1, <1>5, <1>6
  <2>3. QED
    BY <1>5, <2>1, <2>2 DEF Table, Size
<1>9. IndexConsistent(s)
  <2>1. ASSUME NEW k \in DOMAIN s.index
        PROVE  s.index[k] \in 1..n - 1 /\ s.rows[s.index[k]].key = k
    <3>1. k \in D /\ k # gone /\ s.index[k] = moved[k]
      BY <2>1, <1>4, <1>5
    <3>2. CASE k = last
      <4>1. i # n
        BY <3>1, <3>2
      <4>2. s.index[k] = i /\ i \in 1..n - 1
        BY <1>1, <1>4, <3>1, <3>2, <4>1
      <4>3. QED
        BY <3>2, <4>2, <1>5
    <3>3. CASE k # last
      <4> DEFINE j == t.index[k]
      <4>1. j \in 1..n /\ t.rows[j].key = k
        BY <1>2, <3>1 DEF IndexConsistent
      <4>2. j # n /\ j # i
        BY <3>1, <3>3, <4>1
      <4>3. j \in 1..n - 1 /\ s.index[k] = j
        BY <1>1, <1>4, <3>1, <3>3, <4>1, <4>2
      <4>4. QED
        BY <1>5, <4>1, <4>2, <4>3
    <3>4. QED
      BY <3>2, <3>3
  <2>2. ASSUME NEW j \in 1..n - 1
        PROVE  s.rows[j].key \in DOMAIN s.index /\ s.index[s.rows[j].key] = j
    <3>1. CASE j = i
      <4>1. s.rows[j] = t.rows[n]
        BY <2>2, <3>1, <1>5
      <4>2. last # gone
        BY <1>1, <1>3, <2>2, <3>1
      <4>3. QED
        BY <1>3, <1>4, <1>5, <3>1, <4>1, <4>2
    <3>2. CASE j # i
      <4> DEFINE k == t.rows[j].key
      <4>1. s.rows[j] = t.rows[j] /\ j \in 1..n
        BY <1>1, <2>2, <3>2, <1>5
      <4>2. k \in D /\ t.index[k] = j
        BY <1>2, <4>1 DEF IndexConsistent
      <4>3. k # gone /\ k # last
        BY <1>1, <1>3, <2>2, <3>2, <4>2
      <4>4. QED
        BY <1>4, <1>5, <4>1, <4>2, <4>3
    <3>3. QED
      BY <3>1, <3>2
  <2>3. QED
    BY <2>1, <2>2, <1>8 DEF IndexConsistent
<1>10. Contents(s) \subseteq Contents(t)
  <2>1. ASSUME NEW j \in 1..n - 1 PROVE s.rows[j] \in Contents(t)
    <3>1. s.rows[j] = IF j = i THEN t.rows[n] ELSE t.rows[j]
      BY <1>5
    <3>2. j \in 1..n /\ n \in 1..n
      BY <1>1
    <3>3. QED
      BY <3>1, <3>2 DEF Contents
  <2>2. QED
    BY <2>1, <1>8 DEF Contents
<1>11. QED
  BY <1>5, <1>8, <1>9, <1>10

Good(t) == t \in Table /\ WellFormed(t)

LEMMA ClockAheadOfContents ==
    ASSUME NEW t PROVE ClockAhead(t) <=> \A r \in Contents(t) : r.clock < t.clock
  BY DEF ClockAhead, Contents

LEMMA ContentsTyped ==
    ASSUME NEW t \in Table PROVE Contents(t) \subseteq RowType
  BY DEF Contents, Table, Size

\* A write by o adds a row with the version (o, clock) and moves the clock on.
LEMMA WriteKeeps ==
    ASSUME NEW t, Good(t), NEW k \in Key, NEW o \in Node, NEW v \in Write
    PROVE  LET r == Row(k, o, t.clock, v)
               s == Tick(Store(t, r))
           IN /\ r \in RowType
              /\ Good(s)
              /\ s.clock = t.clock + 1
              /\ Contents(s) \subseteq Contents(t) \cup {r}
<1> DEFINE r == Row(k, o, t.clock, v)
           u == Store(t, r)
           s == Tick(u)
<1>1. t \in Table /\ IndexConsistent(t) /\ ClockAhead(t) /\ t.clock \in Nat
  BY DEF Good, WellFormed, Table
<1>2. r \in RowType /\ r.clock = t.clock
  BY <1>1 DEF Row, RowType
<1>3. /\ u \in Table
      /\ IndexConsistent(u)
      /\ Contents(u) \subseteq Contents(t) \cup {r}
      /\ u.clock = t.clock
  BY <1>1, <1>2, StoreKeeps
<1> HIDE DEF r, u
<1>4. /\ s.rows = u.rows
      /\ s.index = u.index
      /\ s.clock = u.clock + 1
      /\ s \in Table
  BY <1>1, <1>3 DEF Tick, Table
<1>5. IndexConsistent(s) /\ Contents(s) = Contents(u)
  BY <1>3, <1>4 DEF IndexConsistent, Contents, Size
<1>6. ASSUME NEW q \in Contents(s) PROVE q.clock < s.clock
  <2>1. q \in Contents(t) \/ q = r
    BY <1>3, <1>5, <1>6
  <2>2. q \in Contents(t) => q.clock < t.clock /\ q.clock \in Nat
    BY <1>1, ClockAheadOfContents, ContentsTyped DEF RowType
  <2>3. QED
    BY <2>1, <2>2, <1>1, <1>2, <1>3, <1>4
<1>7. ClockAhead(s)
  BY <1>6, ClockAheadOfContents
<1>8. QED
  BY <1>2, <1>3, <1>4, <1>5, <1>7 DEF Good, WellFormed, r, u

\* A received row, if it is stored, is the only row added.
LEMMA SetRowKeeps ==
    ASSUME NEW t, Good(t), NEW r \in RowType
    PROVE  /\ Good(SetRow(t, r))
           /\ SetRow(t, r).clock >= t.clock
           /\ Contents(SetRow(t, r)) \subseteq Contents(t) \cup {r}
<1> DEFINE u == IF Newer(t, r.key, r.clock) THEN t ELSE Store(t, r)
           s == SetRow(t, r)
<1>1. t \in Table /\ IndexConsistent(t) /\ ClockAhead(t) /\ t.clock \in Nat
  BY DEF Good, WellFormed, Table
<1>2. r.clock \in Nat
  BY DEF RowType
<1>3. /\ u \in Table
      /\ IndexConsistent(u)
      /\ Contents(u) \subseteq Contents(t) \cup {r}
      /\ u.clock = t.clock
  BY <1>1, StoreKeeps
<1>4. s = ClockFrom(u, r.clock + 1)
  BY DEF SetRow
<1> HIDE DEF u, s
<1>5. /\ s.rows = u.rows
      /\ s.index = u.index
      /\ s.clock = IF u.clock < r.clock + 1 THEN r.clock + 1 ELSE u.clock
      /\ s \in Table
  BY <1>2, <1>3, <1>4 DEF ClockFrom, Table
<1>6. s.clock >= t.clock /\ s.clock > r.clock /\ s.clock \in Nat
  BY <1>1, <1>2, <1>3, <1>5
<1>7. IndexConsistent(s) /\ Contents(s) = Contents(u)
  BY <1>3, <1>5 DEF IndexConsistent, Contents, Size
<1>8. ASSUME NEW q \in Contents(s) PROVE q.clock < s.clock
  <2>1. q \in Contents(t) \/ q = r
    BY <1>3, <1>7, <1>8
  <2>2. q \in Contents(t) => q.clock < t.clock /\ q.clock \in Nat
    BY <1>1, ClockAheadOfContents, ContentsTyped DEF RowType
  <2>3. QED
    BY <2>1, <2>2, <1>1, <1>2, <1>6
<1>9. ClockAhead(s)
  BY <1>8, ClockAheadOfContents
<1>10. QED
  BY <1>3, <1>5, <1>6, <1>7, <1>9 DEF Good, WellFormed, s

LEMMA DeleteRowKeeps ==
    ASSUME NEW t, Good(t), NEW k, Has(t, k)
    PROVE  /\ Good(DeleteRow(t, k))
           /\ DeleteRow(t, k).clock >= t.clock
           /\ Contents(DeleteRow(t, k)) \subseteq Contents(t)
<1> DEFINE i == t.index[k]
           s == DeleteAt(t, i)
<1>1. t \in Table /\ IndexConsistent(t) /\ ClockAhead(t) /\ t.clock \in Nat
  BY DEF Good, WellFormed, Table
<1>2. i \in 1..Size(t)
  BY <1>1 DEF Has, IndexConsistent
<1>3. DeleteRow(t, k) = s
  BY DEF DeleteRow
<1>4. /\ s \in Table
      /\ IndexConsistent(s)
      /\ Contents(s) \subseteq Contents(t)
      /\ s.clock = t.clock + 1
  BY <1>1, <1>2, DeleteAtKeeps
<1> HIDE DEF s
<1>5. ASSUME NEW q \in Contents(s) PROVE q.clock < s.clock
  <2>1. q.clock < t.clock /\ q.clock \in Nat
    BY <1>1, <1>4, <1>5, ClockAheadOfContents, ContentsTyped DEF RowType
  <2>2. QED
    BY <2>1, <1>1, <1>4
<1>6. ClockAhead(s)
  BY <1>5, ClockAheadOfContents
<1>7. QED
  BY <1>1, <1>3, <1>4, <1>6 DEF Good, WellFormed

---------------------------------------------------------------------------
(* Lists of row sets.                                                      *)

Lists == Seq(SUBSET RowType)

LEMMA ConcatLists ==
    ASSUME NEW l \in Lists, NEW pulled \in SUBSET RowType
    PROVE  /\ Concat(l, pulled) \in Lists
           /\ Listed(Concat(l, pulled)) \subseteq Listed(l) \cup pulled
<1>1. Concat(l, pulled) \in Lists
  BY DEF Concat, Lists
<1>2. CASE pulled = {}
  BY <1>1, <1>2 DEF Concat
<1>3. CASE pulled # {}
  <2> DEFINE c == Append(l, pulled)
  <2>1. c = Concat(l, pulled)
    BY <1>3 DEF Concat
  <2>2. /\ Len(c) = Len(l) + 1 /\ Len(l) \in Nat
        /\ c[Len(l) + 1] = pulled
        /\ \A i \in 1..Len(l) : c[i] = l[i]
    BY DEF Lists
  <2>3. ASSUME NEW i \in 1..Len(c) PROVE c[i] \subseteq Listed(l) \cup pulled
    <3>1. CASE i \in 1..Len(l)
      BY <2>2, <3>1 DEF Listed
    <3>2. CASE i = Len(l) + 1
      BY <2>2, <3>2
    <3>3. QED
      BY <2>2, <2>3, <3>1, <3>2
  <2>4. QED
    BY <1>1, <2>1, <2>3 DEF Listed
<1>4. QED
  BY <1>2, <1>3

LEMMA HeadIsListed ==
    ASSUME NEW l \in Lists, l # <<>>
    PROVE  Head(l) \in SUBSET RowType /\ Head(l) \subseteq Listed(l)
<1>1. /\ Head(l) = l[1]
      /\ 1 \in 1..Len(l)
      /\ l[1] \in SUBSET RowType
  BY DEF Lists
<1>2. QED
  BY <1>1 DEF Listed

LEMMA RestIsListed ==
    ASSUME NEW l \in Lists, l # <<>>, NEW r \in Head(l)
    PROVE  LET rest == IF Head(l) = {r} THEN Tail(l)
                       ELSE <<Head(l) \ {r}>> \o Tail(l)
           IN rest \in Lists /\ Listed(rest) \subseteq Listed(l)
<1> DEFINE h == Head(l) \ {r}
           rest == IF Head(l) = {r} THEN Tail(l) ELSE <<h>> \o Tail(l)
<1>1. /\ Tail(l) \in Lists
      /\ Len(l) \in Nat /\ Len(l) >= 1
      /\ Len(Tail(l)) = Len(l) - 1
      /\ \A i \in 1..Len(l) - 1 : Tail(l)[i] = l[i + 1]
  BY DEF Lists
<1>2. \A i \in 1..Len(Tail(l)) : Tail(l)[i] \subseteq Listed(l)
  <2>1. ASSUME NEW i \in 1..Len(Tail(l)) PROVE Tail(l)[i] \subseteq Listed(l)
    <3>1. Tail(l)[i] = l[i + 1] /\ i + 1 \in 1..Len(l)
      BY <1>1, <2>1
    <3>2. QED
      BY <3>1 DEF Listed
  <2>2. QED
    BY <2>1
<1>3. h \in SUBSET RowType /\ h \subseteq Listed(l)
  BY HeadIsListed
<1>4. CASE Head(l) = {r}
  BY <1>1, <1>2, <1>4 DEF Listed
<1>5. CASE Head(l) # {r}
  <2> DEFINE c == <<h>> \o Tail(l)
  <2> HIDE DEF h
  <2>1. <<h>> \in Lists
    BY <1>3 DEF Lists
  <2>2. /\ c \in Lists
        /\ Len(c) = Len(l)
        /\ c[1] = h
        /\ \A i \in 2..Len(l) : c[i] = Tail(l)[i - 1]
    <3>1. Len(<<h>>) = 1 /\ <<h>>[1] = h
      OBVIOUS
    <3> DEFINE one == <<h>>
               tail == Tail(l)
    <3>2. one \in Seq(SUBSET RowType) /\ tail \in Seq(SUBSET RowType)
      BY <1>1, <2>1 DEF Lists
    <3>3. Len(one) = 1 /\ one[1] = h /\ Len(tail) = Len(l) - 1 /\ Len(l) \in Nat
      BY <1>1, <3>1
    <3> HIDE DEF one, tail
    <3>4. /\ one \o tail \in Seq(SUBSET RowType)
          /\ Len(one \o tail) = Len(one) + Len(tail)
          /\ \A i \in 1..Len(one) + Len(tail) :
                (one \o tail)[i] = IF i <= Len(one) THEN one[i] ELSE tail[i - Len(one)]
      BY <3>2, ConcatProperties
    <3>5. one \o tail = c
      BY DEF one, tail
    <3>6. Len(l) >= 1
      BY <1>1
    <3> HIDE DEF c
    <3>7. c \in Lists /\ Len(c) = Len(l)
      BY <3>3, <3>4, <3>5 DEF Lists
    <3>8. c[1] = h
      BY <3>3, <3>4, <3>5, <3>6
    <3>9. \A i \in 2..Len(l) : c[i] = tail[i - 1]
      BY <3>3, <3>4, <3>5
    <3>10. QED
      BY <3>7, <3>8, <3>9 DEF tail
  <2>3. ASSUME NEW i \in 1..Len(c) PROVE c[i] \subseteq Listed(l)
    <3>1. CASE i = 1
      BY <1>3, <2>2, <3>1
    <3>2. CASE i # 1
      <4>1. c[i] = Tail(l)[i - 1] /\ i - 1 \in 1..Len(Tail(l))
        BY <1>1, <2>2, <2>3, <3>2
      <4>2. QED
        BY <4>1, <1>2
    <3>3. QED
      BY <3>1, <3>2
  <2>4. rest = c
    BY <1>5 DEF h
  <2>5. Listed(c) \subseteq Listed(l)
    BY <2>3 DEF Listed
  <2>6. QED
    BY <2>2, <2>4, <2>5 DEF h
<1>6. QED
  BY <1>4, <1>5

LEMMA PulledRows ==
    ASSUME NEW t \in Table, NEW v
    PROVE  PullRows(t, v) \subseteq Contents(t) /\ PullRows(t, v) \in SUBSET RowType
<1>1. PullRows(t, v) \subseteq Contents(t)
  BY DEF PullRows, Contents
<1>2. QED
  BY <1>1, ContentsTyped

---------------------------------------------------------------------------
(* The invariant.                                                          *)

Sound ==
    /\ table \in [Node -> Table]
    /\ TablesWellFormed
    /\ mixed \in Lists
    /\ pending \in [Node -> Lists]
    /\ \A msg \in flight : msg.to \in Node /\ msg.rows \in SUBSET RowType

\* An owner's clock is past all versions it handed out, wherever they are.
VersionsAreOld == \A r \in AllRows : r.clock < table[r.owner].clock

IInv == Sound /\ VersionsAreOld /\ VersionNamesRow

LEMMA GoodTables ==
    ASSUME Sound PROVE \A n \in Node : Good(table[n])
  BY DEF Sound, TablesWellFormed, Good

LEMMA RowsTyped ==
    ASSUME Sound PROVE AllRows \subseteq RowType
<1>1. \A n \in Node : Contents(table[n]) \subseteq RowType
  BY ContentsTyped DEF Sound
<1>2. \A l \in Lists : Listed(l) \subseteq RowType
  BY DEF Lists, Listed
<1>3. QED
  BY <1>1, <1>2 DEF Sound, AllRows

LEMMA TableRowsAreRows ==
    ASSUME NEW n \in Node
    PROVE  Contents(table[n]) \subseteq AllRows /\ Listed(pending[n]) \subseteq AllRows
  BY DEF AllRows

\* A step that makes no row and turns no clock back keeps the versions.
LEMMA NoNewRow ==
    ASSUME IInv, Sound', AllRows' \subseteq AllRows,
           \A n \in Node : table'[n].clock >= table[n].clock
    PROVE  IInv'
<1>1. ASSUME NEW r \in AllRows' PROVE r.clock < table'[r.owner].clock
  <2>1. /\ r.clock \in Nat /\ r.owner \in Node
        /\ r.clock < table[r.owner].clock
    BY <1>1, RowsTyped DEF IInv, VersionsAreOld, RowType
  <2>2. table[r.owner].clock \in Nat /\ table'[r.owner].clock \in Nat
    BY <2>1 DEF IInv, Sound, Table
  <2>3. QED
    BY <2>1, <2>2
<1>2. VersionsAreOld'
  BY <1>1 DEF VersionsAreOld
<1>3. VersionNamesRow'
  BY DEF IInv, VersionNamesRow
<1>4. QED
  BY <1>2, <1>3 DEF IInv

\* A write makes one row, under a version that did not exist.
LEMMA OneNewRow ==
    ASSUME IInv, Sound', NEW n \in Node, NEW t \in Table, NEW q \in RowType,
           table' = [table EXCEPT ![n] = t],
           q.owner = n, q.clock = table[n].clock, t.clock = table[n].clock + 1,
           AllRows' \subseteq AllRows \cup {q}
    PROVE  IInv'
<1>1. table[n].clock \in Nat /\ table \in [Node -> Table]
  BY DEF IInv, Sound, Table
<1>2. ASSUME NEW r \in AllRows
      PROVE  /\ r.owner = n => r.clock < q.clock
             /\ r.clock < table'[r.owner].clock
  <2>1. /\ r.clock \in Nat /\ r.owner \in Node
        /\ r.clock < table[r.owner].clock
    BY <1>2, RowsTyped DEF IInv, VersionsAreOld, RowType
  <2>2. QED
    BY <1>1, <2>1
<1>3. q.clock < table'[q.owner].clock
  BY <1>1
<1>4. VersionsAreOld'
  BY <1>2, <1>3 DEF VersionsAreOld
<1>5. VersionNamesRow'
  <2>1. ASSUME NEW r \in AllRows', NEW s \in AllRows',
               r.owner = s.owner, r.clock = s.clock
        PROVE  r = s
    <3>1. r \in AllRows /\ s \in AllRows => r = s
      BY <2>1 DEF IInv, VersionNamesRow
    <3>2. r \in AllRows => r.clock \in Nat
      BY RowsTyped DEF IInv, RowType
    <3>3. s \in AllRows => s.clock \in Nat
      BY RowsTyped DEF IInv, RowType
    <3>4. QED
      BY <1>1, <1>2, <2>1, <3>1, <3>2, <3>3
  <2>2. QED
    BY <2>1 DEF VersionNamesRow
<1>6. QED
  BY <1>4, <1>5 DEF IInv

LEMMA InitInductive == Init => IInv
<1> SUFFICES ASSUME Init PROVE IInv
  OBVIOUS
<1>1. EmptyTable \in Table /\ WellFormed(EmptyTable) /\ Contents(EmptyTable) = {}
  <2>1. EmptyTable.index \in [{} -> Nat]
    BY DEF EmptyTable
  <2>2. EmptyTable \in Table
    BY <2>1 DEF EmptyTable, Table, Index
  <2>3. QED
    BY <2>2 DEF EmptyTable, WellFormed, IndexConsistent, ClockAhead, Contents, Size
<1>2. <<>> \in Lists /\ Listed(<<>>) = {}
  BY DEF Lists, Listed
<1>3. Sound
  BY <1>1, <1>2 DEF Init, Sound, TablesWellFormed
<1>4. AllRows = {}
  BY <1>1, <1>2 DEF Init, AllRows
<1>5. QED
  BY <1>3, <1>4 DEF IInv, VersionsAreOld, VersionNamesRow

\* A write of node n.
LEMMA WriteInductive ==
    ASSUME IInv, NEW n \in Node, NEW k \in Key, NEW v \in Write,
           table' = [table EXCEPT ![n] = Tick(Store(@, Row(k, n, @.clock, v)))],
           UNCHANGED <<mixed, pending, flight>>
    PROVE  IInv'
<1> DEFINE q == Row(k, n, table[n].clock, v)
           t == Tick(Store(table[n], q))
<1>1. Good(table[n]) /\ table \in [Node -> Table]
  BY GoodTables DEF IInv, Sound
<1>2. /\ q \in RowType
      /\ Good(t)
      /\ t.clock = table[n].clock + 1
      /\ Contents(t) \subseteq Contents(table[n]) \cup {q}
  BY <1>1, WriteKeeps
<1>3. q.owner = n /\ q.clock = table[n].clock
  BY DEF Row
<1>4. table' = [table EXCEPT ![n] = t]
  BY <1>1
<1> HIDE DEF q, t
<1>5. \A m \in Node : table'[m] = IF m = n THEN t ELSE table[m]
  BY <1>1, <1>4
<1>6. Sound'
  BY <1>1, <1>2, <1>4, <1>5 DEF IInv, Sound, TablesWellFormed, Good
<1>7. AllRows' \subseteq AllRows \cup {q}
  BY <1>2, <1>5 DEF AllRows
<1>8. QED
  BY <1>2, <1>3, <1>4, <1>6, <1>7, OneNewRow DEF Good

LEMMA DeleteInductive ==
    ASSUME IInv, NEW n \in Node, NEW k \in Key, Delete(n, k) PROVE IInv'
<1> DEFINE t == DeleteRow(table[n], k)
<1>1. Good(table[n]) /\ table \in [Node -> Table]
  BY GoodTables DEF IInv, Sound
<1>2. /\ Good(t)
      /\ t.clock >= table[n].clock
      /\ Contents(t) \subseteq Contents(table[n])
  BY <1>1, DeleteRowKeeps DEF Delete
<1>3. table' = [table EXCEPT ![n] = t] /\ UNCHANGED <<mixed, pending, flight>>
  BY DEF Delete, mixerVars, gossipVars
<1> HIDE DEF t
<1>4. \A m \in Node : table'[m] = IF m = n THEN t ELSE table[m]
  BY <1>1, <1>3
<1>5. Sound'
  BY <1>1, <1>2, <1>3, <1>4 DEF IInv, Sound, TablesWellFormed, Good
<1>6. AllRows' \subseteq AllRows
  BY <1>2, <1>3, <1>4 DEF AllRows
<1>7. \A m \in Node : table[m].clock \in Nat
  BY <1>1 DEF Table
<1>8. \A m \in Node : table'[m].clock >= table[m].clock
  BY <1>2, <1>4, <1>7
<1>9. QED
  BY <1>5, <1>6, <1>8, NoNewRow

\* A step of a mixer moves rows between lists; it makes none.
LEMMA MoveInductive ==
    ASSUME IInv, UNCHANGED table, Sound', AllRows' \subseteq AllRows
    PROVE  IInv'
<1>1. \A m \in Node : table'[m].clock >= table[m].clock
  BY DEF IInv, Sound, Table
<1>2. QED
  BY <1>1, NoNewRow

LEMMA GatherInductive ==
    ASSUME IInv, NEW n \in Node, Gather(n) PROVE IInv'
<1> DEFINE pulled == PullRows(table[n], vc[n])
<1>1. /\ UNCHANGED <<table, pending, flight>>
      /\ mixed' = Concat(mixed, pulled)
  BY DEF Gather, gossipVars
<1>2. pulled \in SUBSET RowType /\ pulled \subseteq Contents(table[n])
  BY PulledRows DEF IInv, Sound
<1>3. mixed \in Lists
  BY DEF IInv, Sound
<1> HIDE DEF pulled
<1>4. mixed' \in Lists /\ Listed(mixed') \subseteq Listed(mixed) \cup pulled
  BY <1>1, <1>2, <1>3, ConcatLists
<1>5. Sound'
  BY <1>1, <1>4 DEF IInv, Sound, TablesWellFormed
<1>6. AllRows' \subseteq AllRows
  BY <1>1, <1>2, <1>4, TableRowsAreRows DEF AllRows
<1>7. QED
  BY <1>1, <1>5, <1>6, MoveInductive

\* The other steps of the linear mixer: they drop the concatenation, hand it
\* to a node, or leave all rows where they are.
LEMMA RoundInductive ==
    ASSUME IInv, StartRound \/ StartPut \/ EndRound \/ \E n \in Node : LosePut(n)
    PROVE  IInv'
<1>1. /\ UNCHANGED <<table, pending, flight>>
      /\ mixed' = mixed \/ mixed' = <<>>
  BY DEF StartRound, StartPut, EndRound, LosePut, gossipVars
<1>2. <<>> \in Lists /\ Listed(<<>>) = {}
  BY DEF Lists, Listed
<1>3. Sound'
  BY <1>1, <1>2 DEF IInv, Sound, TablesWellFormed
<1>4. AllRows' \subseteq AllRows
  BY <1>1, <1>2 DEF AllRows
<1>5. QED
  BY <1>1, <1>3, <1>4, MoveInductive

LEMMA PutInductive ==
    ASSUME IInv, NEW n \in Node, Put(n) PROVE IInv'
<1>1. /\ UNCHANGED <<table, mixed, flight>>
      /\ pending' = [pending EXCEPT ![n] = mixed]
  BY DEF Put, gossipVars
<1>2. mixed \in Lists /\ pending \in [Node -> Lists]
  BY DEF IInv, Sound
<1>3. \A m \in Node : pending'[m] = IF m = n THEN mixed ELSE pending[m]
  BY <1>1, <1>2
<1>4. Sound'
  BY <1>1, <1>2 DEF IInv, Sound, TablesWellFormed
<1>5. AllRows' \subseteq AllRows
  BY <1>1, <1>3 DEF AllRows
<1>6. QED
  BY <1>1, <1>4, <1>5, MoveInductive

LEMMA PullInductive ==
    ASSUME IInv, NEW n \in Node, NEW m \in Node, Pull(n, m) PROVE IInv'
<1> DEFINE pulled == PullRows(table[m], vc[n])
           msg == [to |-> n, rows |-> pulled]
<1>1. /\ UNCHANGED <<table, mixed, pending>>
      /\ flight' = flight \cup {msg}
  BY DEF Pull, mixerVars
<1>2. pulled \in SUBSET RowType /\ pulled \subseteq AllRows
  BY PulledRows, TableRowsAreRows DEF IInv, Sound
<1>3. Sound'
  BY <1>1, <1>2 DEF IInv, Sound, TablesWellFormed
<1>4. AllRows' \subseteq AllRows
  BY <1>1, <1>2 DEF AllRows
<1>5. QED
  BY <1>1, <1>3, <1>4, MoveInductive

LEMMA PushInductive ==
    ASSUME IInv, NEW msg \in flight, Push(msg) PROVE IInv'
<1> DEFINE n == msg.to
           l == Concat(pending[n], msg.rows)
<1>1. /\ UNCHANGED <<table, mixed, flight>>
      /\ pending' = [pending EXCEPT ![n] = l]
  BY DEF Push, mixerVars, gossipVars
<1>2. /\ n \in Node
      /\ msg.rows \in SUBSET RowType
      /\ pending \in [Node -> Lists]
  BY DEF IInv, Sound
<1>3. l \in Lists /\ Listed(l) \subseteq Listed(pending[n]) \cup msg.rows
  BY <1>2, ConcatLists
<1> HIDE DEF l
<1>4. \A m \in Node : pending'[m] = IF m = n THEN l ELSE pending[m]
  BY <1>1, <1>2
<1>5. Sound'
  BY <1>1, <1>2, <1>3 DEF IInv, Sound, TablesWellFormed
<1>6. msg.rows \subseteq AllRows
  BY DEF AllRows
<1>7. Listed(l) \subseteq AllRows
  BY <1>2, <1>3, <1>6, TableRowsAreRows
<1>8. AllRows' \subseteq AllRows
  BY <1>1, <1>4, <1>7 DEF AllRows
<1>9. QED
  BY <1>1, <1>5, <1>8, MoveInductive

LEMMA ApplyRowInductive ==
    ASSUME IInv, NEW n \in Node, pending[n] # <<>>, NEW r \in Head(pending[n]),
           ApplyRow(n, r)
    PROVE  IInv'
<1> DEFINE t == SetRow(table[n], r)
           l == IF Head(pending[n]) = {r} THEN Tail(pending[n])
                ELSE <<Head(pending[n]) \ {r}>> \o Tail(pending[n])
<1>1. /\ UNCHANGED <<mixed, flight>>
      /\ table' = [table EXCEPT ![n] = t]
      /\ pending' = [pending EXCEPT ![n] = l]
  BY DEF ApplyRow, mixerVars, gossipVars
<1>2. /\ pending \in [Node -> Lists]
      /\ table \in [Node -> Table]
      /\ Good(table[n])
  BY GoodTables DEF IInv, Sound
<1>3. r \in RowType /\ r \in AllRows
  BY <1>2, HeadIsListed, TableRowsAreRows
<1>4. l \in Lists /\ Listed(l) \subseteq Listed(pending[n])
  BY <1>2, RestIsListed
<1>5. /\ Good(t)
      /\ t.clock >= table[n].clock
      /\ Contents(t) \subseteq Contents(table[n]) \cup {r}
  BY <1>2, <1>3, SetRowKeeps
<1> HIDE DEF t, l
<1>6. /\ \A m \in Node : table'[m] = IF m = n THEN t ELSE table[m]
      /\ \A m \in Node : pending'[m] = IF m = n THEN l ELSE pending[m]
  BY <1>1, <1>2
<1>7. Sound'
  <2>1. table' \in [Node -> Table] /\ TablesWellFormed'
    BY <1>1, <1>2, <1>5, <1>6 DEF IInv, Sound, TablesWellFormed, Good
  <2>2. pending' \in [Node -> Lists]
    BY <1>1, <1>2, <1>4
  <2>3. QED
    BY <1>1, <2>1, <2>2 DEF IInv, Sound
<1>8. ASSUME NEW m \in Node
      PROVE  Contents(table'[m]) \cup Listed(pending'[m]) \subseteq AllRows
  BY <1>3, <1>4, <1>5, <1>6, TableRowsAreRows
<1>9. AllRows' \subseteq AllRows
  BY <1>1, <1>8 DEF AllRows
<1>10. \A m \in Node : table'[m].clock >= table[m].clock
  <2>1. \A m \in Node : table[m].clock \in Nat
    BY <1>2 DEF Table
  <2>2. QED
    BY <1>5, <1>6, <2>1
<1>11. QED
  BY <1>7, <1>9, <1>10, NoNewRow

LEMMA Inductive == IInv /\ [Next]_vars => IInv'
<1> SUFFICES ASSUME IInv, [Next]_vars PROVE IInv'
  OBVIOUS
<1>1. ASSUME NEW n \in Node, NEW k \in Key, NEW v \in Write, Set(n, k, v)
      PROVE  IInv'
  BY <1>1, WriteInductive DEF Set, Add, mixerVars, gossipVars
<1>2. ASSUME NEW n \in Node, NEW k \in Key, Delete(n, k) PROVE IInv'
  BY <1>2, DeleteInductive
<1>3. ASSUME NEW n \in Node, NEW k \in Key, Refresh(n, k) PROVE IInv'
  <2> DEFINE v == RowOf(table[n], k).value
  <2>1. Good(table[n]) /\ table \in [Node -> Table]
    BY GoodTables DEF IInv, Sound
  <2>2. Has(table[n], k)
    BY <1>3 DEF Refresh
  <2>3. RowOf(table[n], k) \in RowType
    <3>1. /\ table[n].rows \in Seq(RowType)
          /\ table[n].index[k] \in 1..Len(table[n].rows)
      BY <2>1, <2>2 DEF Good, WellFormed, IndexConsistent, Has, Table, Size
    <3>2. QED
      BY <3>1 DEF RowOf
  <2>4. v \in Write
    BY <2>3 DEF RowType
  <2>5. /\ table' = [table EXCEPT ![n] = Tick(Store(@, Row(k, n, @.clock, v)))]
        /\ UNCHANGED <<mixed, pending, flight>>
    BY <1>3, <2>2 DEF Refresh, UpdateClock, mixerVars, gossipVars
  <2>6. QED
    BY <2>4, <2>5, WriteInductive
<1>4. CASE StartRound \/ StartPut \/ EndRound \/ \E n \in Node : LosePut(n)
  BY <1>4, RoundInductive
<1>5. ASSUME NEW n \in Node, Gather(n) PROVE IInv'
  BY <1>5, GatherInductive
<1>6. ASSUME NEW n \in Node, Put(n) PROVE IInv'
  BY <1>6, PutInductive
<1>7. ASSUME NEW n \in Node, NEW m \in Node, Pull(n, m) PROVE IInv'
  BY <1>7, PullInductive
<1>8. ASSUME NEW msg \in flight, Push(msg) PROVE IInv'
  BY <1>8, PushInductive
<1>9. ASSUME NEW n \in Node, pending[n] # <<>>, NEW r \in Head(pending[n]),
             ApplyRow(n, r)
      PROVE  IInv'
  BY <1>9, ApplyRowInductive
<1>10. CASE UNCHANGED vars
  <2>1. UNCHANGED <<table, mixed, pending, flight>>
    BY <1>10 DEF vars
  <2>2. Sound' /\ AllRows' \subseteq AllRows
    BY <2>1 DEF IInv, Sound, TablesWellFormed, AllRows
  <2>3. QED
    BY <2>1, <2>2, MoveInductive
<1>11. QED
  BY <1>1, <1>2, <1>3, <1>4, <1>5, <1>6, <1>7, <1>8, <1>9, <1>10
     DEF Next, Local, Linear, Gossip, Apply, Loss

LEMMA Invariance == Spec => []IInv
  BY InitInductive, Inductive, PTL DEF Spec

\* In every table the index finds exactly the rows there are and the clock is
\* past every version, whatever writes, deletions, rounds and gossip do.
THEOREM TablesStayWellFormed == Spec => []TablesWellFormed
<1>1. IInv => TablesWellFormed
  BY DEF IInv, Sound
<1>2. QED
  BY <1>1, Invariance, PTL

\* Two rows with one version are one row, in tables, lists and messages alike.
THEOREM VersionsNameRows == Spec => []VersionNamesRow
<1>1. IInv => VersionNamesRow
  BY DEF IInv
<1>2. QED
  BY <1>1, Invariance, PTL

---------------------------------------------------------------------------
(* The order of a row's versions.                                          *)

Present(t, k) == Has(t, k) /\ t.index[k] \in 1..Size(t) /\ RowOf(t, k) \in RowType

LEMMA HasIsPresent ==
    ASSUME NEW t \in Table, IndexConsistent(t), NEW k, Has(t, k)
    PROVE  Present(t, k) /\ RowOf(t, k).key = k
<1>1. t.index[k] \in 1..Size(t) /\ t.rows[t.index[k]].key = k
  BY DEF Has, IndexConsistent
<1>2. QED
  BY <1>1 DEF Present, RowOf, Table, Size

\* Writing a row leaves the rows of all other keys alone.
LEMMA StoredRows ==
    ASSUME NEW t \in Table, IndexConsistent(t), NEW r \in RowType,
           NEW k, Has(t, k)
    PROVE  RowOf(Store(t, r), k) = IF k = r.key THEN r ELSE RowOf(t, k)
<1> DEFINE s == Store(t, r)
           p == t.index[k]
<1>1. /\ t.rows \in Seq(RowType)
      /\ Size(t) = Len(t.rows) /\ Size(t) \in Nat
      /\ DOMAIN t.rows = 1..Size(t)
      /\ p \in 1..Size(t) /\ t.rows[p].key = k
  BY HasIsPresent DEF Table, Size, Present, RowOf
<1>2. CASE Has(t, r.key)
  <2> DEFINE q == t.index[r.key]
  <2>1. q \in 1..Size(t) /\ t.rows[q].key = r.key
    BY <1>2 DEF Has, IndexConsistent
  <2>2. s.index = t.index /\ s.rows = [t.rows EXCEPT ![q] = r]
    BY <1>2 DEF Store, Table
  <2>3. s.rows[p] = IF p = q THEN r ELSE t.rows[p]
    BY <1>1, <2>1, <2>2
  <2>4. p = q <=> k = r.key
    BY <1>1, <2>1
  <2>5. QED
    BY <2>2, <2>3, <2>4 DEF RowOf
<1>3. CASE ~Has(t, r.key)
  <2>1. k # r.key
    BY <1>3
  <2>2. s.rows = Append(t.rows, r)
    BY <1>3 DEF Store, Table
  <2>3. s.index[k] = p
    BY <1>3, <2>1 DEF Store, Table, Has
  <2>4. s.rows[p] = t.rows[p]
    BY <1>1, <2>2
  <2>5. QED
    BY <2>1, <2>3, <2>4 DEF RowOf
<1>4. QED
  BY <1>2, <1>3

\* A deletion leaves every other row as it is, wherever it moves.
LEMMA KeptRows ==
    ASSUME NEW t, Good(t), NEW gone, Has(t, gone), NEW k, Has(t, k),
           Has(DeleteRow(t, gone), k)
    PROVE  RowOf(DeleteRow(t, gone), k) = RowOf(t, k)
<1> DEFINE i == t.index[gone]
           n == Size(t)
           p == t.index[k]
           moved == [t.index EXCEPT ![t.rows[n].key] = i]
           s == DeleteAt(t, i)
<1>1. t \in Table /\ IndexConsistent(t)
  BY DEF Good, WellFormed
<1>2. /\ DeleteRow(t, gone) = s
      /\ n \in Nat
      /\ i \in 1..n /\ t.rows[i].key = gone
      /\ p \in 1..n /\ t.rows[p].key = k
  BY <1>1, HasIsPresent DEF DeleteRow, Present, RowOf, Table, Size
<1>3. /\ s.rows = [j \in 1..n - 1 |-> IF j = i THEN t.rows[n] ELSE t.rows[j]]
      /\ s.index = [j \in DOMAIN moved \ {gone} |-> moved[j]]
  BY <1>2 DEF DeleteAt
<1>4. k # gone /\ k \in DOMAIN moved
  BY <1>2, <1>3 DEF Has
<1>5. s.index[k] = moved[k] /\ p # i
  BY <1>2, <1>3, <1>4
<1>6. CASE p = n
  <2>1. moved[k] = i
    BY <1>2, <1>4, <1>6
  <2>2. i \in 1..n - 1
    BY <1>2, <1>5, <1>6
  <2>3. s.rows[i] = t.rows[n]
    BY <1>3, <2>2
  <2>4. QED
    BY <1>2, <1>5, <1>6, <2>1, <2>3 DEF RowOf
<1>7. CASE p # n
  <2>1. n \in 1..n
    BY <1>2
  <2>2. t.rows[n].key \in DOMAIN t.index /\ t.index[t.rows[n].key] = n
    BY <1>1, <2>1 DEF IndexConsistent
  <2>3. moved[k] = p
    BY <1>7, <2>2, <1>4
  <2>4. p \in 1..n - 1
    BY <1>2, <1>7
  <2>5. s.rows[p] = t.rows[p]
    BY <1>3, <1>5, <2>4
  <2>6. QED
    BY <1>2, <1>5, <2>3, <2>5 DEF RowOf
<1>8. QED
  BY <1>6, <1>7

---------------------------------------------------------------------------
\* Every row of t that u still has under its key is not older there.
NotOlder(t, u) ==
    \A k \in Key : Has(t, k) /\ Has(u, k) => RowOf(u, k).clock >= RowOf(t, k).clock

LEMMA SameNotOlder == ASSUME NEW t, Good(t) PROVE NotOlder(t, t)
<1> SUFFICES ASSUME NEW k \in Key, Has(t, k) PROVE RowOf(t, k).clock >= RowOf(t, k).clock
  BY DEF NotOlder
<1>1. RowOf(t, k) \in RowType
  BY HasIsPresent DEF Good, WellFormed, Present
<1>2. QED
  BY <1>1 DEF RowType

\* A row that is not older than the one it replaces.
LEMMA StoreNotOlder ==
    ASSUME NEW t, Good(t), NEW r \in RowType,
           Has(t, r.key) => RowOf(t, r.key).clock <= r.clock,
           NEW u, u.rows = Store(t, r).rows, u.index = Store(t, r).index
    PROVE  NotOlder(t, u)
<1> SUFFICES ASSUME NEW k \in Key, Has(t, k)
             PROVE  RowOf(u, k).clock >= RowOf(t, k).clock
  BY DEF NotOlder
<1>1. t \in Table /\ IndexConsistent(t)
  BY DEF Good, WellFormed
<1>2. RowOf(u, k) = IF k = r.key THEN r ELSE RowOf(t, k)
  BY <1>1, StoredRows DEF RowOf
<1>3. RowOf(t, k) \in RowType
  BY <1>1, HasIsPresent DEF Present
<1>4. QED
  BY <1>2, <1>3 DEF RowType

LEMMA WriteNotOlder ==
    ASSUME NEW t, Good(t), NEW k \in Key, NEW o \in Node, NEW v \in Write
    PROVE  NotOlder(t, Tick(Store(t, Row(k, o, t.clock, v))))
<1> DEFINE r == Row(k, o, t.clock, v)
           s == Store(t, r)
           u == Tick(s)
<1>1. t \in Table /\ IndexConsistent(t) /\ ClockAhead(t) /\ t.clock \in Nat
  BY DEF Good, WellFormed, Table
<1>2. r \in RowType /\ r.key = k /\ r.clock = t.clock
  BY <1>1 DEF Row, RowType
<1>3. Has(t, k) => RowOf(t, k).clock <= r.clock
  <2> SUFFICES ASSUME Has(t, k) PROVE RowOf(t, k).clock <= r.clock
    OBVIOUS
  <2>1. RowOf(t, k).clock < t.clock /\ RowOf(t, k) \in RowType
    BY <1>1, HasIsPresent DEF Present, RowOf, ClockAhead
  <2>2. QED
    BY <1>1, <1>2, <2>1 DEF RowType
<1>4. s \in Table
  BY <1>1, <1>2, StoreKeeps
<1>5. u.rows = s.rows /\ u.index = s.index
  BY <1>4 DEF Tick, Table
<1> HIDE DEF r, s, u
<1>6. QED
  BY <1>2, <1>3, <1>5, StoreNotOlder DEF s, u, r

LEMMA SetRowNotOlder ==
    ASSUME NEW t, Good(t), NEW r \in RowType PROVE NotOlder(t, SetRow(t, r))
<1> DEFINE s == IF Newer(t, r.key, r.clock) THEN t ELSE Store(t, r)
           u == SetRow(t, r)
<1>1. t \in Table /\ IndexConsistent(t)
  BY DEF Good, WellFormed
<1>2. s \in Table
  BY <1>1, StoreKeeps
<1>3. u.rows = s.rows /\ u.index = s.index
  BY <1>2 DEF SetRow, ClockFrom, Table
<1>4. CASE Newer(t, r.key, r.clock)
  <2>1. NotOlder(t, t)
    BY SameNotOlder
  <2>2. QED
    BY <1>3, <1>4, <2>1 DEF NotOlder, Has, RowOf
<1>5. CASE ~Newer(t, r.key, r.clock)
  <2>1. Has(t, r.key) => RowOf(t, r.key).clock <= r.clock
    <3> SUFFICES ASSUME Has(t, r.key) PROVE RowOf(t, r.key).clock <= r.clock
      OBVIOUS
    <3>1. RowOf(t, r.key) \in RowType
      BY <1>1, HasIsPresent DEF Present
    <3>2. QED
      BY <1>5, <3>1 DEF Newer, RowType
  <2>2. QED
    BY <1>3, <1>5, <2>1, StoreNotOlder
<1>6. QED
  BY <1>4, <1>5

LEMMA DeleteNotOlder ==
    ASSUME NEW t, Good(t), NEW gone, Has(t, gone) PROVE NotOlder(t, DeleteRow(t, gone))
<1> SUFFICES ASSUME NEW k \in Key, Has(t, k), Has(DeleteRow(t, gone), k)
             PROVE  RowOf(DeleteRow(t, gone), k).clock >= RowOf(t, k).clock
  BY DEF NotOlder
<1>1. RowOf(DeleteRow(t, gone), k) = RowOf(t, k)
  BY KeptRows
<1>2. RowOf(t, k) \in RowType
  BY HasIsPresent DEF Good, WellFormed, Present
<1>3. QED
  BY <1>1, <1>2 DEF RowType

---------------------------------------------------------------------------
\* One table changes, to one that is not older.
LEMMA OneTable ==
    ASSUME IInv, NEW n \in Node, NEW u, table' = [table EXCEPT ![n] = u],
           NotOlder(table[n], u)
    PROVE  \A m \in Node : NotOlder(table[m], table'[m])
<1>1. table \in [Node -> Table] /\ \A m \in Node : Good(table[m])
  BY GoodTables DEF IInv, Sound
<1>2. QED
  BY <1>1, SameNotOlder

LEMMA StepNotOlder ==
    ASSUME IInv, [Next]_vars
    PROVE  \A m \in Node : NotOlder(table[m], table'[m])
<1>1. \A m \in Node : Good(table[m])
  BY GoodTables DEF IInv
<1>2. CASE UNCHANGED table
  BY <1>1, <1>2, SameNotOlder
<1>3. ASSUME NEW n \in Node, NEW k \in Key, NEW v \in Write, Set(n, k, v)
      PROVE  \A m \in Node : NotOlder(table[m], table'[m])
  BY <1>1, <1>3, WriteNotOlder, OneTable DEF Set, Add
<1>4. ASSUME NEW n \in Node, NEW k \in Key, Delete(n, k)
      PROVE  \A m \in Node : NotOlder(table[m], table'[m])
  BY <1>1, <1>4, DeleteNotOlder, OneTable DEF Delete
<1>5. ASSUME NEW n \in Node, NEW k \in Key, Refresh(n, k)
      PROVE  \A m \in Node : NotOlder(table[m], table'[m])
  <2> DEFINE v == RowOf(table[n], k).value
             u == Tick(Store(table[n], Row(k, n, table[n].clock, v)))
  <2>1. Has(table[n], k) /\ table' = [table EXCEPT ![n] = u]
    BY <1>5 DEF Refresh, UpdateClock
  <2>2. RowOf(table[n], k) \in RowType
    BY <1>1, <2>1, HasIsPresent DEF Good, WellFormed, Present
  <2>3. v \in Write
    BY <2>2 DEF RowType
  <2>4. NotOlder(table[n], u)
    BY <1>1, <2>3, WriteNotOlder
  <2>5. QED
    BY <2>1, <2>4, OneTable
<1>6. ASSUME NEW n \in Node, pending[n] # <<>>, NEW r \in Head(pending[n]), ApplyRow(n, r)
      PROVE  \A m \in Node : NotOlder(table[m], table'[m])
  <2>1. r \in RowType
    BY <1>6, HeadIsListed DEF IInv, Sound
  <2>2. QED
    BY <1>1, <1>6, <2>1, SetRowNotOlder, OneTable DEF ApplyRow
<1>7. CASE Linear \/ Gossip \/ Loss \/ UNCHANGED vars
  BY <1>2, <1>7 DEF Linear, Gossip, Loss, StartRound, Gather, StartPut, Put, EndRound,
                    Pull, Push, LosePut, vars
<1>8. QED
  BY <1>3, <1>4, <1>5, <1>6, <1>7 DEF Next, Local, Apply

\* A row that a table has seen is never replaced by an older version of it,
\* although rows arrive late, twice and out of order.
THEOREM RowsNeverRegress == Spec => NoRegress
<1>1. IInv /\ [Next]_vars =>
          [\A n \in Node, k \in Key :
              Has(table[n], k) /\ Has(table[n]', k) =>
                  RowOf(table[n]', k).clock >= RowOf(table[n], k).clock]_vars
  BY StepNotOlder DEF NotOlder
<1>2. QED
  BY <1>1, Invariance, PTL DEF Spec, NoRegress

---------------------------------------------------------------------------
(* Version vectors hide no row.                                            *)

\* What NoHoles asks of the environment; once broken it stays so.
Orderly == deletes = 0 /\ ~lost /\ (rounds = 0 \/ pulls = 0)

\* Node n has a row under r's key that is not older, or is about to apply one.
Holds(n, r) == Has(table[n], r.key) /\ RowOf(table[n], r.key).clock >= r.clock
NotOlderIn(pulled, r) == \E p \in pulled : p.key = r.key /\ p.clock >= r.clock
Covered(n, r) == Holds(n, r) \/ NotOlderIn(Listed(pending[n]), r)

\* Whoever takes these rows will miss none of their owners' rows up to them.
NoGap(n, pulled) ==
    \A p \in pulled, r \in AllRows :
        r.owner = p.owner /\ r.clock <= p.clock => Covered(n, r) \/ NotOlderIn(pulled, r)

Vectors == UNION {[D -> Nat] : D \in SUBSET Node}

\* Vectors name only versions that were handed out.
VectorsAreOld ==
    /\ vc \in [Node -> Vectors]
    /\ \A n, o \in Node : Seen(vc[n], o) < table[o].clock

\* An owner holds each row of its own, in a version not older; the vector
\* covers all rows of other owners in the table.
OwnersHold == \A r \in AllRows : Holds(r.owner, r)
ForeignSeen ==
    \A n \in Node : \A r \in Contents(table[n]) :
        r.owner # n => Seen(vc[n], r.owner) >= r.clock

\* What a vector covers is there, and will be when the rows on their way,
\* whose versions the vector will then cover, are applied.
SeenCovered ==
    \A n \in Node, r \in AllRows : Seen(vc[n], r.owner) >= r.clock => Covered(n, r)
NoGaps ==
    /\ \A n \in Node : NoGap(n, Listed(pending[n])) /\ NoGap(n, Listed(mixed))
    /\ \A msg \in flight : NoGap(msg.to, msg.rows)

Counters == rounds \in Nat /\ pulls \in Nat /\ deletes \in Nat

\* Linear rounds start from vectors that agree, and make them agree again.
RoundsAgree ==
    /\ phase # "idle" => rounds > 0
    /\ Counters
    /\ rounds = 0 => mixed = <<>>
    /\ phase = "idle" => mixed = <<>>
    /\ pulls = 0 => flight = {}
    /\ pulls = 0 /\ phase # "put" =>
           /\ \A n \in Node : pending[n] = <<>>
           /\ \A n, m, o \in Node : Seen(vc[n], o) = Seen(vc[m], o)
    /\ pulls = 0 /\ phase = "put" =>
           /\ \A n \in todo : pending[n] = <<>>
           /\ \A n \in Node : Listed(pending[n]) \subseteq Listed(mixed)
           /\ \A n \in Node \ todo, p \in Listed(mixed) :
                 Seen(vc[n], p.owner) >= p.clock \/ p \in Listed(pending[n])
           /\ \A n, m, o \in Node :
                 \/ Seen(vc[n], o) <= Seen(vc[m], o)
                 \/ \E p \in Listed(mixed) : p.owner = o /\ p.clock = Seen(vc[n], o)

Complete == VectorsAreOld /\ OwnersHold /\ ForeignSeen /\ SeenCovered /\ NoGaps

HoleInv == Counters /\ (Orderly => Complete /\ RoundsAgree)

\* Vectors.
LEMMA SeenTyped ==
    ASSUME NEW v \in Vectors, NEW o \in Node
    PROVE  Seen(v, o) \in Int /\ Seen(v, o) >= -1
<1>1. PICK D \in SUBSET Node : v \in [D -> Nat]
  BY DEF Vectors
<1>2. QED
  BY <1>1 DEF Seen

LEMMA AdvanceSees ==
    ASSUME NEW v \in Vectors, NEW r \in RowType
    PROVE  /\ Advance(v, r) \in Vectors
           /\ \A o \in Node : Seen(Advance(v, r), o) =
                  IF o = r.owner /\ Seen(v, o) < r.clock THEN r.clock ELSE Seen(v, o)
<1>1. PICK D \in SUBSET Node : v \in [D -> Nat]
  BY DEF Vectors
<1>2. r.owner \in Node /\ r.clock \in Nat
  BY DEF RowType
<1>3. \A o \in Node : Seen(v, o) = IF o \in D THEN v[o] ELSE -1
  BY <1>1 DEF Seen
<1>4. DOMAIN Advance(v, r) = D \cup {r.owner}
  BY <1>1 DEF Advance
<1>5. \A o \in D \cup {r.owner} : Advance(v, r)[o] =
          IF o = r.owner /\ Seen(v, o) < r.clock THEN r.clock ELSE v[o]
  BY <1>1 DEF Advance
<1>6. ASSUME NEW o \in D \cup {r.owner}
      PROVE  Advance(v, r)[o] \in Nat
  BY <1>1, <1>2, <1>3, <1>5
<1>7. Advance(v, r) \in [D \cup {r.owner} -> Nat]
  <2>1. Advance(v, r) = [o \in D \cup {r.owner} |-> Advance(v, r)[o]]
    BY <1>1 DEF Advance
  <2>2. QED
    BY <1>6, <2>1
<1>8. Advance(v, r) \in Vectors
  BY <1>2, <1>7 DEF Vectors
<1>9. ASSUME NEW o \in Node
      PROVE  Seen(Advance(v, r), o) =
                 IF o = r.owner /\ Seen(v, o) < r.clock THEN r.clock ELSE Seen(v, o)
  <2>1. CASE o \in D \cup {r.owner}
    BY <1>2, <1>3, <1>4, <1>5, <2>1 DEF Seen
  <2>2. CASE o \notin D \cup {r.owner}
    BY <1>3, <1>4, <2>2 DEF Seen
  <2>3. QED
    BY <2>1, <2>2
<1>10. QED
  BY <1>8, <1>9

\* Lists.
LEMMA ConcatHasBoth ==
    ASSUME NEW l \in Lists, NEW pulled \in SUBSET RowType
    PROVE  Listed(l) \cup pulled \subseteq Listed(Concat(l, pulled))
<1>1. CASE pulled = {}
  BY <1>1 DEF Concat
<1>2. CASE pulled # {}
  <2> DEFINE c == Append(l, pulled)
  <2>1. c = Concat(l, pulled)
    BY <1>2 DEF Concat
  <2>2. /\ Len(c) = Len(l) + 1 /\ Len(l) \in Nat
        /\ c[Len(l) + 1] = pulled
        /\ \A i \in 1..Len(l) : c[i] = l[i]
    BY DEF Lists
  <2> HIDE DEF c
  <2>3. ASSUME NEW i \in 1..Len(l) PROVE l[i] \subseteq Listed(c)
    <3>1. i \in 1..Len(c) /\ l[i] = c[i]
      BY <2>2
    <3>2. QED
      BY <3>1 DEF Listed
  <2>4. pulled \subseteq Listed(c)
    <3>1. Len(l) + 1 \in 1..Len(c)
      BY <2>2
    <3>2. QED
      BY <2>2, <3>1 DEF Listed
  <2>5. Listed(l) \subseteq Listed(c)
    BY <2>3 DEF Listed
  <2>6. QED
    BY <2>1, <2>4, <2>5
<1>3. QED
  BY <1>1, <1>2

LEMMA RestHasOthers ==
    ASSUME NEW l \in Lists, l # <<>>, NEW r \in Head(l)
    PROVE  Listed(l) \subseteq
               Listed(IF Head(l) = {r} THEN Tail(l) ELSE <<Head(l) \ {r}>> \o Tail(l)) \cup {r}
<1> DEFINE h == Head(l) \ {r}
           tail == Tail(l)
           one == <<h>>
<1>1. /\ tail \in Lists
      /\ Len(l) \in Nat /\ Len(l) >= 1 /\ Len(tail) = Len(l) - 1
      /\ \A i \in 1..Len(l) - 1 : tail[i] = l[i + 1]
      /\ Head(l) = l[1]
  BY DEF Lists
<1>2. h \in SUBSET RowType
  BY HeadIsListed
<1> HIDE DEF tail, h
<1>3. one \in Lists /\ Len(one) = 1 /\ one[1] = h
  BY <1>2 DEF Lists
<1> HIDE DEF one
<1>4. /\ Len(one \o tail) = Len(l)
      /\ \A i \in 1..Len(l) : (one \o tail)[i] = IF i <= 1 THEN one[i] ELSE tail[i - 1]
  <2>1. /\ Len(one \o tail) = Len(one) + Len(tail)
        /\ \A i \in 1..Len(one) + Len(tail) :
              (one \o tail)[i] = IF i <= Len(one) THEN one[i] ELSE tail[i - Len(one)]
    <3>1. one \in Seq(SUBSET RowType) /\ tail \in Seq(SUBSET RowType)
      BY <1>1, <1>3 DEF Lists
    <3>2. QED
      BY <3>1, ConcatProperties
  <2>2. QED
    BY <1>1, <1>3, <2>1
<1>5. ASSUME NEW q, q \in Listed(l), q # r, Head(l) = {r}
      PROVE  q \in Listed(tail)
  <2>1. PICK i \in 1..Len(l) : q \in l[i]
    BY <1>5 DEF Listed
  <2>2. i # 1
    BY <1>1, <1>5, <2>1
  <2>3. i - 1 \in 1..Len(tail) /\ q \in tail[i - 1]
    <3>1. i - 1 \in 1..Len(l) - 1 /\ (i - 1) + 1 = i
      BY <1>1, <2>2
    <3>2. QED
      BY <1>1, <2>1, <3>1
  <2>4. QED
    BY <2>3 DEF Listed
<1>6. ASSUME NEW q, q \in Listed(l), q # r, Head(l) # {r}
      PROVE  q \in Listed(one \o tail)
  <2>1. PICK i \in 1..Len(l) : q \in l[i]
    BY <1>6 DEF Listed
  <2>2. CASE i = 1
    <3>1. q \in h
      BY <1>1, <1>6, <2>1, <2>2 DEF h
    <3>2. q \in (one \o tail)[1] /\ 1 \in 1..Len(one \o tail)
      BY <1>1, <1>3, <1>4, <3>1
    <3>3. QED
      BY <3>2 DEF Listed
  <2>3. CASE i # 1
    <3>1. i - 1 \in 1..Len(l) - 1 /\ (i - 1) + 1 = i /\ ~(i <= 1)
      BY <1>1, <2>3
    <3>2. q \in tail[i - 1] /\ (one \o tail)[i] = tail[i - 1]
      BY <1>1, <1>4, <2>1, <3>1
    <3>3. i \in 1..Len(one \o tail)
      BY <1>4
    <3>4. QED
      BY <3>2, <3>3 DEF Listed
  <2>4. QED
    BY <2>2, <2>3
<1>7. QED
  BY <1>5, <1>6 DEF one, tail, h

\* What is written is there, and no other row goes.
LEMMA StoreHas ==
    ASSUME NEW t \in Table, IndexConsistent(t), NEW r \in RowType
    PROVE  /\ Has(Store(t, r), r.key) /\ RowOf(Store(t, r), r.key) = r
           /\ \A k : Has(t, k) => Has(Store(t, r), k)
<1> DEFINE s == Store(t, r)
<1>1. CASE Has(t, r.key)
  <2>1. s.index = t.index
    BY <1>1 DEF Store, Table
  <2>2. RowOf(s, r.key) = r
    BY <1>1, StoredRows
  <2>3. QED
    BY <1>1, <2>1, <2>2 DEF Has
<1>2. CASE ~Has(t, r.key)
  <2>1. /\ s.index = [k \in DOMAIN t.index \cup {r.key} |->
                         IF k = r.key THEN Size(t) + 1 ELSE t.index[k]]
        /\ s.rows = Append(t.rows, r)
    BY <1>2 DEF Store, Table
  <2>2. t.rows \in Seq(RowType) /\ Size(t) = Len(t.rows)
    BY DEF Table, Size
  <2>3. s.index[r.key] = Size(t) + 1 /\ DOMAIN s.index = DOMAIN t.index \cup {r.key}
    BY <2>1
  <2>4. s.rows[Size(t) + 1] = r
    BY <2>1, <2>2
  <2>5. QED
    BY <2>3, <2>4 DEF Has, RowOf
<1>3. QED
  BY <1>1, <1>2

LEMMA WriteHas ==
    ASSUME NEW t, Good(t), NEW k \in Key, NEW o \in Node, NEW v \in Write
    PROVE  LET q == Row(k, o, t.clock, v)
               s == Tick(Store(t, q))
           IN /\ Has(s, k) /\ RowOf(s, k) = q
              /\ \A j : Has(t, j) => Has(s, j)
<1> DEFINE q == Row(k, o, t.clock, v)
           u == Store(t, q)
<1>1. t \in Table /\ IndexConsistent(t) /\ t.clock \in Nat
  BY DEF Good, WellFormed, Table
<1>2. q \in RowType /\ q.key = k
  BY <1>1 DEF Row, RowType
<1>3. u \in Table
  BY <1>1, <1>2, StoreKeeps
<1>4. /\ Has(u, q.key) /\ RowOf(u, q.key) = q
      /\ \A j : Has(t, j) => Has(u, j)
  BY <1>1, <1>2, StoreHas
<1>5. Tick(u).rows = u.rows /\ Tick(u).index = u.index
  BY <1>3 DEF Tick, Table
<1> HIDE DEF q, u
<1>6. Has(Tick(u), k) /\ RowOf(Tick(u), k) = q /\ \A j : Has(t, j) => Has(Tick(u), j)
  BY <1>2, <1>4, <1>5 DEF Has, RowOf
<1>7. QED
  BY <1>6 DEF q, u

LEMMA SetRowHas ==
    ASSUME NEW t, Good(t), NEW r \in RowType
    PROVE  /\ Has(SetRow(t, r), r.key) /\ RowOf(SetRow(t, r), r.key).clock >= r.clock
           /\ \A j : Has(t, j) => Has(SetRow(t, r), j)
<1> DEFINE s == IF Newer(t, r.key, r.clock) THEN t ELSE Store(t, r)
           u == SetRow(t, r)
<1>1. t \in Table /\ IndexConsistent(t) /\ r.clock \in Nat
  BY DEF Good, WellFormed, RowType
<1>2. s \in Table
  BY <1>1, StoreKeeps
<1>3. u.rows = s.rows /\ u.index = s.index
  BY <1>2 DEF SetRow, ClockFrom, Table
<1>4. CASE Newer(t, r.key, r.clock)
  <2>1. Has(t, r.key) /\ RowOf(t, r.key).clock > r.clock /\ RowOf(t, r.key) \in RowType
    BY <1>1, <1>4, HasIsPresent DEF Newer, Present
  <2>2. RowOf(t, r.key).clock >= r.clock
    BY <1>1, <2>1 DEF RowType
  <2>3. u.rows = t.rows /\ u.index = t.index
    BY <1>3, <1>4
  <2> HIDE DEF u
  <2>4. QED
    BY <2>1, <2>2, <2>3 DEF Has, RowOf, u
<1>5. CASE ~Newer(t, r.key, r.clock)
  <2>1. /\ Has(Store(t, r), r.key) /\ RowOf(Store(t, r), r.key) = r
        /\ \A k : Has(t, k) => Has(Store(t, r), k)
    BY <1>1, StoreHas
  <2>2. u.rows = Store(t, r).rows /\ u.index = Store(t, r).index
    BY <1>3, <1>5
  <2>3. r.clock >= r.clock
    BY <1>1
  <2> HIDE DEF u
  <2>4. QED
    BY <2>1, <2>2, <2>3 DEF Has, RowOf, u
<1>6. QED
  BY <1>4, <1>5

\* A step after which every table still has what it had.
NothingGoes == \A m \in Node, k \in Key : Has(table[m], k) => Has(table[m]', k)

LEMMA HoldsKept ==
    ASSUME IInv, IInv', [Next]_vars, NothingGoes, NEW m \in Node, NEW r \in RowType, Holds(m, r)
    PROVE  Holds(m, r)'
<1>1. Good(table[m]) /\ Good(table'[m])
  BY DEF IInv, Sound, TablesWellFormed, Good
<1>2. NotOlder(table[m], table'[m])
  BY StepNotOlder
<1>3. r.key \in Key /\ r.clock \in Nat
  BY DEF RowType
<1>4. Has(table[m], r.key) /\ Has(table'[m], r.key) /\ RowOf(table[m], r.key).clock >= r.clock
  BY <1>3 DEF Holds, NothingGoes
<1>5. RowOf(table[m], r.key) \in RowType /\ RowOf(table'[m], r.key) \in RowType
  BY <1>1, <1>4, HasIsPresent DEF Good, WellFormed, Present
<1>6. RowOf(table'[m], r.key).clock >= RowOf(table[m], r.key).clock
  BY <1>2, <1>3, <1>4 DEF NotOlder
<1>7. RowOf(table'[m], r.key).clock >= r.clock
  BY <1>3, <1>4, <1>5, <1>6 DEF RowType
<1>8. QED
  BY <1>4, <1>7 DEF Holds

\* Rows that leave pending enter the table.
PendingLands ==
    \A m \in Node, q \in RowType :
        q \in Listed(pending[m]) => q \in Listed(pending'[m]) \/ Holds(m, q)'

LEMMA CoveredKept ==
    ASSUME IInv, IInv', [Next]_vars, NothingGoes, PendingLands
    PROVE  \A m \in Node, r \in RowType : Covered(m, r) => Covered(m, r)'
<1> SUFFICES ASSUME NEW m \in Node, NEW r \in RowType, Covered(m, r) PROVE Covered(m, r)'
  OBVIOUS
<1>1. CASE Holds(m, r)
  BY <1>1, HoldsKept DEF Covered
<1>2. CASE NotOlderIn(Listed(pending[m]), r)
  <2>1. PICK q \in Listed(pending[m]) : q.key = r.key /\ q.clock >= r.clock
    BY <1>2 DEF NotOlderIn
  <2>2. q \in RowType
    BY RowsTyped, TableRowsAreRows DEF IInv
  <2>3. CASE q \in Listed(pending'[m])
    BY <2>1, <2>3 DEF Covered, NotOlderIn
  <2>4. CASE Holds(m, q)'
    <3>1. Has(table'[m], r.key) /\ RowOf(table'[m], r.key).clock >= q.clock
      BY <2>1, <2>4 DEF Holds
    <3>2. table'[m] \in Table /\ IndexConsistent(table'[m])
      BY DEF IInv, Sound, TablesWellFormed, WellFormed
    <3>3. RowOf(table'[m], r.key) \in RowType
      BY <3>1, <3>2, HasIsPresent DEF Present
    <3>4. RowOf(table'[m], r.key).clock >= r.clock
      BY <2>1, <2>2, <3>1, <3>3 DEF RowType
    <3>5. QED
      BY <3>1, <3>4 DEF Covered, Holds
  <2>5. QED
    BY <2>2, <2>3, <2>4 DEF PendingLands
<1>3. QED
  BY <1>1, <1>2 DEF Covered

\* New rows are newer than all versions their owners handed out.
NewIsNew ==
    \A r \in AllRows' : r \in AllRows \/ (r \in RowType /\ r.clock >= table[r.owner].clock)

LEMMA GapsKept ==
    ASSUME IInv, IInv', [Next]_vars, NothingGoes, PendingLands, NewIsNew
    PROVE  \A n \in Node, pulled \in SUBSET AllRows :
               NoGap(n, pulled) =>
                   \A p \in pulled, r \in AllRows' :
                       r.owner = p.owner /\ r.clock <= p.clock =>
                           Covered(n, r)' \/ NotOlderIn(pulled, r)
<1> SUFFICES ASSUME NEW n \in Node, NEW pulled \in SUBSET AllRows, NoGap(n, pulled),
                    NEW p \in pulled, NEW r \in AllRows', r.owner = p.owner, r.clock <= p.clock
             PROVE  Covered(n, r)' \/ NotOlderIn(pulled, r)
  OBVIOUS
<1>1. p \in AllRows /\ p \in RowType /\ p.clock < table[p.owner].clock /\ p.owner \in Node
  BY RowsTyped DEF IInv, VersionsAreOld, RowType
<1>2. r \in RowType
  BY RowsTyped DEF IInv, NewIsNew
<1>3. table[p.owner].clock \in Nat
  BY <1>1 DEF IInv, Sound, Table
<1>4. r \in AllRows
  BY <1>1, <1>2, <1>3 DEF NewIsNew, RowType
<1>5. QED
  BY <1>2, <1>4, CoveredKept DEF NoGap

\* A row covered is covered in every older version of it.
LEMMA OlderIsCovered ==
    ASSUME IInv, NEW n \in Node, NEW x \in RowType, Covered(n, x),
           NEW r \in RowType, x.key = r.key, x.clock >= r.clock
    PROVE  Covered(n, r)
<1>1. x.clock \in Nat /\ r.clock \in Nat
  BY DEF RowType
<1>2. CASE Holds(n, x)
  <2>1. Has(table[n], r.key) /\ RowOf(table[n], r.key).clock >= x.clock
    BY <1>2 DEF Holds
  <2>2. RowOf(table[n], r.key) \in RowType
    BY <2>1, GoodTables, HasIsPresent DEF IInv, Good, WellFormed, Present
  <2>3. RowOf(table[n], r.key).clock >= r.clock
    BY <1>1, <2>1, <2>2 DEF RowType
  <2>4. QED
    BY <2>1, <2>3 DEF Covered, Holds
<1>3. CASE NotOlderIn(Listed(pending[n]), x)
  <2>1. PICK q \in Listed(pending[n]) : q.key = x.key /\ q.clock >= x.clock
    BY <1>3 DEF NotOlderIn
  <2>2. q \in RowType
    BY RowsTyped, TableRowsAreRows DEF IInv
  <2>3. q.key = r.key /\ q.clock >= r.clock
    BY <1>1, <2>1, <2>2 DEF RowType
  <2>4. QED
    BY <2>3 DEF Covered, NotOlderIn
<1>4. QED
  BY <1>2, <1>3 DEF Covered

\* The rows pulled from m leave no gap at n, if m holds what it is asked for.
LEMMA PulledNoGap ==
    ASSUME IInv, Complete, NEW n \in Node, NEW m \in Node, NEW v,
           \A o \in Node : Seen(v, o) = Seen(vc[n], o),
           \A p \in PullRows(table[m], v) : p.owner = m \/ pending[m] = <<>>
    PROVE  NoGap(n, PullRows(table[m], v))
<1> DEFINE pulled == PullRows(table[m], v)
<1> SUFFICES ASSUME NEW p \in pulled, NEW r \in AllRows, r.owner = p.owner, r.clock <= p.clock
             PROVE  Covered(n, r) \/ NotOlderIn(pulled, r)
  BY DEF NoGap
<1>1. table[m] \in Table /\ IndexConsistent(table[m])
  BY GoodTables DEF IInv, Good, WellFormed
<1>2. p \in Contents(table[m]) /\ p \in RowType /\ r \in RowType
  BY <1>1, PulledRows, RowsTyped DEF IInv
<1>3. p.clock \in Nat /\ r.clock \in Nat /\ p.owner \in Node
  BY <1>2 DEF RowType
<1>4. Holds(m, r)
  <2>1. CASE p.owner = m
    BY <2>1 DEF Complete, OwnersHold
  <2>2. CASE p.owner # m
    <3>1. Seen(vc[m], p.owner) >= p.clock
      BY <1>2, <2>2 DEF Complete, ForeignSeen
    <3>2. Seen(vc[m], p.owner) \in Int
      BY <1>3, SeenTyped DEF Complete, VectorsAreOld
    <3>3. Covered(m, r)
      BY <1>3, <3>1, <3>2 DEF Complete, SeenCovered
    <3>4. Listed(pending[m]) = {}
      BY <2>2 DEF Listed
    <3>5. QED
      BY <3>3, <3>4 DEF Covered, NotOlderIn
  <2>3. QED
    BY <2>1, <2>2
<1> DEFINE x == RowOf(table[m], r.key)
           i == table[m].index[r.key]
<1>5. x.clock >= r.clock /\ Has(table[m], r.key)
  BY <1>4 DEF Holds
<1>6. /\ x \in RowType /\ x.key = r.key
      /\ i \in 1..Size(table[m]) /\ x = table[m].rows[i]
  BY <1>1, <1>5, HasIsPresent DEF Present, RowOf
<1>7. x \in AllRows
  BY <1>6, TableRowsAreRows DEF Contents
<1> HIDE DEF x, i
<1>8. CASE Seen(v, x.owner) < x.clock
  <2>1. x \in pulled
    BY <1>6, <1>8 DEF PullRows
  <2>2. QED
    BY <1>5, <1>6, <2>1 DEF NotOlderIn
<1>9. CASE ~(Seen(v, x.owner) < x.clock)
  <2>1. Seen(vc[n], x.owner) = Seen(v, x.owner) /\ x.clock \in Nat
    BY <1>6 DEF RowType
  <2>2. Seen(vc[n], x.owner) \in Int
    BY <1>6, SeenTyped DEF Complete, VectorsAreOld, RowType
  <2>3. Covered(n, x)
    BY <1>7, <1>9, <2>1, <2>2 DEF Complete, SeenCovered
  <2>4. QED
    BY <1>2, <1>5, <1>6, <2>3, OlderIsCovered
<1>10. QED
  BY <1>8, <1>9

\* The step of a mixer: tables and vectors stay, rows move between lists.
LEMMA MoveComplete ==
    ASSUME IInv, IInv', [Next]_vars, Complete, UNCHANGED <<table, vc>>, AllRows' \subseteq AllRows,
           \A n \in Node : Listed(pending[n]) \subseteq Listed(pending'[n]),
           \A n \in Node : NoGap(n, Listed(pending'[n])) /\ NoGap(n, Listed(mixed')),
           \A n \in Node : Listed(pending'[n]) \subseteq AllRows /\ Listed(mixed') \subseteq AllRows,
           \A msg \in flight' : msg.to \in Node /\ msg.rows \subseteq AllRows
                                  /\ NoGap(msg.to, msg.rows)
    PROVE  Complete'
<1>1. NothingGoes /\ PendingLands /\ NewIsNew
  BY DEF NothingGoes, PendingLands, NewIsNew
<1>2. VectorsAreOld'
  BY DEF Complete, VectorsAreOld
<1>3. OwnersHold'
  BY DEF Complete, OwnersHold, Holds
<1>4. ForeignSeen'
  BY DEF Complete, ForeignSeen
<1>5. \A m \in Node, r \in RowType : Covered(m, r) => Covered(m, r)'
  BY <1>1, CoveredKept
<1>6. SeenCovered'
  BY <1>5, RowsTyped DEF Complete, SeenCovered, IInv
<1>7. \A n \in Node, pulled \in SUBSET AllRows :
          NoGap(n, pulled) =>
              \A p \in pulled, r \in AllRows' :
                  r.owner = p.owner /\ r.clock <= p.clock => Covered(n, r)' \/ NotOlderIn(pulled, r)
  BY <1>1, GapsKept
<1>8. \A n \in Node : NoGap(n, Listed(pending[n]))' /\ NoGap(n, Listed(mixed))'
  <2> SUFFICES ASSUME NEW n \in Node
               PROVE  NoGap(n, Listed(pending[n]))' /\ NoGap(n, Listed(mixed))'
    OBVIOUS
  <2>1. Listed(pending'[n]) \in SUBSET AllRows /\ Listed(mixed') \in SUBSET AllRows
    OBVIOUS
  <2>2. NoGap(n, Listed(pending[n]))'
    BY <1>7, <2>1 DEF NoGap, NotOlderIn
  <2>3. NoGap(n, Listed(mixed))'
    BY <1>7, <2>1 DEF NoGap, NotOlderIn
  <2>4. QED
    BY <2>2, <2>3
<1>9. \A msg \in flight' : NoGap(msg.to, msg.rows)'
  BY <1>7 DEF NoGap, NotOlderIn
<1>10. QED
  BY <1>2, <1>3, <1>4, <1>6, <1>8, <1>9 DEF Complete, NoGaps

---------------------------------------------------------------------------
(* The steps, one by one.                                                  *)

\* A write of node n.
LEMMA WriteComplete ==
    ASSUME IInv, IInv', [Next]_vars, Complete,
           NEW n \in Node, NEW k \in Key, NEW v \in Write,
           table' = [table EXCEPT ![n] = Tick(Store(@, Row(k, n, @.clock, v)))],
           UNCHANGED <<vc, mixed, pending, flight>>
    PROVE  Complete'
<1> PICK q : q = Row(k, n, table[n].clock, v)
  OBVIOUS
<1> DEFINE t == Tick(Store(table[n], q))
<1>1. Good(table[n]) /\ table \in [Node -> Table]
  BY GoodTables DEF IInv, Sound
<1>2. /\ q \in RowType /\ t.clock = table[n].clock + 1
      /\ Contents(t) \subseteq Contents(table[n]) \cup {q}
  BY <1>1, WriteKeeps
<1>3. Has(t, k) /\ RowOf(t, k) = q /\ \A j : Has(table[n], j) => Has(t, j)
  BY <1>1, WriteHas
<1>4. q.owner = n /\ q.clock = table[n].clock /\ q.key = k
  BY DEF Row
<1>5. table' = [table EXCEPT ![n] = t]
  BY <1>1
<1> HIDE DEF t
<1>6. \A m \in Node : table'[m] = IF m = n THEN t ELSE table[m]
  BY <1>1, <1>5
<1>7. AllRows' \subseteq AllRows \cup {q}
  <2>1. \A m \in Node : Contents(table'[m]) \subseteq Contents(table[m]) \cup {q}
    BY <1>2, <1>6
  <2>2. QED
    BY <2>1 DEF AllRows
<1>8. \A o \in Node : table[o].clock \in Nat /\ table'[o].clock \in Nat
                        /\ table[o].clock <= table'[o].clock
  <2>1. \A o \in Node : table[o].clock \in Nat
    BY <1>1 DEF Table
  <2>2. QED
    BY <1>2, <1>6, <2>1
<1>9. NothingGoes
  BY <1>3, <1>6 DEF NothingGoes
<1>10. PendingLands
  BY DEF PendingLands
<1>11. NewIsNew
  <2>1. q.clock >= table[q.owner].clock
    BY <1>4, <1>8
  <2>2. QED
    BY <1>2, <1>7, <2>1 DEF NewIsNew
<1>12. VectorsAreOld'
  <2>1. \A m, o \in Node : Seen(vc[m], o) < table[o].clock /\ Seen(vc[m], o) \in Int
    BY SeenTyped DEF Complete, VectorsAreOld
  <2>2. \A m, o \in Node : Seen(vc[m], o) < table'[o].clock
    BY <1>8, <2>1
  <2>3. QED
    BY <2>2 DEF Complete, VectorsAreOld
<1>13. OwnersHold'
  <2>1. ASSUME NEW r \in AllRows PROVE Holds(r.owner, r)'
    <3>1. r \in RowType /\ r.owner \in Node /\ Holds(r.owner, r)
      BY <2>1, RowsTyped DEF IInv, Complete, OwnersHold, RowType
    <3>2. QED
      BY <1>9, <3>1, HoldsKept
  <2>2. Holds(q.owner, q)'
    <3>1. q.clock >= q.clock
      BY <1>4, <1>8
    <3>2. QED
      BY <1>3, <1>4, <1>6, <3>1 DEF Holds
  <2>3. QED
    BY <1>7, <2>1, <2>2 DEF OwnersHold
<1>14. ForeignSeen'
  BY <1>2, <1>4, <1>6 DEF Complete, ForeignSeen
<1>15. SeenCovered'
  <2> SUFFICES ASSUME NEW m \in Node, NEW r \in AllRows', Seen(vc[m], r.owner) >= r.clock
               PROVE  Covered(m, r)'
    BY DEF SeenCovered
  <2>1. r \in RowType /\ r.owner \in Node /\ r.clock \in Nat
    <3>1. r \in RowType
      BY <1>11, RowsTyped DEF IInv, NewIsNew
    <3>2. QED
      BY <3>1 DEF RowType
  <2>2. Seen(vc[m], r.owner) < table[r.owner].clock /\ Seen(vc[m], r.owner) \in Int
    BY <2>1, SeenTyped DEF Complete, VectorsAreOld
  <2>3. r \in AllRows
    BY <1>8, <1>11, <2>1, <2>2 DEF NewIsNew
  <2>4. QED
    BY <1>9, <1>10, <2>1, <2>3, CoveredKept DEF Complete, SeenCovered
<1>16. \A m \in Node, pulled \in SUBSET AllRows :
          NoGap(m, pulled) =>
              \A p \in pulled, r \in AllRows' :
                  r.owner = p.owner /\ r.clock <= p.clock => Covered(m, r)' \/ NotOlderIn(pulled, r)
  BY <1>9, <1>10, <1>11, GapsKept
<1>17. NoGaps'
  <2>1. ASSUME NEW m \in Node PROVE NoGap(m, Listed(pending[m]))' /\ NoGap(m, Listed(mixed))'
    <3>1. Listed(pending[m]) \in SUBSET AllRows /\ Listed(mixed) \in SUBSET AllRows
      BY DEF AllRows
    <3>2. NoGap(m, Listed(pending[m])) /\ NoGap(m, Listed(mixed))
      BY DEF Complete, NoGaps
    <3>3. Listed(pending'[m]) = Listed(pending[m]) /\ Listed(mixed') = Listed(mixed)
      OBVIOUS
    <3>4. NoGap(m, Listed(pending[m]))'
      BY <1>16, <3>1, <3>2, <3>3 DEF NoGap, NotOlderIn
    <3>5. NoGap(m, Listed(mixed))'
      BY <1>16, <3>1, <3>2, <3>3 DEF NoGap, NotOlderIn
    <3>6. QED
      BY <3>4, <3>5
  <2>2. ASSUME NEW msg \in flight' PROVE NoGap(msg.to, msg.rows)'
    <3>1. msg \in flight /\ msg.to \in Node /\ NoGap(msg.to, msg.rows)
      BY DEF Complete, NoGaps, IInv, Sound
    <3>2. msg.rows \in SUBSET AllRows
      BY <3>1 DEF AllRows
    <3>3. PICK m \in Node, pulled \in SUBSET AllRows : m = msg.to /\ pulled = msg.rows
      BY <3>1, <3>2
    <3>4. NoGap(m, pulled)
      BY <3>1, <3>3
    <3>5. NoGap(m, pulled)'
      BY <1>16, <3>4 DEF NoGap, NotOlderIn
    <3>6. QED
      BY <3>3, <3>5
  <2>3. QED
    BY <2>1, <2>2 DEF NoGaps
<1>18. QED
  BY <1>12, <1>13, <1>14, <1>15, <1>17 DEF Complete

\* A step of a mixer that leaves the lists of rows, or drops the mixed one.
LEMMA IdleComplete ==
    ASSUME IInv, IInv', [Next]_vars, Complete,
           UNCHANGED <<table, vc, pending, flight>>, mixed' = mixed \/ mixed' = <<>>
    PROVE  Complete'
<1>1. Listed(<<>>) = {}
  BY DEF Listed
<1>2. AllRows' \subseteq AllRows
  BY <1>1 DEF AllRows
<1>3. ASSUME NEW n \in Node
      PROVE  /\ NoGap(n, Listed(pending'[n])) /\ NoGap(n, Listed(mixed'))
             /\ Listed(pending'[n]) \subseteq AllRows /\ Listed(mixed') \subseteq AllRows
  <2>1. NoGap(n, Listed(pending'[n])) /\ Listed(pending'[n]) \subseteq AllRows
    BY DEF Complete, NoGaps, AllRows
  <2>2. NoGap(n, Listed(mixed)) /\ Listed(mixed) \subseteq AllRows
    BY DEF Complete, NoGaps, AllRows
  <2>3. NoGap(n, {})
    BY DEF NoGap
  <2>4. QED
    BY <1>1, <2>1, <2>2, <2>3
<1>4. ASSUME NEW msg \in flight'
      PROVE  msg.to \in Node /\ msg.rows \subseteq AllRows /\ NoGap(msg.to, msg.rows)
  BY DEF Complete, NoGaps, AllRows, IInv, Sound
<1>5. \A n \in Node : Listed(pending[n]) \subseteq Listed(pending'[n])
  OBVIOUS
<1>6. QED
  BY <1>2, <1>3, <1>4, <1>5, MoveComplete

LEMMA GatherComplete ==
    ASSUME IInv, IInv', [Next]_vars, Complete, RoundsAgree, rounds = 0 \/ pulls = 0,
           NEW m \in Node, Gather(m)
    PROVE  Complete' /\ RoundsAgree'
<1> DEFINE pulled == PullRows(table[m], vc[m])
<1>1. /\ UNCHANGED <<table, vc, pending, flight, rounds, pulls, deletes, phase>>
      /\ mixed' = Concat(mixed, pulled)
      /\ phase = "gather"
  BY DEF Gather, gossipVars
<1>2. pulled \in SUBSET RowType /\ pulled \subseteq Contents(table[m]) /\ mixed \in Lists
  BY PulledRows DEF IInv, Sound
<1>3. pulls = 0
  BY <1>1 DEF RoundsAgree, Counters
<1>4. \A n, o \in Node : Seen(vc[m], o) = Seen(vc[n], o)
  BY <1>1, <1>3 DEF RoundsAgree, Counters
<1>5. ASSUME NEW p \in pulled PROVE p.owner = m
  <2>1. p \in Contents(table[m]) /\ Seen(vc[m], p.owner) < p.clock /\ p \in RowType
    BY <1>2, <1>5 DEF PullRows
  <2>2. p.clock \in Nat /\ Seen(vc[m], p.owner) \in Int
    BY <2>1, SeenTyped DEF RowType, Complete, VectorsAreOld
  <2>3. QED
    BY <2>1, <2>2 DEF Complete, ForeignSeen
<1>6. ASSUME NEW n \in Node PROVE NoGap(n, pulled)
  BY <1>4, <1>5, PulledNoGap
<1> HIDE DEF pulled
<1>7. Listed(mixed') \subseteq Listed(mixed) \cup pulled
  BY <1>1, <1>2, ConcatLists
<1>8. Listed(mixed) \cup pulled \subseteq Listed(mixed')
  BY <1>1, <1>2, ConcatHasBoth
<1>9. pulled \subseteq AllRows /\ Listed(mixed') \subseteq AllRows
  BY <1>2, <1>7, TableRowsAreRows DEF AllRows
<1>10. AllRows' \subseteq AllRows
  BY <1>1, <1>9 DEF AllRows
<1>11. ASSUME NEW n \in Node
       PROVE  /\ NoGap(n, Listed(pending'[n])) /\ NoGap(n, Listed(mixed'))
              /\ Listed(pending'[n]) \subseteq AllRows
  <2>1. NoGap(n, Listed(pending[n])) /\ NoGap(n, Listed(mixed))
    BY DEF Complete, NoGaps
  <2>2. Listed(mixed') = Listed(mixed) \cup pulled
    BY <1>7, <1>8
  <2>3. NoGap(n, Listed(mixed) \cup pulled)
    BY <1>6, <2>1 DEF NoGap, NotOlderIn
  <2>4. QED
    BY <1>1, <2>1, <2>2, <2>3, TableRowsAreRows
<1>12. ASSUME NEW msg \in flight'
       PROVE  msg.to \in Node /\ msg.rows \subseteq AllRows /\ NoGap(msg.to, msg.rows)
  BY <1>1 DEF Complete, NoGaps, AllRows, IInv, Sound
<1>13. \A n \in Node : Listed(pending[n]) \subseteq Listed(pending'[n])
  BY <1>1
<1>14. Complete'
  BY <1>1, <1>9, <1>10, <1>11, <1>12, <1>13, MoveComplete
<1>15. RoundsAgree'
  BY <1>1, <1>3 DEF RoundsAgree, Counters
<1>16. QED
  BY <1>14, <1>15

LEMMA PutComplete ==
    ASSUME IInv, IInv', [Next]_vars, Complete, RoundsAgree, NEW n \in Node, Put(n)
    PROVE  Complete' /\ RoundsAgree'
<1>1. /\ UNCHANGED <<table, vc, flight, mixed, rounds, pulls, deletes, phase>>
      /\ phase = "put" /\ n \in todo /\ todo' = todo \ {n}
      /\ pending[n] = <<>>
      /\ pending' = [pending EXCEPT ![n] = mixed]
  BY DEF Put, gossipVars
<1>2. Listed(<<>>) = {} /\ pending \in [Node -> Lists]
  BY DEF Listed, IInv, Sound
<1>3. \A m \in Node : pending'[m] = IF m = n THEN mixed ELSE pending[m]
  BY <1>1, <1>2
<1>4. ASSUME NEW m \in Node
      PROVE  /\ Listed(pending[m]) \subseteq Listed(pending'[m])
             /\ NoGap(m, Listed(pending'[m])) /\ NoGap(m, Listed(mixed'))
             /\ Listed(pending'[m]) \subseteq AllRows /\ Listed(mixed') \subseteq AllRows
  <2>1. NoGap(m, Listed(pending[m])) /\ NoGap(m, Listed(mixed))
    BY DEF Complete, NoGaps
  <2>2. Listed(pending[m]) \subseteq AllRows /\ Listed(mixed) \subseteq AllRows
    BY DEF AllRows
  <2>3. QED
    BY <1>1, <1>2, <1>3, <2>1, <2>2
<1>5. AllRows' \subseteq AllRows
  BY <1>1, <1>3 DEF AllRows
<1>6. ASSUME NEW msg \in flight'
      PROVE  msg.to \in Node /\ msg.rows \subseteq AllRows /\ NoGap(msg.to, msg.rows)
  BY <1>1 DEF Complete, NoGaps, AllRows, IInv, Sound
<1>7. Complete'
  BY <1>1, <1>4, <1>5, <1>6, MoveComplete
<1>8. RoundsAgree'
  BY <1>1, <1>3 DEF RoundsAgree, Counters
<1>9. QED
  BY <1>7, <1>8

\* The other steps of the linear mixer; the end of a round makes the vectors
\* equal, since every node took all rows and no vector is ahead of them.
LEMMA RoundComplete ==
    ASSUME IInv, IInv', [Next]_vars, Complete, RoundsAgree, rounds' = 0 \/ pulls' = 0,
           StartRound \/ StartPut \/ EndRound
    PROVE  Complete' /\ RoundsAgree'
<1>1. UNCHANGED <<table, vc, pending, flight, pulls, deletes>> /\ (mixed' = mixed \/ mixed' = <<>>)
  BY DEF StartRound, StartPut, EndRound, gossipVars
<1>2. Complete'
  BY <1>1, IdleComplete
<1>3. CASE StartRound
  <2>1. /\ phase = "idle" /\ phase' = "gather" /\ mixed' = <<>>
        /\ rounds' = rounds + 1 /\ rounds \in Nat
    BY <1>3 DEF StartRound, RoundsAgree, Counters
  <2>2. rounds' \in Nat /\ rounds' > 0
    BY <2>1
  <2>3. RoundsAgree'
    BY <1>1, <2>1, <2>2 DEF RoundsAgree, Counters
  <2>4. QED
    BY <1>2, <2>3
<1>4. CASE StartPut
  <2>1. /\ phase = "gather" /\ phase' = "put" /\ todo' = Node
        /\ UNCHANGED <<rounds, mixed>>
    BY <1>4 DEF StartPut
  <2>2. Listed(<<>>) = {}
    BY DEF Listed
  <2>3. \A n, m, o \in Node : pulls = 0 => Seen(vc[n], o) <= Seen(vc[m], o)
    <3>1. \A n, o \in Node : Seen(vc[n], o) \in Int
      BY SeenTyped DEF Complete, VectorsAreOld
    <3>2. QED
      BY <2>1, <3>1 DEF RoundsAgree, Counters
  <2>4. RoundsAgree'
    BY <1>1, <2>1, <2>2, <2>3 DEF RoundsAgree, Counters
  <2>5. QED
    BY <1>2, <2>4
<1>5. CASE EndRound
  <2>1. /\ phase = "put" /\ todo = {} /\ phase' = "idle" /\ mixed' = <<>>
        /\ \A n \in Node : pending[n] = <<>>
        /\ UNCHANGED <<rounds, todo>>
    BY <1>5 DEF EndRound
  <2>2. Listed(<<>>) = {}
    BY DEF Listed
  <2>3. ASSUME pulls = 0, NEW n \in Node, NEW m \in Node, NEW o \in Node
        PROVE  Seen(vc[n], o) <= Seen(vc[m], o)
    <3>1. /\ Seen(vc[n], o) <= Seen(vc[m], o)
          \/ \E p \in Listed(mixed) : p.owner = o /\ p.clock = Seen(vc[n], o)
      BY <2>1, <2>3 DEF RoundsAgree, Counters
    <3>2. \A p \in Listed(mixed) : Seen(vc[m], p.owner) >= p.clock \/ p \in Listed(pending[m])
      BY <2>1, <2>3 DEF RoundsAgree, Counters
    <3>3. Seen(vc[m], o) \in Int /\ Seen(vc[n], o) \in Int
      BY SeenTyped DEF Complete, VectorsAreOld
    <3>4. QED
      BY <2>1, <2>2, <3>1, <3>2, <3>3
  <2>4. \A n, m, o \in Node : pulls = 0 => Seen(vc[n], o) = Seen(vc[m], o)
    <3>1. \A n, o \in Node : Seen(vc[n], o) \in Int
      BY SeenTyped DEF Complete, VectorsAreOld
    <3>2. QED
      BY <2>3, <3>1
  <2>5. RoundsAgree'
    BY <1>1, <2>1, <2>4 DEF RoundsAgree, Counters
  <2>6. QED
    BY <1>2, <2>5
<1>6. QED
  BY <1>3, <1>4, <1>5

LEMMA PullComplete ==
    ASSUME IInv, IInv', [Next]_vars, Complete, RoundsAgree, rounds' = 0 \/ pulls' = 0,
           NEW n \in Node, NEW m \in Node, Pull(n, m)
    PROVE  Complete' /\ RoundsAgree'
<1> DEFINE pulled == PullRows(table[m], vc[n])
<1>1. /\ UNCHANGED <<table, vc, pending, mixed, phase, rounds, deletes, todo>>
      /\ pulls' = pulls + 1 /\ pending[m] = <<>>
      /\ flight' = flight \cup {[to |-> n, rows |-> pulled]}
  BY DEF Pull, mixerVars
<1>2. pulled \in SUBSET RowType /\ pulled \subseteq Contents(table[m])
  BY PulledRows DEF IInv, Sound
<1>3. NoGap(n, pulled)
  BY <1>1, PulledNoGap
<1> HIDE DEF pulled
<1>4. AllRows' \subseteq AllRows
  BY <1>1, <1>2 DEF AllRows
<1>5. ASSUME NEW msg \in flight'
      PROVE  msg.to \in Node /\ msg.rows \subseteq AllRows /\ NoGap(msg.to, msg.rows)
  <2>1. CASE msg \in flight
    BY <2>1 DEF Complete, NoGaps, AllRows, IInv, Sound
  <2>2. CASE msg = [to |-> n, rows |-> pulled]
    BY <1>2, <1>3, <2>2, TableRowsAreRows
  <2>3. QED
    BY <1>1, <2>1, <2>2
<1>6. \A k \in Node :
          /\ Listed(pending[k]) \subseteq Listed(pending'[k])
          /\ NoGap(k, Listed(pending'[k])) /\ NoGap(k, Listed(mixed'))
          /\ Listed(pending'[k]) \subseteq AllRows /\ Listed(mixed') \subseteq AllRows
  BY <1>1 DEF Complete, NoGaps, AllRows
<1>7. Complete'
  BY <1>1, <1>4, <1>5, <1>6, MoveComplete
<1>8. pulls' \in Nat /\ pulls' # 0 /\ rounds = 0
  BY <1>1 DEF RoundsAgree, Counters
<1>9. RoundsAgree'
  BY <1>1, <1>8 DEF RoundsAgree, Counters
<1>10. QED
  BY <1>7, <1>9

LEMMA PushComplete ==
    ASSUME IInv, IInv', [Next]_vars, Complete, RoundsAgree, NEW msg \in flight, Push(msg)
    PROVE  Complete' /\ RoundsAgree'
<1>1. PICK n \in Node, pulled \in SUBSET RowType : n = msg.to /\ pulled = msg.rows
  BY DEF IInv, Sound
<1> DEFINE l == Concat(<<>>, pulled)
<1>2. /\ UNCHANGED <<table, vc, flight, mixed, phase, rounds, pulls, deletes, todo>>
      /\ pending[n] = <<>>
      /\ pending' = [pending EXCEPT ![n] = l]
  BY <1>1 DEF Push, mixerVars, gossipVars
<1>3. <<>> \in Lists /\ Listed(<<>>) = {} /\ pending \in [Node -> Lists]
  BY DEF Lists, Listed, IInv, Sound
<1>4. Listed(l) = pulled
  <2>1. PICK e \in Lists : e = <<>> /\ Listed(e) = {}
    BY <1>3
  <2>2. Listed(Concat(e, pulled)) \subseteq Listed(e) \cup pulled
    BY ConcatLists
  <2>3. Listed(e) \cup pulled \subseteq Listed(Concat(e, pulled))
    BY ConcatHasBoth
  <2> QED BY <2>1, <2>2, <2>3
<1> HIDE DEF l
<1>5. \A m \in Node : pending'[m] = IF m = n THEN l ELSE pending[m]
  BY <1>2, <1>3
<1>6. NoGap(n, pulled) /\ pulled \subseteq AllRows
  BY <1>1 DEF Complete, NoGaps, AllRows
<1>7. ASSUME NEW m \in Node
      PROVE  /\ Listed(pending[m]) \subseteq Listed(pending'[m])
             /\ NoGap(m, Listed(pending'[m])) /\ NoGap(m, Listed(mixed'))
             /\ Listed(pending'[m]) \subseteq AllRows /\ Listed(mixed') \subseteq AllRows
  <2>1. NoGap(m, Listed(pending[m])) /\ NoGap(m, Listed(mixed))
    BY DEF Complete, NoGaps
  <2>2. Listed(pending[m]) \subseteq AllRows /\ Listed(mixed) \subseteq AllRows
    BY DEF AllRows
  <2>3. QED
    BY <1>2, <1>3, <1>4, <1>5, <1>6, <2>1, <2>2
<1>8. AllRows' \subseteq AllRows
  BY <1>2, <1>7 DEF AllRows
<1>9. ASSUME NEW a \in flight'
      PROVE  a.to \in Node /\ a.rows \subseteq AllRows /\ NoGap(a.to, a.rows)
  BY <1>2 DEF Complete, NoGaps, AllRows, IInv, Sound
<1>10. Complete'
  BY <1>2, <1>7, <1>8, <1>9, MoveComplete
<1>11. pulls # 0
  BY DEF RoundsAgree, Counters
<1>12. RoundsAgree'
  BY <1>2, <1>11 DEF RoundsAgree, Counters
<1>13. QED
  BY <1>10, <1>12

LEMMA ApplyRowComplete ==
    ASSUME IInv, IInv', [Next]_vars, Complete, RoundsAgree,
           NEW n \in Node, pending[n] # <<>>, NEW r \in Head(pending[n]), ApplyRow(n, r)
    PROVE  Complete' /\ RoundsAgree'
<1> DEFINE t == SetRow(table[n], r)
           v == Advance(vc[n], r)
           l == IF Head(pending[n]) = {r} THEN Tail(pending[n])
                ELSE <<Head(pending[n]) \ {r}>> \o Tail(pending[n])
<1>1. /\ UNCHANGED <<mixed, flight, phase, rounds, pulls, deletes, todo>>
      /\ table' = [table EXCEPT ![n] = t]
      /\ vc' = [vc EXCEPT ![n] = v]
      /\ pending' = [pending EXCEPT ![n] = l]
  BY DEF ApplyRow, mixerVars, gossipVars
<1>2. /\ pending \in [Node -> Lists]
      /\ table \in [Node -> Table]
      /\ vc \in [Node -> Vectors]
      /\ Good(table[n])
  BY GoodTables DEF IInv, Sound, Complete, VectorsAreOld
<1>3. /\ r \in RowType /\ r \in AllRows /\ r \in Listed(pending[n])
      /\ r.clock \in Nat /\ r.owner \in Node
  <2>1. r \in RowType /\ r \in Listed(pending[n]) /\ r \in AllRows
    BY <1>2, HeadIsListed, TableRowsAreRows
  <2>2. QED
    BY <2>1 DEF RowType
<1>4. /\ Listed(l) \subseteq Listed(pending[n])
      /\ Listed(pending[n]) \subseteq Listed(l) \cup {r}
  BY <1>2, RestIsListed, RestHasOthers
<1>5. /\ Contents(t) \subseteq Contents(table[n]) \cup {r}
      /\ t.clock >= table[n].clock
      /\ Has(t, r.key) /\ RowOf(t, r.key).clock >= r.clock
      /\ \A j : Has(table[n], j) => Has(t, j)
  BY <1>2, <1>3, SetRowKeeps, SetRowHas
<1>6. /\ v \in Vectors
      /\ \A o \in Node : Seen(v, o) =
             IF o = r.owner /\ Seen(vc[n], o) < r.clock THEN r.clock ELSE Seen(vc[n], o)
  BY <1>2, <1>3, AdvanceSees
<1> HIDE DEF t, v, l
<1>7. \A m \in Node : /\ table'[m] = IF m = n THEN t ELSE table[m]
                      /\ vc'[m] = IF m = n THEN v ELSE vc[m]
                      /\ pending'[m] = IF m = n THEN l ELSE pending[m]
  BY <1>1, <1>2
<1>8. \A m, o \in Node : /\ Seen(vc[m], o) \in Int /\ Seen(vc'[m], o) \in Int
                         /\ Seen(vc[m], o) <= Seen(vc'[m], o)
  <2>1. \A m, o \in Node : Seen(vc[m], o) \in Int
    BY <1>2, SeenTyped
  <2>2. \A o \in Node : Seen(v, o) \in Int /\ Seen(vc[n], o) <= Seen(v, o)
    BY <1>3, <1>6, <2>1
  <2>3. \A m, o \in Node : Seen(vc'[m], o) = IF m = n THEN Seen(v, o) ELSE Seen(vc[m], o)
    BY <1>7
  <2>4. QED
    BY <2>1, <2>2, <2>3
<1>9. Holds(n, r)'
  BY <1>5, <1>7 DEF Holds
<1>10. AllRows' \subseteq AllRows
  <2>1. ASSUME NEW m \in Node
        PROVE  Contents(table'[m]) \cup Listed(pending'[m]) \subseteq AllRows
    BY <1>3, <1>4, <1>5, <1>7, TableRowsAreRows
  <2>2. QED
    BY <1>1, <2>1 DEF AllRows
<1>11. NothingGoes
  BY <1>5, <1>7 DEF NothingGoes
<1>12. PendingLands
  BY <1>4, <1>7, <1>9 DEF PendingLands
<1>13. NewIsNew
  BY <1>10 DEF NewIsNew
<1>14. \A m \in Node, x \in RowType : Covered(m, x) => Covered(m, x)'
  BY <1>11, <1>12, CoveredKept
<1>15. \A x \in AllRows' : x \in AllRows /\ x \in RowType
  BY <1>10, RowsTyped DEF IInv
<1>16. VectorsAreOld'
  <2>1. vc' \in [Node -> Vectors]
    BY <1>1, <1>2, <1>6
  <2>2. r.clock < table[r.owner].clock
    BY <1>3 DEF IInv, VersionsAreOld
  <2>3. \A o \in Node : table[o].clock \in Nat /\ table'[o].clock \in Nat
    BY DEF IInv, Sound, Table
  <2>4. \A o \in Node : table[o].clock <= table'[o].clock
    BY <1>5, <1>7, <2>3
  <2>5. ASSUME NEW m \in Node, NEW o \in Node PROVE Seen(vc'[m], o) < table[o].clock
    <3>1. Seen(vc[m], o) < table[o].clock
      BY DEF Complete, VectorsAreOld
    <3>2. Seen(vc'[m], o) = IF m = n /\ o = r.owner /\ Seen(vc[n], o) < r.clock
                            THEN r.clock ELSE Seen(vc[m], o)
      BY <1>6, <1>7
    <3>3. QED
      BY <2>2, <3>1, <3>2
  <2>6. ASSUME NEW m \in Node, NEW o \in Node PROVE Seen(vc'[m], o) < table'[o].clock
    <3>1. Seen(vc'[m], o) \in Int
      BY <1>8
    <3>2. table[o].clock \in Nat /\ table'[o].clock \in Nat /\ table[o].clock <= table'[o].clock
      BY <2>3, <2>4
    <3>3. Seen(vc'[m], o) < table[o].clock
      BY <2>5
    <3>4. QED
      BY <3>1, <3>2, <3>3
  <2>7. QED
    BY <2>1, <2>6 DEF VectorsAreOld
<1>17. OwnersHold'
  <2>1. ASSUME NEW x \in AllRows' PROVE Holds(x.owner, x)'
    <3>1. x \in RowType /\ x.owner \in Node /\ Holds(x.owner, x)
      BY <1>15 DEF Complete, OwnersHold, RowType
    <3>2. QED
      BY <1>11, <3>1, HoldsKept
  <2>2. QED
    BY <2>1 DEF OwnersHold
<1>18. ForeignSeen'
  <2> SUFFICES ASSUME NEW m \in Node, NEW x \in Contents(table'[m]), x.owner # m
               PROVE  Seen(vc'[m], x.owner) >= x.clock
    BY DEF ForeignSeen
  <2>1. x \in Contents(table[m]) \/ (m = n /\ x = r)
    BY <1>5, <1>7
  <2>2. CASE x \in Contents(table[m])
    <3>1. Seen(vc[m], x.owner) >= x.clock
      BY <2>2 DEF Complete, ForeignSeen
    <3>2. x \in RowType
      BY <1>2, <2>2, ContentsTyped
    <3>3. x.owner \in Node /\ x.clock \in Nat
      BY <3>2 DEF RowType
    <3>4. QED
      BY <1>8, <3>1, <3>3
  <2>3. CASE m = n /\ x = r
    BY <1>3, <1>6, <1>7, <1>8, <2>3
  <2>4. QED
    BY <2>1, <2>2, <2>3
<1>19. SeenCovered'
  <2> SUFFICES ASSUME NEW m \in Node, NEW x \in AllRows', Seen(vc'[m], x.owner) >= x.clock
               PROVE  Covered(m, x)'
    BY DEF SeenCovered
  <2>1. x \in AllRows /\ x \in RowType
    BY <1>15
  <2>2. x.owner \in Node /\ x.clock \in Nat
    BY <2>1 DEF RowType
  <2>3. CASE Seen(vc[m], x.owner) >= x.clock
    BY <1>14, <2>1, <2>3 DEF Complete, SeenCovered
  <2>4. CASE ~(Seen(vc[m], x.owner) >= x.clock)
    <3>1. m = n /\ x.owner = r.owner /\ x.clock <= r.clock
      BY <1>3, <1>6, <1>7, <1>8, <2>2, <2>4
    <3>2. NoGap(n, Listed(pending[n]))
      BY DEF Complete, NoGaps
    <3>3. Covered(n, x)
      BY <1>3, <2>1, <3>1, <3>2 DEF NoGap, Covered
    <3>4. QED
      BY <1>14, <2>1, <3>1, <3>3
  <2>5. QED
    BY <2>3, <2>4
<1>20. NoGaps'
  <2>1. \A m \in Node, pulled \in SUBSET AllRows :
          NoGap(m, pulled) =>
              \A p \in pulled, x \in AllRows' :
                  x.owner = p.owner /\ x.clock <= p.clock => Covered(m, x)' \/ NotOlderIn(pulled, x)
    BY <1>11, <1>12, <1>13, GapsKept
  <2>2. ASSUME NEW m \in Node PROVE NoGap(m, Listed(mixed))'
    <3>1. Listed(mixed) \in SUBSET AllRows /\ NoGap(m, Listed(mixed))
      BY DEF AllRows, Complete, NoGaps
    <3>2. Listed(mixed') = Listed(mixed)
      BY <1>1
    <3>3. QED
      BY <2>1, <3>1, <3>2 DEF NoGap, NotOlderIn
  <2>3. ASSUME NEW m \in Node PROVE NoGap(m, Listed(pending[m]))'
    <3>1. NoGap(m, Listed(pending[m]))
      BY DEF Complete, NoGaps
    <3>2. Listed(pending'[m]) \subseteq Listed(pending[m])
      BY <1>4, <1>7
    <3>3. \A p \in Listed(pending'[m]), x \in AllRows :
              x.owner = p.owner /\ x.clock <= p.clock => Covered(m, x)
      BY <3>1, <3>2 DEF NoGap, Covered
    <3>4. \A p \in Listed(pending'[m]), x \in AllRows' :
              x.owner = p.owner /\ x.clock <= p.clock => Covered(m, x)'
      BY <1>14, <1>15, <3>3
    <3>5. QED
      BY <3>4 DEF NoGap
  <2>4. ASSUME NEW msg \in flight' PROVE NoGap(msg.to, msg.rows)'
    <3>1. msg \in flight /\ msg.to \in Node /\ NoGap(msg.to, msg.rows)
      BY <1>1 DEF Complete, NoGaps, IInv, Sound
    <3>2. msg.rows \in SUBSET AllRows
      BY <3>1 DEF AllRows
    <3>3. PICK m \in Node, pulled \in SUBSET AllRows : m = msg.to /\ pulled = msg.rows
      BY <3>1, <3>2
    <3>4. NoGap(m, pulled)
      BY <3>1, <3>3
    <3>5. NoGap(m, pulled)'
      BY <2>1, <3>4 DEF NoGap, NotOlderIn
    <3>6. QED
      BY <3>3, <3>5
  <2>5. QED
    BY <2>2, <2>3, <2>4 DEF NoGaps
<1>21. RoundsAgree'
  <2>1. pulls = 0 => phase = "put" /\ n \notin todo
    BY DEF RoundsAgree, Counters
  <2>2. ASSUME pulls = 0, NEW m \in Node, NEW k \in Node, NEW o \in Node
        PROVE  \/ Seen(vc'[m], o) <= Seen(vc'[k], o)
               \/ \E p \in Listed(mixed') : p.owner = o /\ p.clock = Seen(vc'[m], o)
    <3>1. CASE m = n /\ o = r.owner /\ Seen(vc[n], o) < r.clock
      <4>1. Seen(vc'[m], o) = r.clock
        BY <1>6, <1>7, <3>1
      <4>2. r \in Listed(mixed')
        BY <1>1, <1>3, <2>1, <2>2 DEF RoundsAgree, Counters
      <4>3. QED
        BY <3>1, <4>1, <4>2
    <3>2. CASE ~(m = n /\ o = r.owner /\ Seen(vc[n], o) < r.clock)
      <4>1. Seen(vc'[m], o) = Seen(vc[m], o)
        BY <1>6, <1>7, <3>2
      <4>2. \/ Seen(vc[m], o) <= Seen(vc[k], o)
            \/ \E p \in Listed(mixed) : p.owner = o /\ p.clock = Seen(vc[m], o)
        BY <2>1, <2>2 DEF RoundsAgree, Counters
      <4>3. CASE Seen(vc[m], o) <= Seen(vc[k], o)
        <5>1. /\ Seen(vc[m], o) \in Int /\ Seen(vc[k], o) \in Int /\ Seen(vc'[k], o) \in Int
              /\ Seen(vc[k], o) <= Seen(vc'[k], o)
          BY <1>8
        <5>2. Seen(vc'[m], o) <= Seen(vc'[k], o)
          BY <4>1, <4>3, <5>1
        <5>3. QED
          BY <5>2
      <4>4. CASE \E p \in Listed(mixed) : p.owner = o /\ p.clock = Seen(vc[m], o)
        BY <1>1, <4>1, <4>4
      <4>5. QED
        BY <4>2, <4>3, <4>4
    <3>3. QED
      BY <3>1, <3>2
  <2>3. ASSUME pulls = 0, NEW m \in Node \ todo', NEW p \in Listed(mixed')
        PROVE  Seen(vc'[m], p.owner) >= p.clock \/ p \in Listed(pending'[m])
    <3>1. Seen(vc[m], p.owner) >= p.clock \/ p \in Listed(pending[m])
      BY <1>1, <2>1, <2>3 DEF RoundsAgree, Counters
    <3>2. p \in AllRows /\ p \in RowType
      BY <1>1, RowsTyped DEF IInv, AllRows
    <3>3. p.owner \in Node /\ p.clock \in Nat
      BY <3>2 DEF RowType
    <3>4. CASE m = n /\ p = r
      BY <1>3, <1>6, <1>7, <1>8, <3>4
    <3>5. CASE ~(m = n /\ p = r)
      BY <1>4, <1>7, <1>8, <3>1, <3>3, <3>5
    <3>6. QED
      BY <3>4, <3>5
  <2>4. ASSUME pulls = 0
        PROVE  /\ \A m \in todo' : pending'[m] = <<>>
               /\ \A m \in Node : Listed(pending'[m]) \subseteq Listed(mixed')
    <3>1. /\ \A m \in todo : m # n /\ pending[m] = <<>>
          /\ \A m \in Node : Listed(pending[m]) \subseteq Listed(mixed)
      BY <2>1, <2>4 DEF RoundsAgree, Counters
    <3>2. \A m \in todo : pending'[m] = <<>>
      BY <1>1, <1>2, <3>1
    <3>3. QED
      BY <1>1, <1>4, <1>7, <3>1, <3>2
  <2>5. QED
    BY <1>1, <2>1, <2>2, <2>3, <2>4 DEF RoundsAgree, Counters
<1>22. QED
  BY <1>16, <1>17, <1>18, <1>19, <1>20, <1>21 DEF Complete

\* Before any deletion and loss, and while the nodes use one way only, it is so.
LEMMA OrderlyBefore ==
    ASSUME Counters, [Next]_vars
    PROVE  Counters' /\ (Orderly' => Orderly)
<1>1. CASE UNCHANGED <<deletes, rounds, pulls, lost>>
  BY <1>1 DEF Counters, Orderly
<1>2. ASSUME NEW n \in Node, NEW k \in Key, Delete(n, k) PROVE Counters' /\ ~Orderly'
  BY <1>2 DEF Delete, Counters, Orderly, mixerVars, gossipVars
<1>3. CASE StartRound
  BY <1>3 DEF StartRound, Counters, Orderly, gossipVars
<1>4. ASSUME NEW n \in Node, LosePut(n) PROVE Counters' /\ ~Orderly'
  BY <1>4 DEF LosePut, Counters, Orderly, gossipVars
<1>5. ASSUME NEW n \in Node, NEW m \in Node, Pull(n, m) PROVE Counters' /\ (Orderly' => Orderly)
  BY <1>5 DEF Pull, Counters, Orderly, mixerVars
<1>6. QED
  BY <1>1, <1>2, <1>3, <1>4, <1>5
     DEF Next, Local, Linear, Gossip, Apply, Loss, Set, Refresh, Gather, StartPut, Put, EndRound,
         Push, ApplyRow, mixerVars, gossipVars, vars

LEMMA InitComplete == Init => HoleInv
<1> SUFFICES ASSUME Init PROVE HoleInv
  OBVIOUS
<1>1. Contents(EmptyTable) = {} /\ Listed(<<>>) = {} /\ EmptyTable.clock = 0
  BY DEF Contents, Listed, EmptyTable, Size
<1>2. AllRows = {}
  BY <1>1 DEF Init, AllRows
<1> DEFINE none == [o \in {} |-> 0]
<1>3. none \in Vectors /\ \A o \in Node : Seen(none, o) = -1
  <2>1. none \in [{} -> Nat]
    OBVIOUS
  <2>2. QED
    BY <2>1 DEF Vectors, Seen
<1> HIDE DEF none
<1>4. vc = [n \in Node |-> none]
  BY DEF Init, none
<1>5. VectorsAreOld
  BY <1>1, <1>3, <1>4 DEF Init, VectorsAreOld
<1>6. OwnersHold /\ ForeignSeen /\ SeenCovered
  BY <1>1, <1>2 DEF Init, OwnersHold, ForeignSeen, SeenCovered
<1>7. NoGaps
  BY <1>1 DEF Init, NoGaps, NoGap
<1>8. RoundsAgree /\ Counters
  BY <1>4 DEF Init, RoundsAgree, Counters
<1>9. QED
  BY <1>5, <1>6, <1>7, <1>8 DEF HoleInv, Complete

LEMMA CompleteInductive ==
    ASSUME IInv, IInv', HoleInv, [Next]_vars PROVE HoleInv'
<1> SUFFICES ASSUME Orderly' PROVE Complete' /\ RoundsAgree'
  BY OrderlyBefore DEF HoleInv
<1>1. Orderly /\ Complete /\ RoundsAgree
  BY OrderlyBefore DEF HoleInv
<1>2. (rounds = 0 \/ pulls = 0) /\ (rounds' = 0 \/ pulls' = 0)
  BY <1>1 DEF Orderly
<1>3. ASSUME NEW n \in Node, NEW k \in Key, NEW v \in Write, Set(n, k, v)
      PROVE  Complete' /\ RoundsAgree'
  <2>1. /\ table' = [table EXCEPT ![n] = Tick(Store(@, Row(k, n, @.clock, v)))]
        /\ UNCHANGED <<vc, mixed, pending, flight, rounds, pulls, deletes, phase, todo>>
    BY <1>3 DEF Set, Add, mixerVars, gossipVars
  <2>2. Complete'
    BY <1>1, <2>1, WriteComplete
  <2>3. QED
    BY <1>1, <2>1, <2>2 DEF RoundsAgree, Counters
<1>4. ASSUME NEW n \in Node, NEW k \in Key, Refresh(n, k)
      PROVE  Complete' /\ RoundsAgree'
  <2> DEFINE v == RowOf(table[n], k).value
  <2>1. /\ table' = [table EXCEPT ![n] = Tick(Store(@, Row(k, n, @.clock, v)))]
        /\ Has(table[n], k)
        /\ UNCHANGED <<vc, mixed, pending, flight, rounds, pulls, deletes, phase, todo>>
    BY <1>4, GoodTables DEF Refresh, UpdateClock, mixerVars, gossipVars, IInv, Sound
  <2>2. RowOf(table[n], k) \in RowType
    BY <2>1, GoodTables, HasIsPresent DEF IInv, Good, WellFormed, Present
  <2>3. v \in Write
    BY <2>2 DEF RowType
  <2> HIDE DEF v
  <2>4. Complete'
    BY <1>1, <2>1, <2>3, WriteComplete
  <2>5. QED
    BY <1>1, <2>1, <2>4 DEF RoundsAgree, Counters
<1>5. ASSUME NEW n \in Node, NEW k \in Key, Delete(n, k) PROVE FALSE
  <2>1. deletes' = deletes + 1 /\ deletes \in Nat /\ deletes' = 0
    BY <1>5 DEF Delete, HoleInv, Counters, Orderly
  <2>2. QED
    BY <2>1
<1>6. CASE StartRound \/ StartPut \/ EndRound
  BY <1>1, <1>2, <1>6, RoundComplete
<1>7. ASSUME NEW n \in Node, Gather(n) PROVE Complete' /\ RoundsAgree'
  BY <1>1, <1>2, <1>7, GatherComplete
<1>8. ASSUME NEW n \in Node, Put(n) PROVE Complete' /\ RoundsAgree'
  BY <1>1, <1>8, PutComplete
<1>9. ASSUME NEW n \in Node, LosePut(n) PROVE FALSE
  BY <1>9 DEF LosePut, Orderly
<1>10. ASSUME NEW n \in Node, NEW m \in Node, Pull(n, m) PROVE Complete' /\ RoundsAgree'
  BY <1>1, <1>2, <1>10, PullComplete
<1>11. ASSUME NEW msg \in flight, Push(msg) PROVE Complete' /\ RoundsAgree'
  BY <1>1, <1>11, PushComplete
<1>12. ASSUME NEW n \in Node, pending[n] # <<>>, NEW r \in Head(pending[n]), ApplyRow(n, r)
       PROVE  Complete' /\ RoundsAgree'
  BY <1>1, <1>12, ApplyRowComplete
<1>13. CASE UNCHANGED vars
  <2>1. UNCHANGED <<table, vc, pending, flight, mixed, rounds, pulls, deletes, phase, todo>>
    BY <1>13 DEF vars, mixerVars, gossipVars
  <2>2. Complete'
    BY <1>1, <2>1, IdleComplete
  <2>3. QED
    BY <1>1, <2>1, <2>2 DEF RoundsAgree, Counters
<1>14. QED
  BY <1>3, <1>4, <1>5, <1>6, <1>7, <1>8, <1>9, <1>10, <1>11, <1>12, <1>13
     DEF Next, Local, Linear, Gossip, Apply, Loss

LEMMA CompleteInvariance == Spec => [](IInv /\ HoleInv)
<1>1. Init => IInv /\ HoleInv
  BY InitInductive, InitComplete
<1>2. IInv /\ HoleInv /\ [Next]_vars => (IInv /\ HoleInv)'
  BY Inductive, CompleteInductive
<1>3. QED
  BY <1>1, <1>2, PTL DEF Spec

\* Version vectors hide no row: whatever a node would not be sent again because
\* of its vector, it holds in a version not older, or is about to apply, as long
\* as no row was deleted, no put lost and the nodes exchange in one way only.
THEOREM VectorsHideNothing == Spec => []NoHoles
<1>1. ASSUME IInv, HoleInv PROVE NoHoles
  <2> SUFFICES ASSUME deletes = 0, ~lost, rounds = 0 \/ pulls = 0,
                      NEW n \in Node, NEW m \in Node, NEW r \in Contents(table[m]),
                      Seen(vc[n], r.owner) >= r.clock
               PROVE  Covered(n, r)
    BY DEF NoHoles, Covered, Holds, NotOlderIn
  <2>1. Complete
    BY <1>1 DEF HoleInv, Orderly
  <2>2. r \in AllRows
    BY TableRowsAreRows
  <2>3. QED
    BY <2>1, <2>2 DEF Complete, SeenCovered
<1>2. QED
  BY <1>1, CompleteInvariance, PTL

---------------------------------------------------------------------------
(* Quiet rounds converge.  Of the rows put under one key the newest wins,  *)
(* and of equally new ones the last in the list, which is the same list at *)
(* every node; a write made meanwhile is in no list and in no vector.      *)

Calm == Orderly /\ pulls = 0

Unseen(n, r) == Seen(vc[n], r.owner) < r.clock

\* Each element of the list is from one node, of rows the node itself wrote.
OneOwnerEach ==
    /\ \A i, j \in 1..Len(mixed) : \A p \in mixed[i], q \in mixed[j] : p.owner = q.owner <=> i = j
    /\ phase = "gather" => \A p \in Listed(mixed) : p.owner \notin todo

\* A row not listed and not seen was written after its node was asked.
LaterIsNewer ==
    \A n \in Node : \A r \in Contents(table[n]) \ Listed(mixed) :
        Unseen(n, r) => \A p \in Listed(mixed) : p.owner = r.owner => p.clock < r.clock

\* The rows from before the round agree, and none of them is newer than a listed one.
OldRowsAgree ==
    \A n, m \in Node :
        \A r \in Contents(table[n]) \ Listed(mixed), s \in Contents(table[m]) \ Listed(mixed) :
            r.key = s.key /\ ~Unseen(n, r) /\ ~Unseen(m, s) => r = s
MixedIsNewer ==
    \A n \in Node : \A x \in Contents(table[n]) \ Listed(mixed), r \in Listed(mixed) :
        x.key = r.key /\ ~Unseen(n, x) => x.clock <= r.clock

\* What a node still has to apply is the end of the list.
IsEndOf(l, list) ==
    /\ Len(list) - Len(l) >= 0
    /\ \A i \in 1..Len(l) :
          /\ l[i] \subseteq list[(Len(list) - Len(l)) + i]
          /\ i > 1 => l[i] = list[(Len(list) - Len(l)) + i]
InOrder == phase = "put" => \A n \in Node \ todo : IsEndOf(pending[n], mixed)

\* Among the rows applied the newest wins, the last of equally new ones; only
\* a later write of the node itself can be there instead.
Beats(r, p) ==
    \/ r.clock > p.clock
    \/ /\ r.clock = p.clock
       /\ \E i, j \in 1..Len(mixed) : j <= i /\ r \in mixed[i] /\ p \in mixed[j]
LastWins ==
    phase = "put" =>
        \A n \in Node \ todo : \A p \in Listed(mixed) \ Listed(pending[n]) :
            /\ Has(table[n], p.key)
            /\ p.clock < table[n].clock
            /\ \A r \in Contents(table[n]) :
                  r.key = p.key =>
                      /\ r.clock >= p.clock
                      /\ r \in Listed(mixed) => Beats(r, p)
                      /\ r \notin Listed(mixed) => Unseen(n, r)

\* In a quiet round every row of a node asked is listed or was seen before.
QuietSeen ==
    quiet => \A n \in Node : \A r \in Contents(table[n]) :
                 (phase = "gather" /\ n \in todo) \/ ~Unseen(n, r) \/ r \in Listed(mixed)

Settled ==
    OneOwnerEach /\ LaterIsNewer /\ OldRowsAgree /\ MixedIsNewer /\ InOrder /\ LastWins /\ QuietSeen

QuietInv == Calm => Settled

\* A table has one row per key.
LEMMA ContentsByKey ==
    ASSUME NEW t, Good(t)
    PROVE  /\ \A x \in Contents(t) : Has(t, x.key) /\ x = RowOf(t, x.key) /\ x \in RowType
           /\ \A k : Has(t, k) => RowOf(t, k) \in Contents(t) /\ RowOf(t, k).key = k
<1>1. t \in Table /\ IndexConsistent(t)
  BY DEF Good, WellFormed
<1>2. ASSUME NEW x \in Contents(t)
      PROVE  Has(t, x.key) /\ x = RowOf(t, x.key) /\ x \in RowType
  <2>1. PICK i \in 1..Size(t) : x = t.rows[i]
    BY <1>2 DEF Contents
  <2>2. x.key \in DOMAIN t.index /\ t.index[x.key] = i
    BY <1>1, <2>1 DEF IndexConsistent
  <2>3. x \in RowType
    BY <1>1, ContentsTyped
  <2>4. QED
    BY <2>1, <2>2, <2>3 DEF Has, RowOf
<1>3. ASSUME NEW k, Has(t, k) PROVE RowOf(t, k) \in Contents(t) /\ RowOf(t, k).key = k
  BY <1>1, <1>3, HasIsPresent DEF Present, RowOf, Contents
<1>4. QED
  BY <1>2, <1>3

\* A received row replaces the one under its key unless that one is newer.
LEMMA SetRowLeaves ==
    ASSUME NEW t, Good(t), NEW r \in RowType
    PROVE  /\ r.clock < SetRow(t, r).clock
           /\ \A x \in Contents(SetRow(t, r)) :
                 x = r \/ (x \in Contents(t) /\ (x.key = r.key => x.clock > r.clock))
           /\ r \in Contents(SetRow(t, r)) =>
                 \A y \in Contents(t) : y.key = r.key => y.clock <= r.clock
<1> DEFINE s == IF Newer(t, r.key, r.clock) THEN t ELSE Store(t, r)
           u == SetRow(t, r)
<1>1. t \in Table /\ IndexConsistent(t) /\ r.clock \in Nat
  BY DEF Good, WellFormed, RowType
<1>2. s \in Table /\ IndexConsistent(s)
  BY <1>1, StoreKeeps
<1>3. u.rows = s.rows /\ u.index = s.index
      /\ u.clock = IF s.clock < r.clock + 1 THEN r.clock + 1 ELSE s.clock
  BY <1>2 DEF SetRow, ClockFrom, Table
<1>4. Good(u) /\ Contents(u) = Contents(s)
  BY <1>3, SetRowKeeps DEF Contents, Size
<1>5. r.clock < u.clock
  BY <1>1, <1>2, <1>3 DEF Table
<1>6. CASE Newer(t, r.key, r.clock)
  <2>1. Has(t, r.key) /\ RowOf(t, r.key).clock > r.clock
    BY <1>6 DEF Newer
  <2>2. \A x \in Contents(t) : x.key = r.key => x.clock > r.clock
    BY <2>1, ContentsByKey
  <2>3. r \notin Contents(t)
    BY <1>1, <2>2
  <2>4. QED
    BY <1>4, <1>5, <1>6, <2>2, <2>3
<1>7. CASE ~Newer(t, r.key, r.clock)
  <2>1. Has(u, r.key) /\ RowOf(u, r.key) = r
    BY <1>1, <1>3, <1>7, StoreHas DEF Has, RowOf
  <2>2. Contents(s) \subseteq Contents(t) \cup {r}
    BY <1>1, <1>7, StoreKeeps
  <2>3. \A x \in Contents(u) : x.key = r.key => x = r
    BY <1>4, <2>1, ContentsByKey
  <2>4. \A y \in Contents(t) : y.key = r.key => y.clock <= r.clock
    <3> SUFFICES ASSUME NEW y \in Contents(t), y.key = r.key PROVE y.clock <= r.clock
      OBVIOUS
    <3>1. Has(t, r.key) /\ y = RowOf(t, r.key) /\ y \in RowType
      BY ContentsByKey
    <3>2. QED
      BY <1>1, <1>7, <3>1 DEF Newer, RowType
  <2>5. QED
    BY <1>4, <1>5, <2>2, <2>3, <2>4
<1>8. QED
  BY <1>6, <1>7

\* What is left of a list when a row of its first element was applied.
LEMMA RestIs ==
    ASSUME NEW l \in Lists, l # <<>>, NEW r \in Head(l), NEW rest,
           rest = IF Head(l) = {r} THEN Tail(l) ELSE <<Head(l) \ {r}>> \o Tail(l)
    PROVE  /\ Len(l) \in Nat /\ Len(l) >= 1 /\ r \in l[1]
           /\ \/ /\ Len(rest) = Len(l) - 1
                 /\ \A i \in 1..Len(l) - 1 : rest[i] = l[i + 1]
              \/ /\ Len(rest) = Len(l)
                 /\ rest[1] = l[1] \ {r}
                 /\ \A i \in 2..Len(l) : rest[i] = l[i]
<1> DEFINE h == Head(l) \ {r}
           tail == Tail(l)
           one == <<h>>
<1>1. /\ tail \in Lists
      /\ Len(l) \in Nat /\ Len(l) >= 1 /\ Len(tail) = Len(l) - 1
      /\ \A i \in 1..Len(l) - 1 : tail[i] = l[i + 1]
      /\ Head(l) = l[1]
  BY DEF Lists
<1>2. h \in SUBSET RowType
  BY HeadIsListed
<1>3. rest = IF Head(l) = {r} THEN tail ELSE one \o tail
  OBVIOUS
<1>4. h = l[1] \ {r}
  BY <1>1
<1> HIDE DEF tail, h
<1>5. one \in Lists /\ Len(one) = 1 /\ one[1] = h
  BY <1>2 DEF Lists
<1> HIDE DEF one
<1>6. one \in Seq(SUBSET RowType) /\ tail \in Seq(SUBSET RowType)
  BY <1>1, <1>5 DEF Lists
<1>7. /\ Len(one \o tail) = Len(one) + Len(tail)
      /\ \A i \in 1..Len(one) + Len(tail) :
            (one \o tail)[i] = IF i <= Len(one) THEN one[i] ELSE tail[i - Len(one)]
  BY <1>6, ConcatProperties
<1>8. CASE Head(l) = {r}
  BY <1>1, <1>3, <1>8
<1>9. CASE Head(l) # {r}
  <2>1. rest = one \o tail
    BY <1>3, <1>9
  <2>2. Len(rest) = Len(l)
    BY <1>1, <1>5, <1>7, <2>1
  <2>3. rest[1] = h
    BY <1>1, <1>5, <1>7, <2>1
  <2>4. ASSUME NEW i \in 2..Len(l) PROVE rest[i] = l[i]
    <3>1. i - 1 \in 1..Len(l) - 1 /\ (i - 1) + 1 = i /\ ~(i <= 1) /\ i \in 1..Len(l)
      BY <1>1
    <3>2. (one \o tail)[i] = tail[i - 1]
      BY <1>1, <1>5, <1>7, <3>1
    <3>3. QED
      BY <1>1, <2>1, <3>1, <3>2
  <2>5. QED
    BY <1>1, <1>4, <2>2, <2>3, <2>4
<1>10. QED
  BY <1>8, <1>9

\* A write during a round is in no list and in no vector.
LEMMA WriteSettled ==
    ASSUME IInv, Complete, Settled,
           NEW n \in Node, NEW k \in Key, NEW v \in Write,
           table' = [table EXCEPT ![n] = Tick(Store(@, Row(k, n, @.clock, v)))],
           UNCHANGED <<vc, mixed, pending, phase, todo>>, ~quiet'
    PROVE  Settled'
<1> PICK q : q = Row(k, n, table[n].clock, v)
  OBVIOUS
<1> DEFINE t == Tick(Store(table[n], q))
<1>1. Good(table[n]) /\ table \in [Node -> Table] /\ table[n].clock \in Nat
  BY GoodTables DEF IInv, Sound, Table
<1>2. /\ q \in RowType /\ t.clock = table[n].clock + 1
      /\ Contents(t) \subseteq Contents(table[n]) \cup {q}
  BY <1>1, WriteKeeps
<1>3. \A j : Has(table[n], j) => Has(t, j)
  BY <1>1, WriteHas
<1>4. q.owner = n /\ q.clock = table[n].clock /\ q.key = k
  BY DEF Row
<1>5. table' = [table EXCEPT ![n] = t]
  BY <1>1
<1> HIDE DEF t
<1>6. \A m \in Node : table'[m] = IF m = n THEN t ELSE table[m]
  BY <1>1, <1>5
<1>7. \A m \in Node : \A x \in Contents(table'[m]) : x \in Contents(table[m]) \/ (m = n /\ x = q)
  BY <1>2, <1>6
<1>8. \A p \in Listed(mixed) : p.owner = n => p.clock < q.clock
  <2>1. \A p \in Listed(mixed) : p \in AllRows
    BY DEF AllRows
  <2>2. QED
    BY <1>4, <2>1 DEF IInv, VersionsAreOld
<1>9. q \notin Listed(mixed)
  BY <1>1, <1>4, <1>8
<1>10. Unseen(n, q)
  BY <1>4 DEF Unseen, Complete, VectorsAreOld
<1>11. OneOwnerEach' /\ InOrder' /\ QuietSeen'
  <2>1. OneOwnerEach'
    BY DEF Settled, OneOwnerEach
  <2>2. InOrder'
    BY DEF Settled, InOrder
  <2>3. QED
    BY <2>1, <2>2 DEF QuietSeen
<1>12. LaterIsNewer'
  <2> SUFFICES ASSUME NEW m \in Node, NEW x \in Contents(table'[m]), x \notin Listed(mixed),
                      Seen(vc[m], x.owner) < x.clock,
                      NEW p \in Listed(mixed), p.owner = x.owner
               PROVE  p.clock < x.clock
    BY DEF LaterIsNewer, Unseen
  <2>1. CASE x \in Contents(table[m])
    BY <2>1 DEF Settled, LaterIsNewer, Unseen
  <2>2. CASE m = n /\ x = q
    BY <1>4, <1>8, <2>2
  <2>3. QED
    BY <1>7, <2>1, <2>2
<1>13. OldRowsAgree'
  <2> SUFFICES ASSUME NEW m1 \in Node, NEW m2 \in Node,
                      NEW r \in Contents(table'[m1]), r \notin Listed(mixed),
                      NEW s \in Contents(table'[m2]), s \notin Listed(mixed),
                      r.key = s.key, ~Unseen(m1, r), ~Unseen(m2, s)
               PROVE  r = s
    BY DEF OldRowsAgree, Unseen
  <2>1. r \in Contents(table[m1]) /\ s \in Contents(table[m2])
    BY <1>7, <1>10
  <2>2. QED
    BY <2>1 DEF Settled, OldRowsAgree
<1>14. MixedIsNewer'
  <2> SUFFICES ASSUME NEW m \in Node, NEW x \in Contents(table'[m]), x \notin Listed(mixed),
                      NEW r \in Listed(mixed), x.key = r.key, ~Unseen(m, x)
               PROVE  x.clock <= r.clock
    BY DEF MixedIsNewer, Unseen
  <2>1. x \in Contents(table[m])
    BY <1>7, <1>10
  <2>2. QED
    BY <2>1 DEF Settled, MixedIsNewer
<1>15. LastWins'
  <2> SUFFICES ASSUME phase = "put", NEW m \in Node \ todo, NEW p \in Listed(mixed),
                      p \notin Listed(pending[m])
               PROVE  /\ Has(table'[m], p.key)
                      /\ p.clock < table'[m].clock
                      /\ \A r \in Contents(table'[m]) :
                            r.key = p.key =>
                                /\ r.clock >= p.clock
                                /\ r \in Listed(mixed) => Beats(r, p)
                                /\ r \notin Listed(mixed) => Unseen(m, r)
    BY DEF LastWins, Beats, Unseen
  <2>1. /\ Has(table[m], p.key)
        /\ p.clock < table[m].clock
        /\ \A r \in Contents(table[m]) :
                            r.key = p.key =>
                                /\ r.clock >= p.clock
                                /\ r \in Listed(mixed) => Beats(r, p)
                                /\ r \notin Listed(mixed) => Unseen(m, r)
    BY DEF Settled, LastWins
  <2>2. p.clock \in Nat
    <3>1. p \in AllRows
      BY DEF AllRows
    <3>2. p \in RowType
      BY <3>1, RowsTyped DEF IInv
    <3>3. QED
      BY <3>2 DEF RowType
  <2>3. Has(table'[m], p.key) /\ p.clock < table'[m].clock
    BY <1>1, <1>2, <1>3, <1>6, <2>1, <2>2
  <2>4. ASSUME NEW r \in Contents(table'[m]), r.key = p.key
        PROVE  /\ r.clock >= p.clock
               /\ r \in Listed(mixed) => Beats(r, p)
               /\ r \notin Listed(mixed) => Unseen(m, r)
    <3>1. CASE r \in Contents(table[m])
      BY <2>1, <2>4, <3>1
    <3>2. CASE m = n /\ r = q
      BY <1>1, <1>4, <1>9, <1>10, <2>1, <2>2, <3>2
    <3>3. QED
      BY <1>7, <3>1, <3>2
  <2>5. QED
    BY <2>3, <2>4
<1>16. QED
  BY <1>11, <1>12, <1>13, <1>14, <1>15 DEF Settled

\* Asking node m adds its own rows that no vector has seen, as one element.
LEMMA GatherSettled ==
    ASSUME IInv, Complete, RoundsAgree, Settled, pulls = 0, NEW m \in Node, Gather(m)
    PROVE  Settled'
<1> DEFINE pulled == PullRows(table[m], vc[m])
<1>1. /\ UNCHANGED <<table, vc, pending, phase, quiet>>
      /\ mixed' = Concat(mixed, pulled)
      /\ todo' = todo \ {m} /\ m \in todo
      /\ phase = "gather"
  BY DEF Gather, gossipVars
<1>2. pulled \in SUBSET RowType /\ pulled \subseteq Contents(table[m]) /\ mixed \in Lists
  BY PulledRows DEF IInv, Sound
<1>3. \A n, o \in Node : Seen(vc[m], o) = Seen(vc[n], o)
  BY <1>1 DEF RoundsAgree
<1>4. \A x \in Contents(table[m]) : x \in pulled <=> Unseen(m, x)
  <2>1. ASSUME NEW x \in Contents(table[m]) PROVE x \in pulled <=> Unseen(m, x)
    <3>1. PICK i \in 1..Size(table[m]) : x = table[m].rows[i]
      BY <2>1 DEF Contents
    <3>2. Unseen(m, x) => x \in pulled
      BY <3>1 DEF PullRows, Unseen
    <3>3. x \in pulled => Unseen(m, x)
      BY DEF PullRows, Unseen
    <3>4. QED
      BY <3>2, <3>3
  <2>2. QED
    BY <2>1
<1>5. ASSUME NEW p \in pulled PROVE p.owner = m
  <2>1. p \in Contents(table[m]) /\ Seen(vc[m], p.owner) < p.clock /\ p \in RowType
    BY <1>2, <1>4, <1>5 DEF Unseen
  <2>2. p.clock \in Nat /\ Seen(vc[m], p.owner) \in Int
    BY <2>1, SeenTyped DEF RowType, Complete, VectorsAreOld
  <2>3. QED
    BY <2>1, <2>2 DEF Complete, ForeignSeen
<1> HIDE DEF pulled
<1>6. Listed(mixed') \subseteq Listed(mixed) \cup pulled /\ Listed(mixed) \cup pulled \subseteq Listed(mixed')
  BY <1>1, <1>2, ConcatLists, ConcatHasBoth
<1>7. OneOwnerEach'
  <2>1. \A p \in Listed(mixed') : p.owner \notin todo'
    BY <1>1, <1>5, <1>6 DEF Settled, OneOwnerEach
  <2>2. CASE pulled = {}
    BY <1>1, <2>1, <2>2 DEF Concat, Settled, OneOwnerEach
  <2>3. CASE pulled # {}
    <3>1. mixed' = Append(mixed, pulled)
      BY <1>1, <2>3 DEF Concat
    <3>2. /\ Len(mixed') = Len(mixed) + 1 /\ Len(mixed) \in Nat
          /\ mixed'[Len(mixed) + 1] = pulled
          /\ \A i \in 1..Len(mixed) : mixed'[i] = mixed[i]
      BY <1>2, <3>1 DEF Lists
    <3>3. \A i \in 1..Len(mixed) : \A p \in mixed[i] : p.owner # m
      BY <1>1 DEF Settled, OneOwnerEach, Listed
    <3>4. ASSUME NEW i \in 1..Len(mixed'), NEW j \in 1..Len(mixed'),
                 NEW p \in mixed'[i], NEW q \in mixed'[j]
          PROVE  p.owner = q.owner <=> i = j
      <4>1. CASE i \in 1..Len(mixed) /\ j \in 1..Len(mixed)
        BY <3>2, <4>1 DEF Settled, OneOwnerEach
      <4>2. CASE i \in 1..Len(mixed) /\ j = Len(mixed) + 1
        BY <1>5, <3>2, <3>3, <4>2
      <4>3. CASE i = Len(mixed) + 1 /\ j \in 1..Len(mixed)
        BY <1>5, <3>2, <3>3, <4>3
      <4>4. CASE i = Len(mixed) + 1 /\ j = Len(mixed) + 1
        BY <1>5, <3>2, <4>4
      <4>5. QED
        BY <3>2, <4>1, <4>2, <4>3, <4>4
    <3>5. QED
      BY <2>1, <3>4 DEF OneOwnerEach
  <2>4. QED
    BY <2>2, <2>3
<1>8. LaterIsNewer'
  <2> SUFFICES ASSUME NEW n \in Node, NEW r \in Contents(table[n]), r \notin Listed(mixed'),
                      Unseen(n, r), NEW p \in Listed(mixed'), p.owner = r.owner
               PROVE  p.clock < r.clock
    BY <1>1 DEF LaterIsNewer, Unseen
  <2>1. CASE p \in Listed(mixed)
    BY <1>6, <2>1 DEF Settled, LaterIsNewer
  <2>2. CASE p \in pulled
    <3>1. r.owner = m
      BY <1>5, <2>2
    <3>2. n = m
      <4>1. r \in RowType
        BY GoodTables, ContentsByKey DEF IInv
      <4>2. Seen(vc[n], r.owner) \in Int /\ r.clock \in Nat
        BY <4>1, SeenTyped DEF RowType, Complete, VectorsAreOld
      <4>3. QED
        BY <3>1, <4>2 DEF Complete, ForeignSeen, Unseen
    <3>3. r \in pulled
      BY <1>4, <3>2
    <3>4. QED
      BY <1>6, <3>3
  <2>3. QED
    BY <1>6, <2>1, <2>2
<1>9. OldRowsAgree'
  BY <1>1, <1>6 DEF Settled, OldRowsAgree, Unseen
<1>10. MixedIsNewer'
  <2> SUFFICES ASSUME NEW n \in Node, NEW x \in Contents(table[n]), x \notin Listed(mixed'),
                      NEW r \in Listed(mixed'), x.key = r.key, ~Unseen(n, x)
               PROVE  x.clock <= r.clock
    BY <1>1 DEF MixedIsNewer, Unseen
  <2>1. CASE r \in Listed(mixed)
    BY <1>6, <2>1 DEF Settled, MixedIsNewer
  <2>2. CASE r \in pulled
    <3>1. x \in RowType /\ x \in AllRows
      BY GoodTables, ContentsByKey, TableRowsAreRows DEF IInv
    <3>2. x.clock \in Nat /\ x.owner \in Node
      BY <3>1 DEF RowType
    <3>3. Seen(vc[n], x.owner) \in Int /\ Seen(vc[m], x.owner) = Seen(vc[n], x.owner)
      BY <1>3, <3>2, SeenTyped DEF Complete, VectorsAreOld
    <3>4. Covered(m, x)
      BY <3>1, <3>2, <3>3 DEF Unseen, Complete, SeenCovered
    <3>5. pending[m] = <<>>
      BY <1>1 DEF RoundsAgree
    <3>6. Listed(pending[m]) = {}
      BY <3>5 DEF Listed
    <3>7. RowOf(table[m], x.key).clock >= x.clock
      BY <3>4, <3>6 DEF Covered, Holds, NotOlderIn
    <3>8. r = RowOf(table[m], r.key) /\ r \in RowType
      BY <1>2, <2>2, GoodTables, ContentsByKey DEF IInv
    <3>9. QED
      BY <3>2, <3>7, <3>8 DEF RowType
  <2>3. QED
    BY <1>6, <2>1, <2>2
<1>11. InOrder' /\ LastWins'
  BY <1>1 DEF InOrder, LastWins
<1>12. QuietSeen'
  <2> SUFFICES ASSUME quiet, NEW n \in Node, NEW r \in Contents(table[n]), n \notin todo',
                      Unseen(n, r)
               PROVE  r \in Listed(mixed')
    BY <1>1 DEF QuietSeen, Unseen
  <2>1. CASE n = m
    BY <1>4, <1>6, <2>1
  <2>2. CASE n # m
    BY <1>1, <1>6, <2>2 DEF Settled, QuietSeen
  <2>3. QED
    BY <2>1, <2>2
<1>13. QED
  BY <1>7, <1>8, <1>9, <1>10, <1>11, <1>12 DEF Settled

LEMMA RoundSettled ==
    ASSUME IInv, Complete, RoundsAgree, Settled, pulls = 0, StartRound \/ StartPut
    PROVE  Settled'
<1>1. CASE StartRound
  <2>1. /\ UNCHANGED <<table, vc, pending>> /\ phase = "idle"
        /\ phase' = "gather" /\ todo' = Node /\ mixed' = <<>>
    BY <1>1 DEF StartRound
  <2>2. mixed = <<>> /\ Len(<<>>) = 0 /\ Listed(<<>>) = {}
    BY <2>1 DEF RoundsAgree, Listed
  <2>3. OneOwnerEach' /\ LaterIsNewer'
    BY <2>1, <2>2 DEF OneOwnerEach, LaterIsNewer
  <2>4. OldRowsAgree' /\ MixedIsNewer'
    BY <2>1, <2>2 DEF Settled, OldRowsAgree, MixedIsNewer, Unseen
  <2>5. InOrder' /\ LastWins' /\ QuietSeen'
    BY <2>1 DEF InOrder, LastWins, QuietSeen
  <2>6. QED
    BY <2>3, <2>4, <2>5 DEF Settled
<1>2. CASE StartPut
  <2>1. /\ UNCHANGED <<table, vc, pending, mixed, quiet>> /\ phase = "gather"
        /\ phase' = "put" /\ todo = {} /\ todo' = Node
    BY <1>2 DEF StartPut
  <2>2. OneOwnerEach' /\ LaterIsNewer'
    BY <2>1 DEF Settled, OneOwnerEach, LaterIsNewer, Unseen
  <2>3. OldRowsAgree' /\ MixedIsNewer'
    BY <2>1 DEF Settled, OldRowsAgree, MixedIsNewer, Unseen
  <2>4. InOrder' /\ LastWins'
    BY <2>1 DEF InOrder, LastWins
  <2>5. QuietSeen'
    BY <2>1 DEF Settled, QuietSeen, Unseen
  <2>6. QED
    BY <2>2, <2>3, <2>4, <2>5 DEF Settled
<1>3. QED
  BY <1>1, <1>2

\* Applying a row leaves the end of the list, and what was applied before
\* stands before it, in this order.
LEMMA RestIsEnd ==
    ASSUME NEW l \in Lists, Len(l) >= 1, NEW r \in l[1], NEW list \in Lists, IsEndOf(l, list),
           NEW rest,
           \/ /\ Len(rest) = Len(l) - 1
              /\ \A i \in 1..Len(l) - 1 : rest[i] = l[i + 1]
           \/ /\ Len(rest) = Len(l)
              /\ rest[1] = l[1] \ {r}
              /\ \A i \in 2..Len(l) : rest[i] = l[i]
    PROVE  /\ IsEndOf(rest, list)
           /\ r \in Listed(list)
           /\ \A p \in Listed(list) \ Listed(l) :
                 \E i, j \in 1..Len(list) : j <= i /\ r \in list[i] /\ p \in list[j]
<1> DEFINE gap == Len(list) - Len(l)
<1>1. Len(l) \in Nat /\ Len(list) \in Nat
  BY DEF Lists
<1>2. gap \in Nat /\ Len(l) = Len(list) - gap
  BY <1>1 DEF IsEndOf
<1>3. \A i \in 1..Len(l) : l[i] \subseteq list[gap + i]
  BY DEF IsEndOf
<1>4. \A i \in 1..Len(l) : i > 1 => l[i] = list[gap + i]
  BY DEF IsEndOf
<1> HIDE DEF gap
<1>5. gap + 1 \in 1..Len(list) /\ r \in list[gap + 1]
  <2>1. 1 \in 1..Len(l) /\ gap + 1 \in 1..Len(list)
    BY <1>1, <1>2
  <2>2. QED
    BY <1>3, <2>1
<1>6. ASSUME Len(rest) = Len(l) - 1, \A i \in 1..Len(l) - 1 : rest[i] = l[i + 1]
      PROVE  IsEndOf(rest, list)
  <2>1. Len(list) - Len(rest) = gap + 1
    BY <1>1, <1>2, <1>6
  <2>2. ASSUME NEW i \in 1..Len(rest) PROVE rest[i] = list[(gap + 1) + i]
    <3>1. /\ i \in 1..Len(l) - 1 /\ i + 1 \in 1..Len(l) /\ i + 1 > 1
          /\ gap + (i + 1) = (gap + 1) + i
      BY <1>1, <1>2, <1>6
    <3>2. rest[i] = l[i + 1]
      BY <1>6, <3>1
    <3>3. l[i + 1] = list[gap + (i + 1)]
      BY <1>4, <3>1
    <3>4. QED
      BY <3>1, <3>2, <3>3
  <2>3. QED
    <3>1. Len(list) - Len(rest) >= 0
      BY <1>2, <2>1
    <3>2. \A i \in 1..Len(rest) :
              /\ rest[i] \subseteq list[(Len(list) - Len(rest)) + i]
              /\ i > 1 => rest[i] = list[(Len(list) - Len(rest)) + i]
      BY <2>1, <2>2
    <3>3. QED
      BY <3>1, <3>2 DEF IsEndOf
<1>7. ASSUME Len(rest) = Len(l), rest[1] = l[1] \ {r},
             \A i \in 2..Len(l) : rest[i] = l[i]
      PROVE  IsEndOf(rest, list)
  <2>1. Len(list) - Len(rest) = gap
    BY <1>1, <1>2, <1>7
  <2>2. ASSUME NEW i \in 1..Len(rest)
        PROVE  rest[i] \subseteq list[gap + i] /\ (i > 1 => rest[i] = list[gap + i])
    <3>1. i \in 1..Len(l)
      BY <1>7, <2>2
    <3>2. l[i] \subseteq list[gap + i] /\ (i > 1 => l[i] = list[gap + i])
      BY <1>3, <1>4, <3>1
    <3>3. CASE i = 1
      <4>1. rest[i] \subseteq l[i] /\ ~(i > 1)
        BY <1>7, <3>3
      <4>2. QED
        BY <3>2, <4>1
    <3>4. CASE i # 1
      <4>1. i \in 2..Len(l)
        BY <1>1, <3>1, <3>4
      <4>2. rest[i] = l[i]
        BY <1>7, <4>1
      <4>3. QED
        BY <3>2, <4>2
    <3>5. QED
      BY <3>3, <3>4
  <2>3. Len(list) - Len(rest) >= 0
    BY <1>2, <2>1
  <2>4. \A i \in 1..Len(rest) :
            /\ rest[i] \subseteq list[(Len(list) - Len(rest)) + i]
            /\ i > 1 => rest[i] = list[(Len(list) - Len(rest)) + i]
    BY <2>1, <2>2
  <2>5. QED
    BY <2>3, <2>4 DEF IsEndOf
<1>8. ASSUME NEW p \in Listed(list), p \notin Listed(l)
      PROVE  \E i, j \in 1..Len(list) : j <= i /\ r \in list[i] /\ p \in list[j]
  <2>1. PICK j \in 1..Len(list) : p \in list[j]
    BY <1>8 DEF Listed
  <2>2. j <= gap + 1
    <3> SUFFICES ASSUME ~(j <= gap + 1) PROVE FALSE
      OBVIOUS
    <3>1. j - gap \in 1..Len(l) /\ j - gap > 1 /\ gap + (j - gap) = j
      BY <1>1, <1>2
    <3>2. l[j - gap] = list[gap + (j - gap)]
      BY <1>4, <3>1
    <3>3. p \in l[j - gap]
      BY <2>1, <3>1, <3>2
    <3>4. QED
      BY <1>8, <3>1, <3>3 DEF Listed
  <2>3. QED
    BY <1>5, <2>1, <2>2
<1>9. IsEndOf(rest, list)
  BY <1>6, <1>7
<1>10. r \in Listed(list)
  BY <1>5 DEF Listed
<1>11. QED
  BY <1>8, <1>9, <1>10

LEMMA PutSettled ==
    ASSUME IInv, RoundsAgree, Settled, NEW n \in Node, Put(n)
    PROVE  Settled'
<1>1. /\ UNCHANGED <<table, vc, mixed, phase, quiet>>
      /\ phase = "put" /\ todo' = todo \ {n}
      /\ pending' = [pending EXCEPT ![n] = mixed]
      /\ pending \in [Node -> Lists] /\ mixed \in Lists
  BY DEF Put, IInv, Sound
<1>2. \A m \in Node : pending'[m] = IF m = n THEN mixed ELSE pending[m]
  BY <1>1
<1>3. OneOwnerEach' /\ LaterIsNewer'
  BY <1>1 DEF Settled, OneOwnerEach, LaterIsNewer, Unseen
<1>4. OldRowsAgree' /\ MixedIsNewer'
  BY <1>1 DEF Settled, OldRowsAgree, MixedIsNewer, Unseen
<1>5. QuietSeen'
  BY <1>1 DEF Settled, QuietSeen, Unseen
<1>6. InOrder'
  <2>1. IsEndOf(mixed, mixed)
    <3>1. Len(mixed) \in Nat /\ Len(mixed) - Len(mixed) = 0
      BY <1>1 DEF Lists
    <3>2. QED
      BY <3>1 DEF IsEndOf
  <2>2. QED
    BY <1>1, <1>2, <2>1 DEF Settled, InOrder
<1>7. LastWins'
  <2> SUFFICES ASSUME NEW m \in Node \ todo', NEW p \in Listed(mixed), p \notin Listed(pending'[m])
               PROVE  /\ Has(table[m], p.key)
                      /\ p.clock < table[m].clock
                      /\ \A r \in Contents(table[m]) :
                            r.key = p.key =>
                                /\ r.clock >= p.clock
                                /\ r \in Listed(mixed) => Beats(r, p)
                                /\ r \notin Listed(mixed) => Unseen(m, r)
    BY <1>1 DEF LastWins, Beats, Unseen
  <2>1. m # n /\ m \in Node \ todo /\ p \notin Listed(pending[m])
    BY <1>1, <1>2
  <2>2. QED
    BY <1>1, <2>1 DEF Settled, LastWins
<1>8. QED
  BY <1>3, <1>4, <1>5, <1>6, <1>7 DEF Settled

\* At the end of a round all rows that anybody has seen agree.
LEMMA EndSettled ==
    ASSUME IInv, Complete, RoundsAgree, Settled, pulls = 0, EndRound
    PROVE  Settled'
<1>1. /\ UNCHANGED <<table, vc, pending, quiet>>
      /\ phase = "put" /\ todo = {} /\ phase' = "idle" /\ mixed' = <<>>
      /\ \A n \in Node : pending[n] = <<>>
  BY DEF EndRound
<1>2. Len(<<>>) = 0 /\ Listed(<<>>) = {}
  BY DEF Listed
<1>3. OneOwnerEach' /\ LaterIsNewer' /\ MixedIsNewer' /\ InOrder' /\ LastWins'
  BY <1>1, <1>2 DEF OneOwnerEach, LaterIsNewer, MixedIsNewer, InOrder, LastWins
<1>4. QuietSeen'
  <2> SUFFICES ASSUME quiet, NEW n \in Node, NEW r \in Contents(table[n])
               PROVE  ~Unseen(n, r)
    BY <1>1 DEF QuietSeen, Unseen
  <2>1. ~Unseen(n, r) \/ r \in Listed(mixed)
    BY <1>1 DEF Settled, QuietSeen
  <2>2. CASE r \in Listed(mixed)
    <3>1. Seen(vc[n], r.owner) >= r.clock
      BY <1>1, <1>2, <2>2 DEF RoundsAgree
    <3>2. r \in RowType
      BY GoodTables, ContentsByKey DEF IInv
    <3>3. Seen(vc[n], r.owner) \in Int /\ r.clock \in Nat
      BY <3>2, SeenTyped DEF RowType, Complete, VectorsAreOld
    <3>4. QED
      BY <3>1, <3>3 DEF Unseen
  <2>3. QED
    BY <2>1, <2>2
<1>5. OldRowsAgree'
  <2> SUFFICES ASSUME NEW n \in Node, NEW m \in Node,
                      NEW r \in Contents(table[n]), NEW s \in Contents(table[m]),
                      r.key = s.key, ~Unseen(n, r), ~Unseen(m, s)
               PROVE  r = s
    BY <1>1 DEF OldRowsAgree, Unseen
  <2>1. \A k \in Node : \A p \in Listed(mixed), x \in Contents(table[k]) :
            x.key = p.key => /\ x \in Listed(mixed) => Beats(x, p)
                             /\ x \notin Listed(mixed) => Unseen(k, x)
    BY <1>1, <1>2 DEF Settled, LastWins
  <2>2. r \in Listed(mixed) <=> s \in Listed(mixed)
    BY <2>1
  <2>3. CASE r \in Listed(mixed) /\ s \in Listed(mixed)
    <3>1. Beats(r, s) /\ Beats(s, r)
      BY <2>1, <2>3
    <3>2. r \in AllRows /\ s \in AllRows
      BY TableRowsAreRows
    <3>3. r.clock \in Nat /\ s.clock \in Nat
      BY <3>2, RowsTyped DEF IInv, RowType
    <3>4. r.clock = s.clock
      BY <3>1, <3>3 DEF Beats
    <3>5. PICK i \in 1..Len(mixed), j \in 1..Len(mixed) : j <= i /\ r \in mixed[i] /\ s \in mixed[j]
      BY <3>1, <3>3, <3>4 DEF Beats
    <3>6. PICK a \in 1..Len(mixed), b \in 1..Len(mixed) : b <= a /\ s \in mixed[a] /\ r \in mixed[b]
      BY <3>1, <3>3, <3>4 DEF Beats
    <3>7. i = b /\ j = a
      BY <3>5, <3>6 DEF Settled, OneOwnerEach
    <3>8. i = j
      BY <3>5, <3>6, <3>7
    <3>9. r.owner = s.owner
      BY <3>5, <3>8 DEF Settled, OneOwnerEach
    <3>10. QED
      BY <3>2, <3>4, <3>9 DEF IInv, VersionNamesRow
  <2>4. CASE r \notin Listed(mixed) /\ s \notin Listed(mixed)
    BY <2>4 DEF Settled, OldRowsAgree
  <2>5. QED
    BY <2>2, <2>3, <2>4
<1>6. QED
  BY <1>3, <1>4, <1>5 DEF Settled

LEMMA ApplyRowSettled ==
    ASSUME IInv, Complete, RoundsAgree, Settled, pulls = 0,
           NEW n \in Node, pending[n] # <<>>, NEW r \in Head(pending[n]), ApplyRow(n, r)
    PROVE  Settled'
<1> DEFINE t == SetRow(table[n], r)
           v == Advance(vc[n], r)
           l == IF Head(pending[n]) = {r} THEN Tail(pending[n])
                ELSE <<Head(pending[n]) \ {r}>> \o Tail(pending[n])
<1>1. /\ UNCHANGED <<mixed, phase, todo, quiet>>
      /\ table' = [table EXCEPT ![n] = t]
      /\ vc' = [vc EXCEPT ![n] = v]
      /\ pending' = [pending EXCEPT ![n] = l]
  BY DEF ApplyRow, mixerVars
<1>2. /\ pending \in [Node -> Lists] /\ mixed \in Lists
      /\ table \in [Node -> Table]
      /\ vc \in [Node -> Vectors]
      /\ Good(table[n])
  BY GoodTables DEF IInv, Sound, Complete, VectorsAreOld
<1>3. phase = "put" /\ n \in Node \ todo
  BY DEF RoundsAgree
<1>4. r \in RowType /\ r.clock \in Nat /\ r.owner \in Node
  <2>1. r \in RowType
    BY <1>2, HeadIsListed
  <2>2. QED
    BY <2>1 DEF RowType
<1>5. /\ IsEndOf(l, mixed)
      /\ r \in Listed(mixed)
      /\ \A p \in Listed(mixed) \ Listed(pending[n]) :
            \E i, j \in 1..Len(mixed) : j <= i /\ r \in mixed[i] /\ p \in mixed[j]
  <2> PICK old : old = pending[n]
    OBVIOUS
  <2>1. old \in Lists /\ old # <<>> /\ r \in Head(old) /\ IsEndOf(old, mixed)
    BY <1>2, <1>3 DEF Settled, InOrder
  <2>2. l = IF Head(old) = {r} THEN Tail(old) ELSE <<Head(old) \ {r}>> \o Tail(old)
    OBVIOUS
  <2> HIDE DEF l
  <2>3. /\ Len(old) \in Nat /\ Len(old) >= 1 /\ r \in old[1]
        /\ \/ /\ Len(l) = Len(old) - 1
              /\ \A i \in 1..Len(old) - 1 : l[i] = old[i + 1]
           \/ /\ Len(l) = Len(old)
              /\ l[1] = old[1] \ {r}
              /\ \A i \in 2..Len(old) : l[i] = old[i]
    BY <2>1, <2>2, RestIs
  <2>4. /\ IsEndOf(l, mixed)
        /\ r \in Listed(mixed)
        /\ \A p \in Listed(mixed) \ Listed(old) :
              \E i, j \in 1..Len(mixed) : j <= i /\ r \in mixed[i] /\ p \in mixed[j]
    BY <1>2, <2>1, <2>3, RestIsEnd
  <2>5. QED
    BY <2>4
<1>6. Listed(pending[n]) \subseteq Listed(l) \cup {r}
  BY <1>2, RestHasOthers
<1>7. /\ Has(t, r.key)
      /\ \A j : Has(table[n], j) => Has(t, j)
      /\ t.clock >= table[n].clock
      /\ r.clock < t.clock
      /\ \A x \in Contents(t) :
            x = r \/ (x \in Contents(table[n]) /\ (x.key = r.key => x.clock > r.clock))
      /\ r \in Contents(t) => \A y \in Contents(table[n]) : y.key = r.key => y.clock <= r.clock
      /\ t.clock \in Nat /\ table[n].clock \in Nat
  <2>1. Good(t) /\ t.clock >= table[n].clock
    BY <1>2, <1>4, SetRowKeeps
  <2>2. t.clock \in Nat /\ table[n].clock \in Nat
    BY <1>2, <2>1 DEF Good, Table
  <2>3. Has(t, r.key) /\ \A j : Has(table[n], j) => Has(t, j)
    BY <1>2, <1>4, SetRowHas
  <2>4. QED
    BY <1>2, <1>4, <2>1, <2>2, <2>3, SetRowLeaves
<1>8. \A o \in Node : Seen(v, o) = IF o = r.owner /\ Seen(vc[n], o) < r.clock
                                   THEN r.clock ELSE Seen(vc[n], o)
  BY <1>2, <1>4, AdvanceSees
<1> HIDE DEF t, v, l
<1>9. \A m \in Node : /\ table'[m] = IF m = n THEN t ELSE table[m]
                      /\ vc'[m] = IF m = n THEN v ELSE vc[m]
                      /\ pending'[m] = IF m = n THEN l ELSE pending[m]
  BY <1>1, <1>2
<1>10. \A m \in Node : \A x \in Contents(table'[m]) \ Listed(mixed) : x \in Contents(table[m])
  BY <1>5, <1>7, <1>9
<1>11. ASSUME NEW m \in Node, NEW x \in Contents(table[m]) \ Listed(mixed)
       PROVE  Unseen(m, x)' <=> Unseen(m, x)
  <2>1. CASE m # n
    BY <1>9, <2>1 DEF Unseen
  <2>2. CASE m = n
    <3>1. x \in RowType
      BY <1>2, <2>2, ContentsByKey
    <3>2. x.owner \in Node /\ x.clock \in Nat /\ Seen(vc[n], x.owner) \in Int
      BY <1>2, <3>1, SeenTyped DEF RowType
    <3>3. Seen(vc'[n], x.owner) = IF x.owner = r.owner /\ Seen(vc[n], x.owner) < r.clock
                                  THEN r.clock ELSE Seen(vc[n], x.owner)
      BY <1>8, <1>9, <3>2
    <3>4. Unseen(n, x) /\ x.owner = r.owner => r.clock < x.clock
      BY <1>5, <2>2 DEF Settled, LaterIsNewer
    <3>5. Unseen(n, x) => Seen(vc'[n], x.owner) < x.clock
      BY <1>4, <3>2, <3>3, <3>4 DEF Unseen
    <3>6. Seen(vc'[n], x.owner) < x.clock => Unseen(n, x)
      BY <1>4, <3>2, <3>3 DEF Unseen
    <3>7. QED
      BY <2>2, <3>5, <3>6 DEF Unseen
  <2>3. QED
    BY <2>1, <2>2
<1>12. OneOwnerEach'
  BY <1>1 DEF Settled, OneOwnerEach
<1>13. LaterIsNewer'
  BY <1>1, <1>10, <1>11 DEF Settled, LaterIsNewer
<1>14. OldRowsAgree' /\ MixedIsNewer'
  BY <1>1, <1>10, <1>11 DEF Settled, OldRowsAgree, MixedIsNewer
<1>15. InOrder'
  BY <1>1, <1>5, <1>9 DEF Settled, InOrder
<1>16. QuietSeen'
  <2> SUFFICES ASSUME quiet, NEW m \in Node, NEW x \in Contents(table'[m]), x \notin Listed(mixed)
               PROVE  ~Unseen(m, x)'
    BY <1>1 DEF QuietSeen
  <2>1. x \in Contents(table[m])
    BY <1>10
  <2>2. ~Unseen(m, x)
    BY <1>3, <2>1 DEF Settled, QuietSeen
  <2>3. QED
    BY <1>11, <2>1, <2>2
<1>17. \A x, p : Beats(x, p)' <=> Beats(x, p)
  BY <1>1 DEF Beats
<1>18. LastWins'
  <2> SUFFICES ASSUME NEW m \in Node \ todo, NEW p \in Listed(mixed), p \notin Listed(pending'[m])
               PROVE  /\ Has(table'[m], p.key)
                      /\ p.clock < table'[m].clock
                      /\ \A x \in Contents(table'[m]) :
                            x.key = p.key =>
                                /\ x.clock >= p.clock
                                /\ x \in Listed(mixed) => Beats(x, p)
                                /\ x \notin Listed(mixed) => Unseen(m, x)'
    BY <1>1, <1>17 DEF LastWins
  <2>1. p \in AllRows /\ p \in RowType /\ p.clock \in Nat
    <3>1. p \in AllRows
      BY DEF AllRows
    <3>2. p \in RowType
      BY <3>1, RowsTyped DEF IInv
    <3>3. QED
      BY <3>1, <3>2 DEF RowType
  <2>2. p \notin Listed(pending[m]) =>
            /\ Has(table[m], p.key)
            /\ p.clock < table[m].clock
            /\ \A x \in Contents(table[m]) :
                  x.key = p.key =>
                      /\ x.clock >= p.clock
                      /\ x \in Listed(mixed) => Beats(x, p)
                      /\ x \notin Listed(mixed) => Unseen(m, x)
    BY <1>3 DEF Settled, LastWins
  <2>3. CASE m # n
    <3>1. table'[m] = table[m] /\ pending'[m] = pending[m]
      BY <1>9, <2>3
    <3>2. QED
      BY <1>11, <2>2, <3>1
  <2>4. CASE m = n /\ p \notin Listed(pending[n])
    <3>1. Has(table'[n], p.key) /\ p.clock < table'[n].clock
      BY <1>7, <1>9, <2>1, <2>2, <2>4
    <3>2. ASSUME NEW x \in Contents(table'[n]), x.key = p.key
          PROVE  /\ x.clock >= p.clock
                 /\ x \in Listed(mixed) => Beats(x, p)
                 /\ x \notin Listed(mixed) => Unseen(n, x)'
      <4>1. CASE x \in Contents(table[n])
        BY <1>11, <2>2, <2>4, <3>2, <4>1
      <4>2. CASE x = r /\ x \notin Contents(table[n])
        <5> DEFINE y == RowOf(table[n], p.key)
        <5>1. y \in Contents(table[n]) /\ y.key = p.key /\ y \in RowType
          BY <1>2, <2>2, <2>4, ContentsByKey
        <5> HIDE DEF y
        <5>2. y.clock >= p.clock /\ y.clock \in Nat
          BY <2>2, <2>4, <5>1 DEF RowType
        <5>3. y.clock <= r.clock
          BY <1>7, <1>9, <3>2, <4>2, <5>1
        <5>4. r.clock >= p.clock
          BY <1>4, <2>1, <5>2, <5>3
        <5>5. \E i, j \in 1..Len(mixed) : j <= i /\ r \in mixed[i] /\ p \in mixed[j]
          BY <1>5, <2>4
        <5>6. Beats(r, p)
          BY <1>4, <2>1, <5>4, <5>5 DEF Beats
        <5>7. QED
          BY <1>5, <4>2, <5>4, <5>6
      <4>3. QED
        BY <1>7, <1>9, <3>2, <4>1, <4>2
    <3>3. QED
      BY <2>4, <3>1, <3>2
  <2>5. CASE m = n /\ p = r
    <3>1. Has(table'[n], p.key) /\ p.clock < table'[n].clock
      BY <1>7, <1>9, <2>5
    <3>2. ASSUME NEW x \in Contents(table'[n]), x.key = r.key
          PROVE  /\ x.clock >= r.clock
                 /\ x \in Listed(mixed) => Beats(x, r)
                 /\ x \notin Listed(mixed) => Unseen(n, x)'
      <4>1. CASE x = r
        <5>1. PICK i \in 1..Len(mixed) : r \in mixed[i]
          BY <1>5 DEF Listed
        <5>2. i <= i
          BY <1>2 DEF Lists
        <5>3. Beats(r, r) /\ r.clock >= r.clock
          BY <1>4, <5>1, <5>2 DEF Beats
        <5>4. QED
          BY <1>5, <4>1, <5>3
      <4>2. CASE x \in Contents(table[n]) /\ x.clock > r.clock
        <5>1. x \in RowType /\ x.clock \in Nat
          BY <1>2, <4>2, ContentsByKey DEF RowType
        <5>2. x \notin Listed(mixed) => Unseen(n, x)
          <6> SUFFICES ASSUME x \notin Listed(mixed), ~Unseen(n, x) PROVE FALSE
            OBVIOUS
          <6>1. x.clock <= r.clock
            BY <1>5, <3>2, <4>2 DEF Settled, MixedIsNewer
          <6>2. QED
            BY <1>4, <4>2, <5>1, <6>1
        <5>3. QED
          BY <1>4, <1>11, <4>2, <5>1, <5>2 DEF Beats
      <4>3. QED
        BY <1>7, <1>9, <3>2, <4>1, <4>2
    <3>3. QED
      BY <2>5, <3>1, <3>2
  <2>6. QED
    BY <1>6, <1>9, <2>3, <2>4, <2>5
<1>19. QED
  BY <1>12, <1>13, <1>14, <1>15, <1>16, <1>18 DEF Settled

LEMMA InitSettled == Init => QuietInv
<1> SUFFICES ASSUME Init PROVE Settled
  BY DEF QuietInv
<1>1. Contents(EmptyTable) = {} /\ Listed(<<>>) = {} /\ Len(<<>>) = 0
  BY DEF Contents, Listed, EmptyTable, Size
<1>2. \A n \in Node : Contents(table[n]) = {}
  BY <1>1 DEF Init
<1>3. mixed = <<>> /\ phase = "idle" /\ ~quiet
  BY DEF Init
<1>4. QED
  BY <1>1, <1>2, <1>3 DEF Settled, OneOwnerEach, LaterIsNewer, OldRowsAgree, MixedIsNewer, InOrder,
                          LastWins, QuietSeen

LEMMA QuietInductive ==
    ASSUME IInv, HoleInv, QuietInv, [Next]_vars PROVE QuietInv'
<1> SUFFICES ASSUME Calm' PROVE Settled'
  BY DEF QuietInv
<1>1. Orderly /\ Complete /\ RoundsAgree
  BY OrderlyBefore DEF HoleInv, Calm
<1>2. ASSUME NEW n \in Node, NEW m \in Node, Pull(n, m) PROVE FALSE
  <2>1. pulls' = pulls + 1 /\ pulls \in Nat /\ pulls' = 0
    BY <1>2 DEF Pull, HoleInv, Counters, Calm
  <2>2. QED
    BY <2>1
<1>3. pulls' = 0
  BY DEF Calm
<1>4. pulls = 0
  <2>1. UNCHANGED pulls \/ \E n, m \in Node : Pull(n, m)
    BY DEF Next, Local, Linear, Gossip, Apply, Loss, Set, Delete, Refresh, StartRound, Gather,
           StartPut, Put, LosePut, EndRound, Push, ApplyRow, mixerVars, gossipVars, vars
  <2>2. QED
    BY <1>2, <1>3, <2>1
<1>5. Settled
  BY <1>1, <1>4 DEF QuietInv, Calm
<1>6. ASSUME NEW n \in Node, NEW k \in Key, NEW v \in Write, Set(n, k, v) PROVE Settled'
  <2>1. /\ table' = [table EXCEPT ![n] = Tick(Store(@, Row(k, n, @.clock, v)))]
        /\ UNCHANGED <<vc, mixed, pending, phase, todo>> /\ ~quiet'
    BY <1>6 DEF Set, Add, mixerVars
  <2>2. QED
    BY <1>1, <1>5, <2>1, WriteSettled
<1>7. ASSUME NEW n \in Node, NEW k \in Key, Refresh(n, k) PROVE Settled'
  <2> DEFINE v == RowOf(table[n], k).value
  <2>1. /\ table' = [table EXCEPT ![n] = Tick(Store(@, Row(k, n, @.clock, v)))]
        /\ Has(table[n], k)
        /\ UNCHANGED <<vc, mixed, pending, phase, todo>> /\ ~quiet'
    BY <1>7 DEF Refresh, UpdateClock, mixerVars, IInv, Sound
  <2>2. RowOf(table[n], k) \in RowType
    BY <2>1, GoodTables, HasIsPresent DEF IInv, Good, WellFormed, Present
  <2>3. v \in Write
    BY <2>2 DEF RowType
  <2> HIDE DEF v
  <2>4. QED
    BY <1>1, <1>5, <2>1, <2>3, WriteSettled
<1>8. ASSUME NEW n \in Node, NEW k \in Key, Delete(n, k) PROVE FALSE
  <2>1. deletes' = deletes + 1 /\ deletes \in Nat /\ deletes' = 0
    BY <1>8 DEF Delete, HoleInv, Counters, Orderly, Calm
  <2>2. QED
    BY <2>1
<1>9. CASE StartRound \/ StartPut
  BY <1>1, <1>4, <1>5, <1>9, RoundSettled
<1>10. CASE EndRound
  BY <1>1, <1>4, <1>5, <1>10, EndSettled
<1>11. ASSUME NEW n \in Node, Gather(n) PROVE Settled'
  BY <1>1, <1>4, <1>5, <1>11, GatherSettled
<1>12. ASSUME NEW n \in Node, Put(n) PROVE Settled'
  BY <1>1, <1>5, <1>12, PutSettled
<1>13. ASSUME NEW n \in Node, LosePut(n) PROVE FALSE
  BY <1>13 DEF LosePut, Orderly, Calm
<1>14. ASSUME NEW msg \in flight, Push(msg) PROVE FALSE
  BY <1>1, <1>4 DEF RoundsAgree
<1>15. ASSUME NEW n \in Node, pending[n] # <<>>, NEW r \in Head(pending[n]), ApplyRow(n, r)
       PROVE  Settled'
  BY <1>1, <1>4, <1>5, <1>15, ApplyRowSettled
<1>16. CASE UNCHANGED vars
  BY <1>5, <1>16 DEF vars, mixerVars, Settled, OneOwnerEach, LaterIsNewer, OldRowsAgree,
                     MixedIsNewer, InOrder, LastWins, QuietSeen, Unseen, Beats
<1>17. QED
  BY <1>2, <1>6, <1>7, <1>8, <1>9, <1>10, <1>11, <1>12, <1>13, <1>14, <1>15, <1>16
     DEF Next, Local, Linear, Gossip, Apply, Loss

LEMMA QuietInvariance == Spec => [](IInv /\ HoleInv /\ QuietInv)
<1>1. Init => QuietInv
  BY InitSettled
<1>2. IInv /\ HoleInv /\ QuietInv /\ [Next]_vars => QuietInv'
  BY QuietInductive
<1>3. QED
  BY <1>1, <1>2, CompleteInvariance, PTL DEF Spec

\* After a linear round during which nobody wrote all tables are equal, although
\* equal clocks of different owners compete for a row, for any number of nodes
\* and keys; earlier rounds may have been disturbed.
THEOREM QuietRoundsConverge == Spec => []QuietRoundConverges
<1>1. ASSUME IInv, HoleInv, QuietInv PROVE QuietRoundConverges
  <2> SUFFICES ASSUME phase = "idle", quiet, deletes = 0, pulls = 0, ~lost,
                      NEW n \in Node, NEW m \in Node, NEW r \in Contents(table[n])
               PROVE  r \in Contents(table[m])
    BY DEF QuietRoundConverges
  <2>1. Complete /\ RoundsAgree /\ Settled
    BY <1>1 DEF HoleInv, QuietInv, Calm, Orderly
  <2>2. mixed = <<>> /\ pending[m] = <<>> /\ Listed(<<>>) = {}
    BY <2>1 DEF RoundsAgree, Listed
  <2>3. \A o \in Node : \A x \in Contents(table[o]) : ~Unseen(o, x)
    BY <2>1, <2>2 DEF Settled, QuietSeen
  <2>4. r \in AllRows /\ r \in RowType /\ Good(table[m])
    BY <1>1, GoodTables, ContentsByKey, TableRowsAreRows DEF IInv
  <2>5. r.owner \in Node /\ r.clock \in Nat
    BY <2>4 DEF RowType
  <2>6. Seen(vc[n], r.owner) = Seen(vc[m], r.owner) /\ Seen(vc[n], r.owner) \in Int
    BY <2>1, <2>5, SeenTyped DEF RoundsAgree, Complete, VectorsAreOld
  <2>7. Seen(vc[m], r.owner) >= r.clock
    BY <2>3, <2>5, <2>6 DEF Unseen
  <2>8. Has(table[m], r.key)
    BY <2>1, <2>2, <2>4, <2>7 DEF Complete, SeenCovered, Covered, Holds, NotOlderIn
  <2> DEFINE s == RowOf(table[m], r.key)
  <2>9. s \in Contents(table[m]) /\ s.key = r.key
    BY <2>4, <2>8, ContentsByKey
  <2>10. r = s
    BY <2>1, <2>2, <2>3, <2>9 DEF Settled, OldRowsAgree
  <2>11. QED
    BY <2>9, <2>10
<1>2. QED
  BY <1>1, QuietInvariance, PTL

\* An exchange leaves no hole: both facts at once.
THEOREM ExchangesAreComplete == Spec => []ExchangesComplete
<1>1. NoHoles /\ QuietRoundConverges => ExchangesComplete
  BY DEF ExchangesComplete
<1>2. QED
  BY <1>1, VectorsHideNothing, QuietRoundsConverge, PTL

---------------------------------------------------------------------------
(* The weights of words: WeightMix.                                        *)

Users == UNION {[S -> UserWeight] : S \in SUBSET Word}

\* The frequencies of some documents.
Frequencies == [document_count : Nat, document_frequencies : [Word -> Nat],
                total_length : Nat, user : Users]

\* What no count of documents goes beyond.
Fits(k) ==
    /\ \A v \in Word : k.document_frequencies[v] <= Wgt!Repeats * k.document_count
    /\ k.total_length <= Wgt!LongestDocument * k.document_count

Docs == [diff : SUBSET Nat, master : SUBSET Nat]

ShapeInv ==
    /\ rows \in [Server -> Docs] /\ counted \in [Server -> Docs]
    /\ weights \in [Server -> [version : Nat, diff : Frequencies, master : Frequencies]]
    /\ folded \in [rows : SUBSET Nat, version : Int, weights : Frequencies, counted : SUBSET Nat]
    /\ due \subseteq Server /\ leg \in {"idle", "gather", "put"}
    /\ updates \in Nat

FitInv ==
    /\ \A n \in Server : Fits(weights[n].diff) /\ Fits(weights[n].master)
    /\ Fits(folded.weights)

\* The documents of a difference on its way are counted or left out.
CountInv ==
    /\ folded.rows \subseteq folded.counted \cup left_out
    /\ \A n \in Server : rows[n].diff \subseteq counted[n].diff
    /\ \A n \in Server \ refused : rows[n].master \subseteq counted[n].master \cup left_out

\* While a round gathers, what it has gathered of is not newer than the fold;
\* while it puts, who is ahead by one took the fold.
AgreeInv ==
    /\ Wgt!WeightsAgree
    /\ leg = "gather" => \A n \in Server \ (due \cup apart) : weights[n].version <= folded.version
    /\ leg = "put" => \A n \in Server \ apart :
          /\ weights[n].version <= folded.version + 1
          /\ weights[n].version = folded.version + 1 =>
                \A m \in Server \ apart : weights[m].version = folded.version =>
                    weights[n].master = Wgt!merge(weights[m].master, folded.weights)

WeightsInv == ShapeInv /\ FitInv /\ CountInv /\ AgreeInv

---------------------------------------------------------------------------
\* Finite sets are the same in the module of the weights and here.
LEMMA WFinite ==
    ASSUME Wgt!WordAssumption
    PROVE  /\ IsFiniteSet(Word) /\ Word # {} /\ IsFiniteSet(Document) /\ Document # {}
           /\ \A fv \in Document : fv \in Seq(Word)
  BY DEF Wgt!WordAssumption, Wgt!IsFiniteSet, IsFiniteSet

LEMMA WSameCardinality == \A S : Wgt!Cardinality(S) = Cardinality(S)
  BY DEF Wgt!Cardinality, Cardinality, Wgt!IsFiniteSet, IsFiniteSet

\* A word is in a document a number of times, and as often as one can be.
LEMMA OccurrencesAreFew ==
    ASSUME Wgt!WordAssumption, NEW fv \in Document, NEW w \in Word
    PROVE  Wgt!Occurrences(fv, w) \in Nat /\ Wgt!Repeats \in Nat /\ Wgt!Occurrences(fv, w) <= Wgt!Repeats
<1> DEFINE all == {Wgt!Occurrences(d, v) : d \in Document, v \in Word}
<1>1. \A d \in Document, v \in Word : Wgt!Occurrences(d, v) \in Nat
  <2> SUFFICES ASSUME NEW d \in Document, NEW v \in Word PROVE Wgt!Occurrences(d, v) \in Nat
    OBVIOUS
  <2>1. d \in Seq(Word) /\ Len(d) \in Nat /\ DOMAIN d = 1..Len(d)
    BY DEF Wgt!WordAssumption
  <2>2. IsFiniteSet(1..Len(d))
    BY <2>1, FS_Interval
  <2>3. IsFiniteSet({i \in DOMAIN d : d[i] = v})
    BY <2>1, <2>2, FS_Subset
  <2>4. QED
    BY <2>3, FS_CardinalityType, WSameCardinality DEF Wgt!Occurrences
<1>2. IsFiniteSet(all)
  <2> DEFINE P == Document \X Word
             f == [p \in P |-> Wgt!Occurrences(p[1], p[2])]
  <2>1. IsFiniteSet(P)
    BY FS_Product, WFinite
  <2>2. all = {f[p] : p \in P}
    <3>1. \A x \in all : \E p \in P : x = f[p]
      <4> SUFFICES ASSUME NEW d \in Document, NEW v \in Word
                   PROVE  \E p \in P : Wgt!Occurrences(d, v) = f[p]
        OBVIOUS
      <4>1. <<d, v>> \in P /\ f[<<d, v>>] = Wgt!Occurrences(d, v)
        OBVIOUS
      <4>2. QED
        BY <4>1
    <3>2. \A p \in P : f[p] \in all
      OBVIOUS
    <3> HIDE DEF all, f
    <3>3. QED
      BY <3>1, <3>2 DEF all
  <2> HIDE DEF P, f, all
  <2>3. IsFiniteSet({f[p] : p \in P})
    BY <2>1, FiniteValues
  <2>4. QED
    BY <2>2, <2>3
<1>3. all \in SUBSET Int /\ Wgt!Occurrences(fv, w) \in all
  BY <1>1
<1> HIDE DEF all
<1>4. \E m \in all : \A k \in all : k <= m
  BY <1>2, <1>3, Largest
<1>5. Wgt!Max(all) \in all /\ \A k \in all : Wgt!Max(all) >= k
  <2>1. \E m \in all : \A k \in all : m >= k
    BY <1>3, <1>4
  <2>2. QED
    BY <2>1 DEF Wgt!Max
<1>6. Wgt!Repeats = Wgt!Max(all)
  BY DEF Wgt!Repeats, all
<1>7. all \subseteq Nat
  BY <1>1 DEF all
<1>8. QED
  BY <1>3, <1>5, <1>6, <1>7

\* A document has a length, and not more than the longest.
LEMMA LengthsAreFew ==
    ASSUME Wgt!WordAssumption, NEW fv \in Document
    PROVE  Len(fv) \in Nat /\ Wgt!LongestDocument \in Nat /\ Len(fv) <= Wgt!LongestDocument
<1> DEFINE f == [d \in Document |-> Len(d)]
           all == {Len(d) : d \in Document}
<1>1. \A d \in Document : Len(d) \in Nat
  BY DEF Wgt!WordAssumption
<1>2. IsFiniteSet(all)
  <2>1. all = {f[d] : d \in Document}
    OBVIOUS
  <2> HIDE DEF f
  <2>2. IsFiniteSet({f[d] : d \in Document})
    BY FiniteValues, WFinite
  <2>3. QED
    BY <2>1, <2>2
<1>3. all \in SUBSET Int /\ Len(fv) \in all /\ all \subseteq Nat
  BY <1>1
<1> HIDE DEF all
<1>4. \E m \in all : \A k \in all : k <= m
  BY <1>2, <1>3, Largest
<1>5. Wgt!Max(all) \in all /\ \A k \in all : Wgt!Max(all) >= k
  <2>1. \E m \in all : \A k \in all : m >= k
    BY <1>3, <1>4
  <2>2. QED
    BY <2>1 DEF Wgt!Max
<1>6. Wgt!LongestDocument = Wgt!Max(all)
  BY DEF Wgt!LongestDocument, all
<1>7. QED
  BY <1>3, <1>5, <1>6

\* So the two bounds are numbers.
LEMMA RepeatsNat == ASSUME Wgt!WordAssumption PROVE Wgt!Repeats \in Nat /\ Wgt!LongestDocument \in Nat
<1>1. PICK fv \in Document : TRUE
  BY DEF Wgt!WordAssumption
<1>2. PICK w \in Word : TRUE
  BY DEF Wgt!WordAssumption
<1>3. QED
  BY <1>1, <1>2, OccurrencesAreFew, LengthsAreFew

\* What arithmetic the bounds need.
LEMMA TimesSum == \A r, a, b \in Nat : r * (a + b) = r * a + r * b
OBVIOUS

\* The same for one document more.
LEMMA TimesOneMore == \A r, a \in Nat : r * (a + 1) = r * a + r /\ r * a \in Nat
OBVIOUS

\* The weights of words given by users.
LEMMA UsersUnited == \A f, g \in Users : Wgt!Over(f, g) \in Users
<1> SUFFICES ASSUME NEW f \in Users, NEW g \in Users PROVE Wgt!Over(f, g) \in Users
  OBVIOUS
<1>1. PICK S \in SUBSET Word : f \in [S -> UserWeight]
  BY DEF Users
<1>2. PICK T \in SUBSET Word : g \in [T -> UserWeight]
  BY DEF Users
<1>3. Wgt!Over(f, g) \in [S \cup T -> UserWeight]
  BY <1>1, <1>2 DEF Wgt!Over
<1>4. QED
  BY <1>3 DEF Users

\* A weight given by a user.
LEMMA UserGiven == \A w \in Word, x \in UserWeight : [v \in {w} |-> x] \in Users
<1> SUFFICES ASSUME NEW w \in Word, NEW x \in UserWeight PROVE [v \in {w} |-> x] \in Users
  OBVIOUS
<1>1. [v \in {w} |-> x] \in [{w} -> UserWeight] /\ {w} \in SUBSET Word
  OBVIOUS
<1>2. QED
  BY <1>1 DEF Users

\* No documents, one more, and those of two models.
LEMMA NoneFit ==
    ASSUME Wgt!WordAssumption
    PROVE  Wgt!keyword_weights \in Frequencies /\ Fits(Wgt!keyword_weights)
<1>1. Wgt!Repeats \in Nat /\ Wgt!LongestDocument \in Nat
  BY RepeatsNat
<1>2. [w \in {} |-> 0] \in Users
  <2>1. [w \in {} |-> 0] \in [{} -> UserWeight]
    OBVIOUS
  <2>2. QED
    BY <2>1 DEF Users
<1>3. QED
  BY <1>1, <1>2 DEF Wgt!keyword_weights, Frequencies, Fits

\* One document more.
LEMMA OneMoreFits ==
    ASSUME Wgt!WordAssumption, NEW k \in Frequencies, Fits(k), NEW fv \in Document
    PROVE  /\ Wgt!update_document_frequency(k, fv) \in Frequencies
           /\ Fits(Wgt!update_document_frequency(k, fv))
<1> DEFINE h == Wgt!update_document_frequency(k, fv)
<1>1. Wgt!Repeats \in Nat /\ Wgt!LongestDocument \in Nat /\ Len(fv) \in Nat /\ Len(fv) <= Wgt!LongestDocument
  BY RepeatsNat, LengthsAreFew
<1>2. \A w \in Word : Wgt!Occurrences(fv, w) \in Nat /\ Wgt!Occurrences(fv, w) <= Wgt!Repeats
  BY OccurrencesAreFew
<1>3. /\ h.document_count = k.document_count + 1
      /\ h.document_frequencies = [w \in Word |-> k.document_frequencies[w] + Wgt!Occurrences(fv, w)]
      /\ h.total_length = k.total_length + Len(fv)
      /\ h = [document_count |-> h.document_count, document_frequencies |-> h.document_frequencies,
              total_length |-> h.total_length, user |-> k.user]
  BY DEF Wgt!update_document_frequency, Frequencies
<1>4. h \in Frequencies
  <2>1. h.document_count \in Nat /\ h.total_length \in Nat /\ k.user \in Users
    BY <1>1, <1>3 DEF Frequencies
  <2>2. h.document_frequencies \in [Word -> Nat]
    BY <1>2, <1>3 DEF Frequencies
  <2> HIDE DEF h
  <2>3. QED
    BY <1>3, <2>1, <2>2 DEF Frequencies
<1>5. Fits(h)
  <2>1. /\ Wgt!Repeats * (k.document_count + 1) = Wgt!Repeats * k.document_count + Wgt!Repeats
        /\ Wgt!LongestDocument * (k.document_count + 1) = Wgt!LongestDocument * k.document_count + Wgt!LongestDocument
        /\ Wgt!Repeats * k.document_count \in Nat /\ Wgt!LongestDocument * k.document_count \in Nat
    BY <1>1, TimesOneMore DEF Frequencies
  <2>2. \A v \in Word : h.document_frequencies[v] <= Wgt!Repeats * h.document_count
    <3> SUFFICES ASSUME NEW v \in Word PROVE h.document_frequencies[v] <= Wgt!Repeats * h.document_count
      OBVIOUS
    <3>1. h.document_frequencies[v] = k.document_frequencies[v] + Wgt!Occurrences(fv, v)
      BY <1>3
    <3>2. k.document_frequencies[v] \in Nat /\ k.document_frequencies[v] <= Wgt!Repeats * k.document_count
      BY DEF Fits, Frequencies
    <3> HIDE DEF h
    <3>3. QED
      BY <1>1, <1>2, <1>3, <2>1, <3>1, <3>2
  <2>3. h.total_length <= Wgt!LongestDocument * h.document_count
    <3>1. k.total_length \in Nat /\ k.total_length <= Wgt!LongestDocument * k.document_count
      BY DEF Fits, Frequencies
    <3> HIDE DEF h
    <3>2. QED
      BY <1>1, <1>3, <2>1, <3>1
  <2>4. QED
    BY <2>2, <2>3 DEF Fits
<1>6. QED
  BY <1>4, <1>5

\* The documents of two models.
LEMMA MergedFit ==
    ASSUME Wgt!WordAssumption, NEW k \in Frequencies, Fits(k), NEW w \in Frequencies, Fits(w)
    PROVE  Wgt!merge(k, w) \in Frequencies /\ Fits(Wgt!merge(k, w))
<1> DEFINE h == Wgt!merge(k, w)
<1>1. Wgt!Repeats \in Nat /\ Wgt!LongestDocument \in Nat
  BY RepeatsNat
<1>2. h \in Frequencies
  <2>1. Wgt!Over(w.user, k.user) \in Users
    BY UsersUnited DEF Frequencies
  <2>2. QED
    BY <2>1 DEF Wgt!merge, Frequencies
<1>3. Fits(h)
  <2>1. /\ Wgt!Repeats * (k.document_count + w.document_count)
             = Wgt!Repeats * k.document_count + Wgt!Repeats * w.document_count
        /\ Wgt!LongestDocument * (k.document_count + w.document_count)
             = Wgt!LongestDocument * k.document_count + Wgt!LongestDocument * w.document_count
        /\ Wgt!Repeats * k.document_count \in Nat /\ Wgt!LongestDocument * k.document_count \in Nat
        /\ Wgt!Repeats * w.document_count \in Nat /\ Wgt!LongestDocument * w.document_count \in Nat
    BY <1>1, TimesSum DEF Frequencies
  <2>2. /\ h.document_count = k.document_count + w.document_count
        /\ h.total_length = k.total_length + w.total_length
        /\ \A v \in Word : h.document_frequencies[v]
                             = k.document_frequencies[v] + w.document_frequencies[v]
    BY DEF Wgt!merge
  <2>3. \A v \in Word : /\ k.document_frequencies[v] \in Nat /\ w.document_frequencies[v] \in Nat
                        /\ k.document_frequencies[v] <= Wgt!Repeats * k.document_count
                        /\ w.document_frequencies[v] <= Wgt!Repeats * w.document_count
    BY DEF Fits, Frequencies
  <2>4. /\ k.total_length \in Nat /\ w.total_length \in Nat
        /\ k.total_length <= Wgt!LongestDocument * k.document_count
        /\ w.total_length <= Wgt!LongestDocument * w.document_count
    BY DEF Fits, Frequencies
  <2> HIDE DEF h
  <2>5. \A v \in Word : h.document_frequencies[v] <= Wgt!Repeats * h.document_count
    BY <2>1, <2>2, <2>3
  <2>6. h.total_length <= Wgt!LongestDocument * h.document_count
    BY <2>1, <2>2, <2>4
  <2>7. QED
    BY <2>5, <2>6 DEF Fits
<1>4. QED
  BY <1>2, <1>3

---------------------------------------------------------------------------
\* Nothing is counted at first.
LEMMA InitWeights == Wgt!WordAssumption /\ Wgt!Init => WeightsInv
<1> SUFFICES ASSUME Wgt!WordAssumption, Wgt!Init PROVE WeightsInv
  OBVIOUS
<1>1. Wgt!keyword_weights \in Frequencies /\ Fits(Wgt!keyword_weights)
  BY NoneFit
<1>2. ShapeInv /\ FitInv
  BY <1>1 DEF Wgt!Init, Wgt!NoDocs, Wgt!NoMix, Docs, ShapeInv, FitInv
<1>3. CountInv /\ AgreeInv
  BY DEF Wgt!Init, Wgt!NoDocs, Wgt!NoMix, CountInv, AgreeInv, Wgt!WeightsAgree
<1>4. QED
  BY <1>2, <1>3 DEF WeightsInv

\* The weights change at one node only.
LEMMA OneNodeKeeps ==
    ASSUME ShapeInv, FitInv, NEW n \in Server, NEW v \in Nat, NEW d \in Frequencies, NEW m \in Frequencies,
           Fits(d), Fits(m),
           weights' = [weights EXCEPT ![n] = [version |-> v, diff |-> d, master |-> m]]
    PROVE  /\ weights' \in [Server -> [version : Nat, diff : Frequencies, master : Frequencies]]
           /\ \A k \in Server : Fits(weights'[k].diff) /\ Fits(weights'[k].master)
           /\ weights'[n].version = v /\ weights'[n].diff = d /\ weights'[n].master = m
           /\ \A k \in Server \ {n} : weights'[k] = weights[k]
  BY DEF ShapeInv, FitInv

\* Setting the difference of a node leaves the rest of it.
LEMMA DiffReplaced ==
    ASSUME NEW n \in Server, ShapeInv, NEW d
    PROVE  [weights EXCEPT ![n].diff = d]
             = [weights EXCEPT ![n] = [version |-> weights[n].version, diff |-> d, master |-> weights[n].master]]
<1>1. PICK r : r = weights[n] /\ r \in [version : Nat, diff : Frequencies, master : Frequencies]
  BY DEF ShapeInv
<1>2. [r EXCEPT !.diff = d] = [version |-> r.version, diff |-> d, master |-> r.master]
  BY <1>1
<1>3. QED
  BY <1>1, <1>2

\* A document is counted in the difference, with its row.
LEMMA UpdateKeeps ==
    ASSUME Wgt!WordAssumption, WeightsInv, NEW n \in Server, NEW fv \in Document, Wgt!update_row(n, fv)
    PROVE  WeightsInv'
<1> DEFINE d == Wgt!update_document_frequency(weights[n].diff, fv)
<1>1. d \in Frequencies /\ Fits(d)
  BY OneMoreFits DEF WeightsInv, ShapeInv, FitInv
<1>2. weights' = [weights EXCEPT ![n] = [version |-> weights[n].version, diff |-> d, master |-> weights[n].master]]
  <2>1. weights' = [weights EXCEPT ![n].diff = d]
    BY DEF Wgt!update_row
  <2> HIDE DEF d
  <2>2. QED
    BY <2>1, DiffReplaced DEF WeightsInv
<1>3. /\ weights[n].version \in Nat /\ weights[n].master \in Frequencies /\ Fits(weights[n].master)
      /\ ShapeInv /\ FitInv
  BY DEF WeightsInv, ShapeInv, FitInv
<1> HIDE DEF d
<1>4. /\ weights' \in [Server -> [version : Nat, diff : Frequencies, master : Frequencies]]
      /\ \A k \in Server : Fits(weights'[k].diff) /\ Fits(weights'[k].master)
      /\ weights'[n].version = weights[n].version /\ weights'[n].master = weights[n].master
      /\ \A k \in Server \ {n} : weights'[k] = weights[k]
  <2>1. PICK v : v = weights[n].version
    OBVIOUS
  <2>2. PICK m : m = weights[n].master
    OBVIOUS
  <2>3. v \in Nat /\ m \in Frequencies /\ Fits(m)
    BY <1>3, <2>1, <2>2
  <2>4. weights' = [weights EXCEPT ![n] = [version |-> v, diff |-> d, master |-> m]]
    BY <1>2, <2>1, <2>2
  <2>5. /\ weights' \in [Server -> [version : Nat, diff : Frequencies, master : Frequencies]]
        /\ \A k \in Server : Fits(weights'[k].diff) /\ Fits(weights'[k].master)
        /\ weights'[n].version = v /\ weights'[n].master = m
        /\ \A k \in Server \ {n} : weights'[k] = weights[k]
    <3>1. ShapeInv /\ FitInv
      BY <1>3
    <3> QED
      BY ONLY n \in Server, <1>1, <2>3, <2>4, <3>1, OneNodeKeeps
  <2> QED
    BY <2>1, <2>2, <2>5
<1>5. ShapeInv'
  <2>1. PICK x : x = updates'
    OBVIOUS
  <2>2. x \in Nat /\ rows \in [Server -> Docs] /\ counted \in [Server -> Docs]
    BY <1>3, <2>1 DEF Wgt!update_row, ShapeInv
  <2>3. /\ rows' = [rows EXCEPT ![n].diff = @ \cup {x}]
        /\ counted' = [counted EXCEPT ![n].diff = @ \cup {x}]
    BY <2>1 DEF Wgt!update_row
  <2>4. rows' \in [Server -> Docs] /\ counted' \in [Server -> Docs]
    BY ONLY n \in Server, <2>2, <2>3 DEF Docs
  <2> QED
    BY <1>3, <1>4, <2>1, <2>2, <2>4 DEF Wgt!update_row, ShapeInv, Wgt!mixVars
<1>6. FitInv'
  BY <1>4 DEF Wgt!update_row, WeightsInv, FitInv, Wgt!mixVars
<1>7. CountInv'
  BY DEF Wgt!update_row, WeightsInv, ShapeInv, Docs, CountInv, Wgt!mixVars
<1>8. AgreeInv'
  <2>1. \A k \in Server : weights'[k].version = weights[k].version /\ weights'[k].master = weights[k].master
    BY <1>4
  <2>2. QED
    BY <2>1 DEF Wgt!update_row, WeightsInv, AgreeInv, Wgt!WeightsAgree, Wgt!mixVars
<1>9. QED
  BY <1>5, <1>6, <1>7, <1>8 DEF WeightsInv

\* Weights given by users count no documents.
LEMMA AddWeightKeeps ==
    ASSUME WeightsInv, NEW n \in Server, NEW w \in Word, NEW x \in UserWeight, Wgt!add_weight(n, w, x)
    PROVE  WeightsInv'
<1> DEFINE k == weights[n].diff
           u == Wgt!Over([v \in {w} |-> x], k.user)
           d == [document_count |-> k.document_count, document_frequencies |-> k.document_frequencies,
                 total_length |-> k.total_length, user |-> u]
<1>1. k \in Frequencies /\ Fits(k)
  BY DEF WeightsInv, ShapeInv, FitInv
<1>2. u \in Users
  <2>1. k.user \in Users /\ [v \in {w} |-> x] \in Users
    BY <1>1, UserGiven DEF Frequencies
  <2>2. QED
    BY <2>1, UsersUnited
<1>3. weights' = [weights EXCEPT ![n] = [version |-> weights[n].version, diff |-> d, master |-> weights[n].master]]
  <2>1. weights' = [weights EXCEPT ![n].diff = [k EXCEPT !.user = u]]
    BY DEF Wgt!add_weight
  <2>2. [k EXCEPT !.user = u] = d
    <3> HIDE DEF k, u
    <3>1. QED
      BY <1>1 DEF Frequencies
  <2> HIDE DEF d, u, k
  <2>3. weights' = [weights EXCEPT ![n].diff = d]
    BY <2>1, <2>2
  <2>4. QED
    BY <2>3, DiffReplaced DEF WeightsInv
<1>4. d \in Frequencies /\ Fits(d)
  <2> HIDE DEF u
  <2>1. QED
    BY <1>1, <1>2 DEF Frequencies, Fits
<1>5. /\ weights[n].version \in Nat /\ weights[n].master \in Frequencies /\ Fits(weights[n].master)
      /\ ShapeInv /\ FitInv
  BY DEF WeightsInv, ShapeInv, FitInv
<1> HIDE DEF d, u
<1>6. /\ weights' \in [Server -> [version : Nat, diff : Frequencies, master : Frequencies]]
      /\ \A i \in Server : Fits(weights'[i].diff) /\ Fits(weights'[i].master)
      /\ weights'[n].version = weights[n].version /\ weights'[n].master = weights[n].master
      /\ \A i \in Server \ {n} : weights'[i] = weights[i]
  BY <1>3, <1>4, <1>5, OneNodeKeeps
<1>7. ShapeInv'
  BY <1>6 DEF Wgt!add_weight, WeightsInv, ShapeInv, Docs, Wgt!mixVars
<1>8. FitInv'
  BY <1>6 DEF Wgt!add_weight, WeightsInv, FitInv, Wgt!mixVars
<1>9. CountInv'
  BY DEF Wgt!add_weight, WeightsInv, CountInv, Wgt!mixVars
<1>10. AgreeInv'
  <2>1. \A i \in Server : weights'[i].version = weights[i].version /\ weights'[i].master = weights[i].master
    BY <1>6
  <2>2. QED
    BY <2>1 DEF Wgt!add_weight, WeightsInv, AgreeInv, Wgt!WeightsAgree, Wgt!mixVars
<1>11. QED
  BY <1>7, <1>8, <1>9, <1>10 DEF WeightsInv

\* A cleared node is apart from then on.
LEMMA ClearKeeps ==
    ASSUME Wgt!WordAssumption, WeightsInv, NEW n \in Server, Wgt!clear(n)
    PROVE  WeightsInv'
<1>1. Wgt!keyword_weights \in Frequencies /\ Fits(Wgt!keyword_weights)
  BY NoneFit
<1>2. weights' = [weights EXCEPT ![n] = [version |-> weights[n].version, diff |-> Wgt!keyword_weights,
                                         master |-> Wgt!keyword_weights]]
  BY DEF Wgt!clear, WeightsInv, ShapeInv
<1>3. weights[n].version \in Nat /\ ShapeInv /\ FitInv
  BY DEF WeightsInv, ShapeInv
<1>4. /\ weights' \in [Server -> [version : Nat, diff : Frequencies, master : Frequencies]]
      /\ \A k \in Server : Fits(weights'[k].diff) /\ Fits(weights'[k].master)
      /\ \A k \in Server \ {n} : weights'[k] = weights[k]
  BY <1>1, <1>2, <1>3, OneNodeKeeps
<1>5. ShapeInv'
  BY <1>4 DEF Wgt!clear, WeightsInv, ShapeInv, Docs, Wgt!NoDocs, Wgt!mixVars
<1>6. FitInv'
  BY <1>4 DEF Wgt!clear, WeightsInv, FitInv, Wgt!mixVars
<1>7. CountInv'
  BY DEF Wgt!clear, WeightsInv, ShapeInv, Docs, Wgt!NoDocs, CountInv, Wgt!mixVars
<1>8. AgreeInv'
  BY <1>4 DEF Wgt!clear, WeightsInv, AgreeInv, Wgt!WeightsAgree, Wgt!mixVars
<1>9. QED
  BY <1>5, <1>6, <1>7, <1>8 DEF WeightsInv

\* A loaded node is what the other one is.
LEMMA UnpackKeeps ==
    ASSUME WeightsInv, NEW n \in Server, NEW m \in Server, Wgt!unpack(n, m)
    PROVE  WeightsInv'
<1>1. /\ weights' = [weights EXCEPT ![n] = weights[m]]
      /\ rows' = [rows EXCEPT ![n] = rows[m]]
      /\ counted' = [counted EXCEPT ![n] = counted[m]]
      /\ UNCHANGED <<Wgt!mixVars, updates>>
  BY DEF Wgt!unpack
<1>2. ShapeInv'
  BY <1>1 DEF WeightsInv, ShapeInv, Wgt!mixVars
<1>3. FitInv'
  BY <1>1 DEF WeightsInv, ShapeInv, FitInv, Wgt!mixVars
<1>4. CountInv'
  BY <1>1 DEF Wgt!unpack, WeightsInv, ShapeInv, CountInv, Wgt!mixVars
<1>5. AgreeInv'
  <2>1. /\ weights'[n] = weights[m] /\ \A k \in Server \ {n} : weights'[k] = weights[k]
        /\ n \notin apart' => m \notin apart /\ leg # "gather"
        /\ \A k \in Server \ {n} : k \in apart' <=> k \in apart
        /\ folded' = folded /\ leg' = leg /\ due' = due
    BY <1>1 DEF Wgt!unpack, WeightsInv, ShapeInv, Wgt!mixVars
  <2> DEFINE src(k) == IF k = n THEN m ELSE k
  <2>2. \A k \in Server \ apart' : src(k) \in Server \ apart /\ weights'[k] = weights[src(k)]
    BY <2>1
  <2>3. leg = "gather" => \A k \in Server \ apart' : k # n
    BY <2>1
  <2> HIDE DEF src
  <2>4. Wgt!WeightsAgree'
    BY <2>2 DEF WeightsInv, AgreeInv, Wgt!WeightsAgree
  <2>5. leg' = "gather" => \A k \in Server \ (due' \cup apart') : weights'[k].version <= folded'.version
    BY <2>1, <2>3 DEF WeightsInv, AgreeInv
  <2>6. leg' = "put" => \A k \in Server \ apart' :
          /\ weights'[k].version <= folded'.version + 1
          /\ weights'[k].version = folded'.version + 1 =>
                \A j \in Server \ apart' : weights'[j].version = folded'.version =>
                    weights'[k].master = Wgt!merge(weights'[j].master, folded'.weights)
    BY <2>1, <2>2 DEF WeightsInv, AgreeInv
  <2>7. QED
    BY <2>4, <2>5, <2>6 DEF AgreeInv
<1>6. QED
  BY <1>2, <1>3, <1>4, <1>5 DEF WeightsInv

\* A fold keeps the shape, the bound, and what is left out of it.
LEMMA GatherKeeps ==
    ASSUME Wgt!WordAssumption, WeightsInv, NEW n \in Server, Wgt!Gather(n)
    PROVE  WeightsInv'
<1> DEFINE g == Wgt!get_diff(n)
<1>1. /\ folded' = Wgt!mix(g, folded) /\ n \in due /\ due' = due \ {n} /\ leg = "gather"
      /\ left_out' = left_out \cup ((counted[n].diff \cup folded.counted) \ folded'.counted)
      /\ UNCHANGED <<Wgt!nodeVars, leg, turns, updates, resets>>
  BY DEF Wgt!Gather
<1>2. /\ g \in [rows : SUBSET Nat, version : Int, weights : Frequencies, counted : SUBSET Nat]
      /\ Fits(g.weights)
      /\ g.rows = rows[n].diff /\ g.counted = counted[n].diff /\ g.version = weights[n].version
  BY DEF Wgt!get_diff, WeightsInv, ShapeInv, FitInv, Docs
<1>3. folded \in [rows : SUBSET Nat, version : Int, weights : Frequencies, counted : SUBSET Nat] /\ Fits(folded.weights)
  BY DEF WeightsInv, ShapeInv, FitInv
<1> HIDE DEF g
<1>4. /\ Wgt!merge(folded.weights, g.weights) \in Frequencies
      /\ Fits(Wgt!merge(folded.weights, g.weights))
  <2>1. folded.weights \in Frequencies /\ g.weights \in Frequencies
    BY <1>2, <1>3
  <2>2. QED
    BY <2>1, <1>2, <1>3, MergedFit
<1>5. /\ folded' \in [rows : SUBSET Nat, version : Int, weights : Frequencies, counted : SUBSET Nat]
      /\ Fits(folded'.weights)
      /\ folded'.rows = folded.rows \cup g.rows
      /\ folded.version <= folded'.version /\ g.version <= folded'.version
  <2>1. CASE g.version = folded.version
    <3>1. folded' = [rows |-> folded.rows \cup g.rows, version |-> folded.version,
                    weights |-> Wgt!merge(folded.weights, g.weights), counted |-> folded.counted \cup g.counted]
      BY <1>1, <2>1 DEF Wgt!mix
    <3>2. QED
      BY <1>2, <1>3, <1>4, <2>1, <3>1
  <2>2. CASE g.version > folded.version
    <3>1. folded' = [g EXCEPT !.rows = folded.rows \cup g.rows]
      BY <1>1, <1>2, <1>3, <2>2 DEF Wgt!mix
    <3>2. QED
      BY <1>2, <1>3, <2>2, <3>1
  <2>3. CASE g.version < folded.version
    <3>0. ~(g.version = folded.version) /\ ~(g.version > folded.version)
      BY <1>2, <1>3, <2>3
    <3>1. folded' = [folded EXCEPT !.rows = folded.rows \cup g.rows]
      BY <1>1, <3>0, Zenon DEF Wgt!mix
    <3>2. QED
      BY <1>2, <1>3, <2>3, <3>1
  <2>4. QED
    BY <1>2, <1>3, <2>1, <2>2, <2>3
<1>6. ShapeInv' /\ FitInv'
  BY <1>1, <1>5 DEF WeightsInv, ShapeInv, FitInv, Wgt!nodeVars
<1>7. CountInv'
  BY <1>1, <1>2, <1>5 DEF WeightsInv, CountInv, Wgt!nodeVars
<1>8. AgreeInv'
  <2>1. Wgt!WeightsAgree'
    BY <1>1 DEF WeightsInv, AgreeInv, Wgt!WeightsAgree, Wgt!nodeVars
  <2>2. \A k \in Server \ (due' \cup apart') : weights'[k].version <= folded'.version
    <3> SUFFICES ASSUME NEW k \in Server \ (due' \cup apart') PROVE weights'[k].version <= folded'.version
      OBVIOUS
    <3>1. weights' = weights /\ apart' = apart /\ folded.version \in Int /\ folded'.version \in Int
          /\ weights[k].version \in Int
      BY <1>1, <1>3, <1>5 DEF Wgt!nodeVars, WeightsInv, ShapeInv
    <3>2. CASE k = n
      BY <3>1, <3>2, <1>2, <1>5
    <3>3. CASE k # n
      <4>1. weights[k].version <= folded.version
        BY <1>1, <3>1, <3>3 DEF WeightsInv, AgreeInv
      <4>2. QED
        BY <3>1, <4>1, <1>5
    <3>4. QED
      BY <3>2, <3>3
  <2>3. QED
    BY <1>1, <2>1, <2>2 DEF AgreeInv
<1>9. QED
  BY <1>6, <1>7, <1>8 DEF WeightsInv

\* A put of the right version makes what others at the next version have; of any
\* other, the node reports a refusal.
LEMMA PutKeeps ==
    ASSUME Wgt!WordAssumption, WeightsInv, NEW n \in Server, Wgt!Put(n)
    PROVE  WeightsInv'
<1> DEFINE old == weights[n]
           new == Wgt!merge(old.master, folded.weights)
<1>1. /\ leg = "put" /\ n \in due /\ due' = due \ {n}
      /\ rows' = [rows EXCEPT ![n] = [diff |-> {}, master |-> rows[n].master \cup folded.rows]]
      /\ UNCHANGED <<apart, folded, leg, left_out, turns, updates, resets>>
  BY DEF Wgt!Put, Wgt!put_rows
<1>2. /\ old \in [version : Nat, diff : Frequencies, master : Frequencies]
      /\ Fits(old.diff) /\ Fits(old.master)
      /\ folded \in [rows : SUBSET Nat, version : Int, weights : Frequencies, counted : SUBSET Nat]
      /\ Fits(folded.weights)
      /\ rows \in [Server -> Docs] /\ counted \in [Server -> Docs]
      /\ ShapeInv /\ FitInv /\ CountInv /\ AgreeInv
  BY DEF WeightsInv, ShapeInv, FitInv
<1>3. rows' \in [Server -> Docs] /\ rows'[n].diff = {} /\ rows'[n].master = rows[n].master \cup folded.rows
      /\ \A k \in Server \ {n} : rows'[k] = rows[k]
  BY <1>1, <1>2 DEF Docs
<1>4. CASE folded.version = old.version
  <2>1. new \in Frequencies /\ Fits(new) /\ Wgt!keyword_weights \in Frequencies /\ Fits(Wgt!keyword_weights)
    BY <1>2, MergedFit, NoneFit
  <2>2. /\ weights' = [weights EXCEPT ![n] = [version |-> old.version + 1, diff |-> Wgt!keyword_weights, master |-> new]]
        /\ counted' = [counted EXCEPT ![n] = [diff |-> {}, master |-> counted[n].master \cup folded.counted]]
        /\ refused' = refused
    BY <1>4 DEF Wgt!Put, Wgt!put_weights, Wgt!Success
  <2>3. old.version + 1 \in Nat
    BY <1>2
  <2> HIDE DEF new, old
  <2>4. /\ weights' \in [Server -> [version : Nat, diff : Frequencies, master : Frequencies]]
        /\ \A k \in Server : Fits(weights'[k].diff) /\ Fits(weights'[k].master)
        /\ weights'[n].version = old.version + 1 /\ weights'[n].master = new
        /\ \A k \in Server \ {n} : weights'[k] = weights[k]
    <3>1. ShapeInv /\ FitInv
      BY <1>2
    <3>2. PICK v : v = old.version + 1
      OBVIOUS
    <3> QED
      BY ONLY n \in Server, <2>1, <2>2, <2>3, <3>1, <3>2, OneNodeKeeps
  <2>5. counted' \in [Server -> Docs] /\ counted'[n].diff = {} /\ counted'[n].master = counted[n].master \cup folded.counted
        /\ \A k \in Server \ {n} : counted'[k] = counted[k]
    BY <1>2, <2>2 DEF Docs
  <2>6. ShapeInv' /\ FitInv'
    BY <1>1, <1>2, <1>3, <2>4, <2>5 DEF ShapeInv, FitInv
  <2>7. CountInv'
    <3>1. \A k \in Server : rows'[k].diff \subseteq counted'[k].diff
      BY <1>2, <1>3, <2>5 DEF CountInv
    <3>2. \A k \in Server \ refused' : rows'[k].master \subseteq counted'[k].master \cup left_out'
      BY <1>1, <1>2, <1>3, <2>2, <2>5 DEF CountInv
    <3>3. QED
      BY <1>1, <1>2, <3>1, <3>2 DEF CountInv
  <2>8. AgreeInv'
    <3>1. \A k \in Server : weights[k].version \in Nat
      BY <1>2 DEF ShapeInv
    <3>2. \A k \in Server \ (apart \cup {n}), i \in Server \ (apart \cup {n}) :
             weights'[k].version = weights'[i].version => weights'[k].master = weights'[i].master
      BY <1>2, <2>4 DEF AgreeInv, Wgt!WeightsAgree
    <3>3. n \notin apart => \A k \in Server \ (apart \cup {n}) :
             /\ weights[k].version = folded.version => weights[k].master = old.master
             /\ weights[k].version = folded.version + 1 => weights[k].master = new
      BY <1>1, <1>2, <1>4 DEF AgreeInv, Wgt!WeightsAgree, old, new
    <3>4. Wgt!WeightsAgree'
      BY <1>1, <1>4, <2>4, <3>2, <3>3 DEF Wgt!WeightsAgree
    <3>5. \A k \in Server \ apart : weights'[k].version <= folded.version + 1
      BY <1>1, <1>2, <1>4, <2>4 DEF AgreeInv
    <3>6. ASSUME NEW k \in Server \ apart, weights'[k].version = folded.version + 1,
                 NEW i \in Server \ apart, weights'[i].version = folded.version
          PROVE  weights'[k].master = Wgt!merge(weights'[i].master, folded.weights)
      <4>1. i # n
        BY <3>6, <2>4, <1>4, <1>2
      <4>2. weights'[i] = weights[i]
        BY <4>1, <2>4
      <4>3. CASE k = n
        BY <4>1, <4>2, <4>3, <2>4, <3>3, <3>6 DEF new
      <4>4. CASE k # n
        <5>1. weights'[k] = weights[k]
          BY <4>4, <2>4
        <5>2. QED
          BY <4>2, <5>1, <3>6, <1>1, <1>2 DEF AgreeInv
      <4>5. QED
        BY <4>3, <4>4
    <3>7. QED
      BY <1>1, <3>4, <3>5, <3>6 DEF AgreeInv
  <2>9. QED
    BY <2>6, <2>7, <2>8 DEF WeightsInv
<1>5. CASE folded.version # old.version
  <2>1. weights' = weights /\ counted' = counted /\ refused' = refused \cup {n}
    BY <1>2, <1>5 DEF Wgt!Put, Wgt!put_weights, Wgt!Success, ShapeInv
  <2>2. ShapeInv' /\ FitInv'
    BY <1>1, <1>2, <1>3, <2>1 DEF ShapeInv, FitInv
  <2>3. CountInv'
    BY <1>1, <1>2, <1>3, <2>1 DEF CountInv
  <2>4. AgreeInv'
    BY <1>1, <1>2, <2>1 DEF AgreeInv, Wgt!WeightsAgree
  <2>5. QED
    BY <2>2, <2>3, <2>4 DEF WeightsInv
<1>6. QED
  BY <1>4, <1>5

\* The steps of the mixer between calls.
LEMMA RoundKeeps ==
    ASSUME Wgt!WordAssumption, WeightsInv,
           Wgt!StartRound \/ Wgt!StartPut \/ Wgt!EndRound \/ \E n \in Server : Wgt!LosePut(n)
    PROVE  WeightsInv'
<1>1. Wgt!keyword_weights \in Frequencies /\ Fits(Wgt!keyword_weights)
  BY NoneFit
<1>2. UNCHANGED <<Wgt!nodeVars, updates>> /\ left_out' = left_out
  BY DEF Wgt!StartRound, Wgt!StartPut, Wgt!EndRound, Wgt!LosePut
<1>3. (folded' = folded \/ folded' = Wgt!NoMix) /\ due' \subseteq Server /\ leg' \in {"idle", "gather", "put"}
  BY DEF Wgt!StartRound, Wgt!StartPut, Wgt!EndRound, Wgt!LosePut, WeightsInv, ShapeInv
<1>4. ShapeInv' /\ FitInv'
  BY <1>1, <1>2, <1>3 DEF WeightsInv, ShapeInv, FitInv, Wgt!NoMix, Wgt!nodeVars
<1>5. CountInv'
  BY <1>2, <1>3 DEF WeightsInv, CountInv, Wgt!NoMix, Wgt!nodeVars
<1>6. AgreeInv'
  <2>1. CASE Wgt!StartRound \/ Wgt!EndRound
    BY <1>2, <2>1 DEF Wgt!StartRound, Wgt!EndRound, WeightsInv, AgreeInv, Wgt!WeightsAgree, Wgt!nodeVars
  <2>2. CASE Wgt!StartPut
    <3>1. \A n \in Server \ apart : weights[n].version <= folded.version /\ weights[n].version \in Int /\ folded.version \in Int
      BY <2>2 DEF Wgt!StartPut, WeightsInv, AgreeInv, ShapeInv
    <3>2. QED
      BY <1>2, <2>2, <3>1 DEF Wgt!StartPut, WeightsInv, AgreeInv, Wgt!WeightsAgree, Wgt!nodeVars
  <2>3. CASE \E n \in Server : Wgt!LosePut(n)
    BY <1>2, <2>3 DEF Wgt!LosePut, WeightsInv, AgreeInv, Wgt!WeightsAgree, Wgt!nodeVars
  <2>4. QED
    BY <2>1, <2>2, <2>3
<1>7. QED
  BY <1>4, <1>5, <1>6 DEF WeightsInv

\* Every step keeps the invariant.
LEMMA NextWeights ==
    ASSUME Wgt!WordAssumption
    PROVE  WeightsInv /\ [Wgt!Next]_Wgt!vars => WeightsInv'
<1> SUFFICES ASSUME WeightsInv, [Wgt!Next]_Wgt!vars PROVE WeightsInv'
  OBVIOUS
<1>1. CASE UNCHANGED Wgt!vars
  BY <1>1 DEF Wgt!vars, Wgt!nodeVars, Wgt!mixVars, WeightsInv, ShapeInv, FitInv, CountInv, AgreeInv, Wgt!WeightsAgree
<1>2. CASE \E n \in Server, fv \in Document : Wgt!update_row(n, fv)
  BY <1>2, UpdateKeeps
<1>3. CASE \E n \in Server, w \in Word, x \in UserWeight : Wgt!add_weight(n, w, x)
  BY <1>3, AddWeightKeeps
<1>4. CASE \E n \in Server : Wgt!clear(n)
  BY <1>4, ClearKeeps
<1>5. CASE \E n, m \in Server : Wgt!unpack(n, m)
  BY <1>5, UnpackKeeps
<1>6. CASE \E n \in Server : Wgt!Gather(n)
  BY <1>6, GatherKeeps
<1>7. CASE \E n \in Server : Wgt!Put(n)
  BY <1>7, PutKeeps
<1>8. CASE Wgt!StartRound \/ Wgt!StartPut \/ Wgt!EndRound \/ \E n \in Server : Wgt!LosePut(n)
  BY <1>8, RoundKeeps
<1>9. QED
  BY <1>1, <1>2, <1>3, <1>4, <1>5, <1>6, <1>7, <1>8 DEF Wgt!Next

\* The invariant implies the property.
LEMMA WeightsInvIsSound == Wgt!WordAssumption /\ WeightsInv => Wgt!WeightsAreSound
<1> SUFFICES ASSUME Wgt!WordAssumption, WeightsInv PROVE Wgt!WeightsAreSound
  OBVIOUS
<1>1. Wgt!FrequenciesFit
  <2> SUFFICES ASSUME NEW n \in Server
               PROVE  LET w == Wgt!merge(weights[n].master, weights[n].diff)
                      IN  /\ \A v \in Word : w.document_frequencies[v] <= Wgt!Repeats * w.document_count
                          /\ w.total_length <= Wgt!LongestDocument * w.document_count
    BY DEF Wgt!FrequenciesFit
  <2>1. Fits(Wgt!merge(weights[n].master, weights[n].diff))
    BY MergedFit DEF WeightsInv, ShapeInv, FitInv
  <2>2. QED
    BY <2>1 DEF Fits
<1>2. Wgt!RowsAreCounted
  BY DEF WeightsInv, CountInv, Wgt!RowsAreCounted
<1>3. Wgt!WeightsAgree
  BY DEF WeightsInv, AgreeInv
<1>4. QED
  BY <1>1, <1>2, <1>3 DEF Wgt!WeightsAreSound

\* Frequencies fit the documents counted, rows come with their weights where no put
\* was refused, and nodes of one version agree on the weights of words, for any
\* nodes, words and documents, whatever is lost, cleared and loaded.
THEOREM WeightsAreSoundHere == ASSUME Wgt!WordAssumption PROVE Wgt!Spec => []Wgt!WeightsAreSound
<1>1. /\ Wgt!Init => WeightsInv
      /\ WeightsInv /\ [Wgt!Next]_Wgt!vars => WeightsInv'
      /\ WeightsInv => Wgt!WeightsAreSound
  BY InitWeights, NextWeights, WeightsInvIsSound
<1>2. QED
  BY <1>1, PTL DEF Wgt!Spec

---------------------------------------------------------------------------
(* Bandits: the arms' trials add up, and none is counted twice but for a   *)
(* lost put or a model unpacked, for any servers, players and arms.        *)
\* Sums and finite sets are the same in the module of the bandits and here.
LEMMA BFinite == ASSUME Bnd!SetsAssumption PROVE IsFiniteSet(Server) /\ IsFiniteSet(Key)
  BY DEF Bnd!SetsAssumption, Bnd!IsFiniteSet, IsFiniteSet

LEMMA BSameSums == \A f, S : Bnd!SumFunctionOnSet(f, S) = SumFunctionOnSet(f, S)
  BY DEF Bnd!SumFunctionOnSet, Bnd!FoldFunctionOnSet, Bnd!MapThenFoldSet,
         SumFunctionOnSet, FoldFunctionOnSet, MapThenFoldSet



\* What an arm can have got; u: whether selecting counts as a trial
Tallies(u) == {c \in [trials : Nat, weight : Nat] : ~u => c.weight <= c.trials}

\* The entries of players: the total is that of the arms.
Entries(u) ==
    {e \in [total : Int, arms : UNION {[A -> Tallies(u)] : A \in SUBSET Key}] :
        e.total = SumFunctionOnSet([a \in DOMAIN e.arms |-> e.arms[a].trials], DOMAIN e.arms)}

Tables(u) == UNION {[P -> Entries(u)] : P \in SUBSET Player}

BanditShape ==
    /\ assume_unrewarded \in BOOLEAN
    /\ arm_ids \in [Server -> Seq(Key)]
    /\ bandits \in [Server -> [mixed : Tables(assume_unrewarded), unmixed : Tables(assume_unrewarded)]]
    /\ total \in Tables(assume_unrewarded)
    /\ due \subseteq Server /\ leg \in {"idle", "gather", "put"}
    /\ given \in [Player -> [Key -> Nat]] /\ again \in [Player -> [Key -> Nat]]
    /\ saved \in [arm_ids : Seq(Key),
                 table : [mixed : Tables(assume_unrewarded), unmixed : Tables(assume_unrewarded)]]

\* The trials of an arm a player had on the servers, before and after MIX
Unmixed(p, a) == [x \in Server |-> Bnd!Info(bandits[x].unmixed, p, a).trials]
Mixed(p, a) == [x \in Server |-> Bnd!Info(bandits[x].mixed, p, a).trials]

\* Those given, and those that are known twice
Known(p, a) == given[p][a] + again[p][a]

\* A server that waits for the difference will still get it.
Waits(ph, td, x) == ph = "gather" \/ (ph = "put" /\ x \in td)
Due(ph, td, T, x) == IF Waits(ph, td, x) THEN T ELSE 0

\* Unmixed trials that are not in the difference, of g that were put into it
Left(ph, td, U, g) ==
    [x \in Server |-> IF ~Waits(ph, td, x) THEN U[x]
                      ELSE IF U[x] <= g[x] THEN 0 ELSE U[x] - g[x]]

\* Whatever server they end up on, those already mixed, those on their way
\* and those not sent yet are no more than were given.
Within(ph, td, U, M, T, G) ==
    \E g \in [Server -> Nat] :
        /\ \A x \in Server : g[x] <= T
        /\ ph = "gather" => \A x \in td : g[x] = 0
        /\ \A x \in Server : M[x] + Due(ph, td, T, x) + SumFunctionOnSet(Left(ph, td, U, g), Server) <= G

TrialsCovered ==
    \A p \in Player, a \in Key :
        Within(leg, due, Unmixed(p, a), Mixed(p, a), Bnd!Info(total, p, a).trials, Known(p, a))

BanditInv == BanditShape /\ TrialsCovered

---------------------------------------------------------------------------
LEMMA NoneIsTally == ASSUME NEW u \in BOOLEAN PROVE Bnd!None \in Tallies(u)
  BY DEF Bnd!None, Tallies

LEMMA InfoIsTally ==
    ASSUME NEW u \in BOOLEAN, NEW t \in Tables(u), NEW p, NEW a
    PROVE  Bnd!Info(t, p, a) \in Tallies(u)
<1>1. CASE p \in DOMAIN t /\ a \in DOMAIN t[p].arms
  <2>1. t[p] \in Entries(u)
    BY <1>1 DEF Tables
  <2>2. \E A \in SUBSET Key : t[p].arms \in [A -> Tallies(u)]
    BY <2>1 DEF Entries
  <2> QED
    BY <1>1, <2>2 DEF Bnd!Info
<1>2. CASE ~(p \in DOMAIN t /\ a \in DOMAIN t[p].arms)
  BY <1>2, NoneIsTally DEF Bnd!Info
<1> QED
  BY <1>1, <1>2

\* What a tally consists of.
LEMMA TallyHas ==
    ASSUME NEW u \in BOOLEAN, NEW c \in Tallies(u)
    PROVE  c.trials \in Nat /\ c.weight \in Nat /\ (~u => c.weight <= c.trials)
  BY DEF Tallies

\* An entry's arms are finitely many, and their trials what the total is of.
LEMMA EntryHas ==
    ASSUME Bnd!SetsAssumption, NEW u \in BOOLEAN, NEW e \in Entries(u)
    PROVE  /\ DOMAIN e.arms \subseteq Key /\ IsFiniteSet(DOMAIN e.arms)
           /\ \A a \in DOMAIN e.arms : e.arms[a] \in Tallies(u) /\ e.arms[a].trials \in Nat
           /\ e.total \in Int
           /\ e.total = SumFunctionOnSet([a \in DOMAIN e.arms |-> e.arms[a].trials], DOMAIN e.arms)
<1>1. PICK A \in SUBSET Key : e.arms \in [A -> Tallies(u)]
  BY DEF Entries
<1>2. IsFiniteSet(A)
  BY <1>1, FS_Subset, BFinite
<1>3. \A a \in A : e.arms[a] \in Tallies(u)
  BY <1>1
<1> QED
  BY <1>1, <1>2, <1>3, TallyHas DEF Entries

\* An entry is made of tallies of arms and the sum of their trials.
LEMMA EntryMade ==
    ASSUME NEW u \in BOOLEAN, NEW A \in SUBSET Key, NEW f \in [A -> Tallies(u)], NEW n \in Int,
           n = SumFunctionOnSet([a \in A |-> f[a].trials], A)
    PROVE  [total |-> n, arms |-> f] \in Entries(u)
<1>1. DOMAIN f = A /\ [a \in DOMAIN f |-> f[a].trials] = [a \in A |-> f[a].trials]
  OBVIOUS
<1> QED
  BY <1>1 DEF Entries

LEMMA TableMade ==
    ASSUME NEW u \in BOOLEAN, NEW P \in SUBSET Player, NEW t, t = [p \in P |-> t[p]],
           \A p \in P : t[p] \in Entries(u)
    PROVE  t \in Tables(u)
<1>1. t \in [P -> Entries(u)]
  OBVIOUS
<1> QED
  BY <1>1 DEF Tables

LEMMA TableHas ==
    ASSUME NEW u \in BOOLEAN, NEW t \in Tables(u)
    PROVE  DOMAIN t \subseteq Player /\ \A p \in DOMAIN t : t[p] \in Entries(u)
  BY DEF Tables

---------------------------------------------------------------------------
LEMMA NoPlayersFit ==
    ASSUME NEW u \in BOOLEAN
    PROVE  Bnd!NoPlayers \in Tables(u) /\ \A p, a : Bnd!Info(Bnd!NoPlayers, p, a) = Bnd!None
<1>1. Bnd!NoPlayers \in [{} -> Entries(u)]
  BY DEF Bnd!NoPlayers
<1> QED
  BY <1>1 DEF Tables, Bnd!Info

LEMMA WithArmFits ==
    ASSUME Bnd!SetsAssumption, NEW u \in BOOLEAN, NEW t \in Tables(u), NEW a \in Key
    PROVE  Bnd!WithArm(t, a) \in Tables(u) /\ \A p, b : Bnd!Info(Bnd!WithArm(t, a), p, b) = Bnd!Info(t, p, b)
<1> DEFINE n == Bnd!WithArm(t, a)
<1>0. n = [p \in DOMAIN t |-> [total |-> t[p].total,
                               arms |-> [b \in DOMAIN t[p].arms \cup {a} |-> Bnd!Info(t, p, b)]]]
  BY DEF Bnd!WithArm
<1> HIDE DEF n
<1>1. ASSUME NEW p \in DOMAIN t PROVE n[p] \in Entries(u)
  <2> DEFINE D == DOMAIN t[p].arms
             A == D \cup {a}
             f == [b \in A |-> Bnd!Info(t, p, b)]
             old == [b \in D |-> t[p].arms[b].trials]
             new == [b \in A |-> f[b].trials]
  <2>1. /\ t[p] \in Entries(u) /\ D \subseteq Key /\ IsFiniteSet(D)
        /\ \A b \in D : t[p].arms[b].trials \in Nat
        /\ t[p].total \in Int /\ t[p].total = SumFunctionOnSet(old, D)
    BY <1>1, TableHas, EntryHas
  <2>2. A \in SUBSET Key /\ IsFiniteSet(A) /\ D \in SUBSET A
    BY <2>1, FS_AddElement
  <2>3. f \in [A -> Tallies(u)]
    BY InfoIsTally
  <2>4. \A b \in A : new[b] \in Int
    BY <2>3, TallyHas
  <2>5. \A b \in D : new[b] = old[b]
    BY <1>1 DEF Bnd!Info
  <2>6. \A b \in A \ D : new[b] = 0
    BY <1>1 DEF Bnd!Info, Bnd!None
  <2> HIDE DEF D, A, f, old, new
  <2>7. SumFunctionOnSet(new, A) = SumFunctionOnSet(new, D)
    BY <2>2, <2>4, <2>6, SumWithZeros
  <2>8. SumFunctionOnSet(new, D) = SumFunctionOnSet(old, D)
    BY <2>1, <2>5, SumSame
  <2>9. t[p].total = SumFunctionOnSet([b \in A |-> f[b].trials], A)
    BY <2>1, <2>7, <2>8 DEF new
  <2>10. [total |-> t[p].total, arms |-> f] \in Entries(u)
    BY <2>1, <2>2, <2>3, <2>9, EntryMade
  <2> QED
    BY <1>0, <1>1, <2>10 DEF f, A, D
<1>2. n \in Tables(u)
  BY <1>0, <1>1, TableHas, TableMade
<1>3. \A p, b : Bnd!Info(n, p, b) = Bnd!Info(t, p, b)
  <2> SUFFICES ASSUME NEW p, NEW b PROVE Bnd!Info(n, p, b) = Bnd!Info(t, p, b)
    OBVIOUS
  <2>1. CASE p \in DOMAIN t
    <3>1. n[p].arms = [c \in DOMAIN t[p].arms \cup {a} |-> Bnd!Info(t, p, c)] /\ p \in DOMAIN n
      BY <1>0, <2>1
    <3>2. CASE b \in DOMAIN t[p].arms \cup {a}
      BY <2>1, <3>1, <3>2 DEF Bnd!Info
    <3>3. CASE b \notin DOMAIN t[p].arms \cup {a}
      BY <2>1, <3>1, <3>3 DEF Bnd!Info
    <3> QED
      BY <3>2, <3>3
  <2>2. CASE p \notin DOMAIN t
    BY <1>0, <2>2 DEF Bnd!Info
  <2> QED
    BY <2>1, <2>2
<1> QED
  BY <1>2, <1>3 DEF n

LEMMA WithoutArmFits ==
    ASSUME Bnd!SetsAssumption, NEW u \in BOOLEAN, NEW t \in Tables(u), NEW a \in Key
    PROVE  /\ Bnd!WithoutArm(t, a) \in Tables(u)
           /\ \A p, b : Bnd!Info(Bnd!WithoutArm(t, a), p, b) \in {Bnd!None, Bnd!Info(t, p, b)}
<1> DEFINE n == Bnd!WithoutArm(t, a)
<1>0. n = [p \in DOMAIN t |-> [total |-> t[p].total - Bnd!Info(t, p, a).trials,
                               arms |-> [b \in DOMAIN t[p].arms \ {a} |-> t[p].arms[b]]]]
  BY DEF Bnd!WithoutArm
<1> HIDE DEF n
<1>1. ASSUME NEW p \in DOMAIN t PROVE n[p] \in Entries(u)
  <2> DEFINE D == DOMAIN t[p].arms
             A == D \ {a}
             f == [b \in A |-> t[p].arms[b]]
             old == [b \in D |-> t[p].arms[b].trials]
             new == [b \in A |-> f[b].trials]
  <2>1. /\ t[p] \in Entries(u) /\ D \subseteq Key /\ IsFiniteSet(D)
        /\ \A b \in D : t[p].arms[b] \in Tallies(u) /\ t[p].arms[b].trials \in Nat
        /\ t[p].total \in Int /\ t[p].total = SumFunctionOnSet(old, D)
    BY <1>1, TableHas, EntryHas
  <2>2. A \in SUBSET Key /\ IsFiniteSet(A)
    BY <2>1, FS_Subset
  <2>3. f \in [A -> Tallies(u)]
    BY <2>1
  <2>4. \A b \in D : old[b] \in Int
    BY <2>1
  <2>5. \A b \in A : new[b] = old[b]
    OBVIOUS
  <2>6. Bnd!Info(t, p, a).trials = IF a \in D THEN old[a] ELSE 0
    BY <1>1 DEF Bnd!Info, Bnd!None
  <2>7. A = IF a \in D THEN D \ {a} ELSE D
    OBVIOUS
  <2> HIDE DEF D, A, f, old, new
  <2>8. SumFunctionOnSet(new, A) = SumFunctionOnSet(old, A)
    BY <2>2, <2>5, SumSame
  <2>9. SumFunctionOnSet(old, A) \in Int
    <3>1. \A b \in A : old[b] \in Int
      BY <2>4, <2>7
    <3> QED
      BY <2>2, <3>1, SumInt
  <2>10. a \in D => SumFunctionOnSet(old, D) = old[a] + SumFunctionOnSet(old, D \ {a})
    BY <2>1, <2>4, SumTake
  <2>11. t[p].total - Bnd!Info(t, p, a).trials = SumFunctionOnSet(old, A)
    BY <2>1, <2>4, <2>6, <2>7, <2>9, <2>10
  <2>12. t[p].total - Bnd!Info(t, p, a).trials = SumFunctionOnSet([b \in A |-> f[b].trials], A)
    BY <2>8, <2>11 DEF new
  <2>13. [total |-> t[p].total - Bnd!Info(t, p, a).trials, arms |-> f] \in Entries(u)
    BY <2>2, <2>3, <2>9, <2>11, <2>12, EntryMade
  <2> QED
    BY <1>0, <1>1, <2>13 DEF f, A, D
<1>2. n \in Tables(u)
  BY <1>0, <1>1, TableHas, TableMade
<1>3. ASSUME NEW p, NEW b PROVE Bnd!Info(n, p, b) \in {Bnd!None, Bnd!Info(t, p, b)}
  <2>1. CASE p \in DOMAIN t
    <3>1. n[p].arms = [c \in DOMAIN t[p].arms \ {a} |-> t[p].arms[c]] /\ p \in DOMAIN n
      BY <1>0, <2>1
    <3> QED
      BY <2>1, <3>1 DEF Bnd!Info
  <2>2. CASE p \notin DOMAIN t
    BY <1>0, <2>2 DEF Bnd!Info
  <2> QED
    BY <2>1, <2>2
<1> QED
  BY <1>2, <1>3 DEF n

LEMMA ForgottenFits ==
    ASSUME NEW u \in BOOLEAN, NEW t \in Tables(u), NEW q, NEW n, n = [p \in DOMAIN t \ {q} |-> t[p]]
    PROVE  n \in Tables(u) /\ \A p, b : Bnd!Info(n, p, b) \in {Bnd!None, Bnd!Info(t, p, b)}
<1>1. \A p \in DOMAIN t \ {q} : n[p] \in Entries(u)
  BY TableHas
<1>2. n \in Tables(u)
  BY <1>1, TableHas, TableMade
<1> QED
  BY <1>2 DEF Bnd!Info

LEMMA EnteredFits ==
    ASSUME Bnd!SetsAssumption, BanditShape, NEW s \in Server, NEW p \in Player
    PROVE  /\ Bnd!Entered(s, p) \in Tables(assume_unrewarded)
           /\ p \in DOMAIN Bnd!Entered(s, p)
           /\ \A q, b : Bnd!Info(Bnd!Entered(s, p), q, b) = Bnd!Info(bandits[s].unmixed, q, b)
<1> DEFINE u == assume_unrewarded
           t == bandits[s].unmixed
           A == Bnd!ToSet(arm_ids[s])
           f == [a \in A |-> Bnd!None]
           n == Bnd!Entered(s, p)
<1>1. u \in BOOLEAN /\ t \in Tables(u) /\ arm_ids[s] \in Seq(Key)
  BY DEF BanditShape
<1>2. n = [q \in DOMAIN t \cup {p} |-> IF q \in DOMAIN t THEN t[q] ELSE [total |-> 0, arms |-> f]]
  BY DEF Bnd!Entered
<1>3. A \in SUBSET Key /\ IsFiniteSet(A)
  <2>1. A \in SUBSET Key
    BY <1>1 DEF Bnd!ToSet
  <2> QED
    BY <2>1, FS_Subset, BFinite
<1>4. [total |-> 0, arms |-> f] \in Entries(u)
  <2>1. f \in [A -> Tallies(u)]
    BY <1>1, NoneIsTally
  <2>2. \A a \in A : [b \in A |-> f[b].trials][a] = 0
    BY DEF Bnd!None
  <2>3. SumFunctionOnSet([b \in A |-> f[b].trials], A) = 0
    <3> HIDE DEF f, A
    <3> QED
      BY <1>3, <2>2, SumOfZeros
  <2> HIDE DEF f, A, u
  <2> QED
    BY <1>1, <1>3, <2>1, <2>3, EntryMade
<1> HIDE DEF n, t, u, A
<1>5. DOMAIN t \cup {p} \in SUBSET Player /\ \A q \in DOMAIN t : t[q] \in Entries(u)
  BY <1>1, TableHas
<1>6. n \in Tables(u)
  <2> DEFINE P == DOMAIN t \cup {p}
  <2>1. n = [q \in P |-> n[q]]
    BY <1>2
  <2>2. \A q \in P : n[q] \in Entries(u)
    BY <1>2, <1>4, <1>5
  <2> QED
    BY <1>1, <1>5, <2>1, <2>2, TableMade
<1>7. p \in DOMAIN n
  BY <1>2
<1>8. ASSUME NEW q, NEW b PROVE Bnd!Info(n, q, b) = Bnd!Info(t, q, b)
  <2>1. CASE q \in DOMAIN t
    BY <1>2, <2>1 DEF Bnd!Info
  <2>2. CASE q \notin DOMAIN t
    <3>1. Bnd!Info(t, q, b) = Bnd!None
      BY <2>2 DEF Bnd!Info
    <3>2. q \in DOMAIN n => n[q].arms = f
      BY <1>2, <2>2
    <3> QED
      BY <3>1, <3>2 DEF Bnd!Info, f
  <2> QED
    BY <2>1, <2>2
<1> QED
  BY <1>6, <1>7, <1>8 DEF n, t, u

LEMMA AddedFits ==
    ASSUME Bnd!SetsAssumption, NEW u \in BOOLEAN, NEW t \in Tables(u), NEW p \in DOMAIN t,
           NEW a \in DOMAIN t[p].arms, NEW k \in Nat, NEW w \in Nat, ~u => w <= k
    PROVE  /\ Bnd!Counted(t, p, a, k, w) \in Tables(u)
           /\ \A q, b : Bnd!Info(Bnd!Counted(t, p, a, k, w), q, b).trials =
                        Bnd!Info(t, q, b).trials + (IF q = p /\ b = a THEN k ELSE 0)
<1> DEFINE D == DOMAIN t[p].arms
           n == Bnd!Counted(t, p, a, k, w)
           f == [t[p].arms EXCEPT ![a] = [trials |-> t[p].arms[a].trials + k, weight |-> t[p].arms[a].weight + w]]
           old == [b \in D |-> t[p].arms[b].trials]
           new == [b \in D |-> f[b].trials]
<1>1. /\ t[p] \in Entries(u) /\ D \subseteq Key /\ IsFiniteSet(D)
      /\ \A b \in D : t[p].arms[b] \in Tallies(u) /\ t[p].arms[b].trials \in Nat
      /\ t[p].total \in Int /\ t[p].total = SumFunctionOnSet(old, D)
  BY TableHas, EntryHas
<1>2. t[p].arms = [b \in D |-> t[p].arms[b]]
  BY <1>1 DEF Entries
<1>3. [trials |-> t[p].arms[a].trials + k, weight |-> t[p].arms[a].weight + w] \in Tallies(u)
  <2>1. t[p].arms[a].trials \in Nat /\ t[p].arms[a].weight \in Nat
        /\ (~u => t[p].arms[a].weight <= t[p].arms[a].trials)
    BY <1>1, TallyHas
  <2> QED
    BY <2>1 DEF Tallies
<1>4. f = [b \in D |-> IF b = a THEN [trials |-> t[p].arms[a].trials + k, weight |-> t[p].arms[a].weight + w]
                       ELSE t[p].arms[b]]
  BY <1>2
<1>5. f \in [D -> Tallies(u)]
  BY <1>1, <1>3, <1>4
<1>6. \A b \in D : old[b] \in Int /\ new[b] \in Int /\ new[b] = old[b] + (IF b = a THEN k ELSE 0)
  BY <1>1, <1>4
<1>7. n = [q \in DOMAIN t |-> IF q = p THEN [total |-> t[p].total + k, arms |-> f] ELSE t[q]]
  <2>1. t = [q \in DOMAIN t |-> t[q]]
    BY DEF Tables
  <2>2. n = [t EXCEPT ![p] = [total |-> t[p].total + k, arms |-> f]]
    BY DEF Bnd!Counted
  <2> QED
    BY <2>1, <2>2
<1> HIDE DEF f, n
<1>8. new = [b \in D |-> f[b].trials]
  OBVIOUS
<1>9. a \in D
  OBVIOUS
<1>10. [total |-> t[p].total + k, arms |-> f] \in Entries(u)
  <2> HIDE DEF D, old, new
  <2>1. SumFunctionOnSet(new, D) = SumFunctionOnSet(old, D) + (new[a] - old[a])
    <3>1. \A b \in D : b # a => old[b] = new[b]
      BY <1>6
    <3> QED
      BY <1>1, <1>6, <1>9, <3>1, SumChange
  <2>2. new[a] - old[a] = k
    BY <1>6, <1>9
  <2>3. t[p].total + k = SumFunctionOnSet([b \in D |-> f[b].trials], D)
    BY <1>1, <1>8, <2>1, <2>2
  <2> QED
    BY <1>1, <1>5, <2>3, EntryMade
<1>11. n \in Tables(u)
  <2>1. n = [q \in DOMAIN t |-> n[q]]
    BY <1>7
  <2>2. \A q \in DOMAIN t : n[q] \in Entries(u)
    BY <1>7, <1>10, TableHas
  <2> QED
    BY <2>1, <2>2, TableHas, TableMade
<1>12. ASSUME NEW q, NEW b
       PROVE  Bnd!Info(n, q, b).trials = Bnd!Info(t, q, b).trials + (IF q = p /\ b = a THEN k ELSE 0)
  <2>1. Bnd!Info(t, q, b).trials \in Nat
    BY InfoIsTally, TallyHas
  <2>2. CASE q = p
    <3>1. n[p].arms = f /\ p \in DOMAIN n /\ DOMAIN f = D
      BY <1>5, <1>7
    <3>2. CASE b \in D
      <4>1. Bnd!Info(n, q, b) = f[b] /\ Bnd!Info(t, q, b) = t[p].arms[b]
        BY <2>2, <3>1, <3>2 DEF Bnd!Info
      <4> QED
        BY <1>6, <2>2, <3>2, <4>1
    <3>3. CASE b \notin D
      <4>1. Bnd!Info(n, q, b) = Bnd!None /\ Bnd!Info(t, q, b) = Bnd!None /\ b # a
        BY <2>2, <3>1, <3>3 DEF Bnd!Info
      <4> QED
        BY <2>1, <4>1
    <3> QED
      BY <3>2, <3>3
  <2>3. CASE q # p
    <3>1. Bnd!Info(n, q, b) = Bnd!Info(t, q, b)
      BY <1>7, <2>3 DEF Bnd!Info
    <3> QED
      BY <2>1, <2>3, <3>1
  <2> QED
    BY <2>2, <2>3
<1> QED
  BY <1>11, <1>12 DEF n

LEMMA MixFits ==
    ASSUME Bnd!SetsAssumption, NEW u \in BOOLEAN, NEW l \in Tables(u), NEW r \in Tables(u)
    PROVE  /\ Bnd!mix(l, r) \in Tables(u)
           /\ \A p, b : Bnd!Info(Bnd!mix(l, r), p, b).trials = Bnd!Info(l, p, b).trials + Bnd!Info(r, p, b).trials
<1> DEFINE n == Bnd!mix(l, r)
           Arms(p) == DOMAIN l[p].arms \cup (IF p \in DOMAIN r THEN DOMAIN r[p].arms ELSE {})
           Both(p) == [a \in Arms(p) |-> [trials |-> Bnd!Info(l, p, a).trials + Bnd!Info(r, p, a).trials,
                                          weight |-> Bnd!Info(l, p, a).weight + Bnd!Info(r, p, a).weight]]
           Two(p) == l[p].total + (IF p \in DOMAIN r THEN r[p].total ELSE 0)
<1>1. n = [p \in DOMAIN l \cup DOMAIN r |->
              IF p \notin DOMAIN l THEN r[p] ELSE [total |-> Two(p), arms |-> Both(p)]]
  BY DEF Bnd!mix
<1> HIDE DEF n
<1>2. ASSUME NEW p, NEW a
      PROVE  [trials |-> Bnd!Info(l, p, a).trials + Bnd!Info(r, p, a).trials,
              weight |-> Bnd!Info(l, p, a).weight + Bnd!Info(r, p, a).weight] \in Tallies(u)
  <2>1. Bnd!Info(l, p, a) \in Tallies(u) /\ Bnd!Info(r, p, a) \in Tallies(u)
    BY InfoIsTally
  <2> QED
    BY <2>1 DEF Tallies
<1>3. \A p, a : Bnd!Info(l, p, a).trials \in Nat /\ Bnd!Info(r, p, a).trials \in Nat
  BY InfoIsTally, TallyHas
<1>4. ASSUME NEW p \in DOMAIN l PROVE [total |-> Two(p), arms |-> Both(p)] \in Entries(u)
  <2> DEFINE A == Arms(p)
             L == DOMAIN l[p].arms
             R == IF p \in DOMAIN r THEN DOMAIN r[p].arms ELSE {}
             fl == [a \in A |-> Bnd!Info(l, p, a).trials]
             fr == [a \in A |-> Bnd!Info(r, p, a).trials]
             ol == [a \in L |-> l[p].arms[a].trials]
             or == [a \in R |-> r[p].arms[a].trials]
             fb == [a \in A |-> Both(p)[a].trials]
  <2>1. /\ L \subseteq Key /\ IsFiniteSet(L)
        /\ l[p].total \in Int /\ l[p].total = SumFunctionOnSet(ol, L)
    BY TableHas, EntryHas
  <2>2. /\ R \subseteq Key /\ IsFiniteSet(R)
        /\ p \in DOMAIN r => r[p].total \in Int /\ r[p].total = SumFunctionOnSet(or, R)
    <3>1. CASE p \in DOMAIN r
      BY <3>1, TableHas, EntryHas
    <3>2. CASE p \notin DOMAIN r
      BY <3>2, FS_EmptySet
    <3> QED
      BY <3>1, <3>2
  <2>3. A \in SUBSET Key /\ IsFiniteSet(A) /\ L \in SUBSET A /\ R \in SUBSET A
    BY <2>1, <2>2, FS_Union
  <2>4. Both(p) \in [A -> Tallies(u)]
    BY <1>2
  <2>5. \A a \in A : fl[a] \in Int /\ fr[a] \in Int /\ fb[a] = fl[a] + fr[a]
    BY <1>3
  <2>6. (\A a \in L : fl[a] = ol[a]) /\ \A a \in A \ L : fl[a] = 0
    BY DEF Bnd!Info, Bnd!None
  <2>7. (\A a \in R : fr[a] = or[a]) /\ \A a \in A \ R : fr[a] = 0
    BY DEF Bnd!Info, Bnd!None
  <2>8. R # {} => p \in DOMAIN r
    OBVIOUS
  <2>9. p \notin DOMAIN r => R = {}
    OBVIOUS
  <2>10. fb = [a \in A |-> Both(p)[a].trials]
    OBVIOUS
  <2> HIDE DEF A, L, R, fl, fr, ol, or, fb, Both
  <2>11. SumFunctionOnSet(fb, A) = SumFunctionOnSet(fl, A) + SumFunctionOnSet(fr, A)
    BY <2>3, <2>5, SumAdd
  <2>12. SumFunctionOnSet(fl, A) = l[p].total
    <3>1. SumFunctionOnSet(fl, A) = SumFunctionOnSet(fl, L)
      BY <2>3, <2>5, <2>6, SumWithZeros
    <3>2. SumFunctionOnSet(fl, L) = SumFunctionOnSet(ol, L)
      BY <2>1, <2>6, SumSame
    <3> QED
      BY <2>1, <3>1, <3>2
  <2>13. SumFunctionOnSet(fr, A) = IF p \in DOMAIN r THEN r[p].total ELSE 0
    <3>1. SumFunctionOnSet(fr, A) = SumFunctionOnSet(fr, R)
      BY <2>3, <2>5, <2>7, SumWithZeros
    <3>2. SumFunctionOnSet(fr, R) = SumFunctionOnSet(or, R)
      BY <2>2, <2>7, SumSame
    <3> QED
      BY <2>2, <2>9, <3>1, <3>2, SumOfNone
  <2>14. Two(p) \in Int /\ Two(p) = SumFunctionOnSet([a \in A |-> Both(p)[a].trials], A)
    BY <2>1, <2>2, <2>10, <2>11, <2>12, <2>13
  <2> QED
    BY <2>3, <2>4, <2>14, EntryMade
<1>5. n \in Tables(u)
  <2> DEFINE P == DOMAIN l \cup DOMAIN r
  <2>1. P \in SUBSET Player
    BY TableHas
  <2>2. n = [p \in P |-> n[p]]
    BY <1>1
  <2>3. \A p \in P : n[p] \in Entries(u)
    BY <1>1, <1>4, TableHas
  <2> QED
    BY <2>1, <2>2, <2>3, TableMade
<1>6. ASSUME NEW p, NEW b
      PROVE  Bnd!Info(n, p, b).trials = Bnd!Info(l, p, b).trials + Bnd!Info(r, p, b).trials
  <2>1. CASE p \in DOMAIN l
    <3>1. p \in DOMAIN n /\ n[p].arms = Both(p) /\ DOMAIN Both(p) = Arms(p)
      BY <1>1, <2>1
    <3>2. CASE b \in Arms(p)
      BY <3>1, <3>2 DEF Bnd!Info
    <3>3. CASE b \notin Arms(p)
      <4>1. Bnd!Info(n, p, b) = Bnd!None /\ Bnd!Info(l, p, b) = Bnd!None /\ Bnd!Info(r, p, b) = Bnd!None
        BY <2>1, <3>1, <3>3 DEF Bnd!Info
      <4> QED
        BY <4>1 DEF Bnd!None
    <3> QED
      BY <3>2, <3>3
  <2>2. CASE p \notin DOMAIN l
    <3>1. Bnd!Info(l, p, b).trials = 0
      BY <2>2 DEF Bnd!Info, Bnd!None
    <3>2. Bnd!Info(n, p, b) = Bnd!Info(r, p, b)
      BY <1>1, <2>2 DEF Bnd!Info
    <3> QED
      BY <1>3, <3>1, <3>2
  <2> QED
    BY <2>1, <2>2
<1> QED
  BY <1>5, <1>6 DEF n

---------------------------------------------------------------------------
LEMMA LeftIsNat ==
    ASSUME NEW ph, NEW td, NEW U \in [Server -> Nat], NEW g \in [Server -> Nat]
    PROVE  \A x \in Server : Left(ph, td, U, g)[x] \in Nat
<1> SUFFICES ASSUME NEW x \in Server PROVE Left(ph, td, U, g)[x] \in Nat
  OBVIOUS
<1>1. U[x] \in Nat /\ g[x] \in Nat
  OBVIOUS
<1> QED
  BY <1>1 DEF Left

LEMMA LeftSumIsNat ==
    ASSUME Bnd!SetsAssumption, NEW ph, NEW td, NEW U \in [Server -> Nat], NEW g \in [Server -> Nat]
    PROVE  SumFunctionOnSet(Left(ph, td, U, g), Server) \in Nat
  BY LeftIsNat, SumNat, BFinite

LEMMA DueIsNat ==
    ASSUME NEW ph, NEW td, NEW T \in Nat, NEW x
    PROVE  Due(ph, td, T, x) \in Nat
  BY DEF Due

\* A server loses trials, or gets k of the k that are given.
LEMMA CoverStorage ==
    ASSUME Bnd!SetsAssumption, NEW ph, NEW td, NEW T \in Nat, NEW G \in Nat, NEW k \in Nat, NEW s \in Server,
           NEW U \in [Server -> Nat], NEW M \in [Server -> Nat],
           NEW V \in [Server -> Nat], NEW N \in [Server -> Nat],
           V[s] <= U[s] + k, \A x \in Server \ {s} : V[x] = U[x], \A x \in Server : N[x] <= M[x],
           Within(ph, td, U, M, T, G)
    PROVE  Within(ph, td, V, N, T, G + k)
<1>1. PICK g \in [Server -> Nat] :
         /\ \A x \in Server : g[x] <= T
         /\ ph = "gather" => \A x \in td : g[x] = 0
         /\ \A x \in Server : M[x] + Due(ph, td, T, x) + SumFunctionOnSet(Left(ph, td, U, g), Server) <= G
  BY DEF Within
<1> DEFINE L == Left(ph, td, U, g)
           R == Left(ph, td, V, g)
           h == [x \in Server |-> IF x = s THEN L[x] + k ELSE L[x]]
<1>2. \A x \in Server : L[x] \in Nat /\ R[x] \in Nat
  BY LeftIsNat
<1>3. \A x \in Server : h[x] \in Nat /\ (x # s => L[x] = h[x])
  BY <1>2
<1>4. \A x \in Server : R[x] <= h[x]
  <2> SUFFICES ASSUME NEW x \in Server PROVE R[x] <= h[x]
    OBVIOUS
  <2>1. U[x] \in Nat /\ V[x] \in Nat /\ g[x] \in Nat /\ V[x] <= U[x] + k /\ (x # s => V[x] = U[x])
    BY <1>1
  <2>2. R[x] = IF ~Waits(ph, td, x) THEN V[x] ELSE IF V[x] <= g[x] THEN 0 ELSE V[x] - g[x]
    BY DEF Left
  <2>3. L[x] = IF ~Waits(ph, td, x) THEN U[x] ELSE IF U[x] <= g[x] THEN 0 ELSE U[x] - g[x]
    BY DEF Left
  <2>4. h[x] = IF x = s THEN L[x] + k ELSE L[x]
    OBVIOUS
  <2> HIDE DEF L, R, h
  <2> QED
    BY <2>1, <2>2, <2>3, <2>4
<1>5. h[s] - L[s] = k
  BY <1>2
<1> HIDE DEF L, R, h
<1>6. SumFunctionOnSet(R, Server) <= SumFunctionOnSet(h, Server)
  BY <1>2, <1>3, <1>4, SumLess, BFinite
<1>7. SumFunctionOnSet(h, Server) = SumFunctionOnSet(L, Server) + (h[s] - L[s])
  BY <1>2, <1>3, SumChange, BFinite
<1>8. SumFunctionOnSet(R, Server) \in Nat /\ SumFunctionOnSet(L, Server) \in Nat
  BY LeftSumIsNat DEF L, R
<1>9. ASSUME NEW x \in Server PROVE N[x] + Due(ph, td, T, x) + SumFunctionOnSet(R, Server) <= G + k
  <2>1. M[x] + Due(ph, td, T, x) + SumFunctionOnSet(L, Server) <= G
    BY <1>1 DEF L
  <2>2. Due(ph, td, T, x) \in Nat
    BY DueIsNat
  <2>3. SumFunctionOnSet(R, Server) <= SumFunctionOnSet(L, Server) + k
    BY <1>5, <1>6, <1>7
  <2>4. N[x] \in Nat /\ M[x] \in Nat /\ N[x] <= M[x]
    OBVIOUS
  <2> QED
    BY <1>8, <2>1, <2>2, <2>3, <2>4
<1> QED
  BY <1>1, <1>9 DEF Within, R

\* With no difference yet, all are left.
LEMMA CoverStart ==
    ASSUME Bnd!SetsAssumption, NEW td, NEW T \in Nat, NEW G \in Nat,
           NEW U \in [Server -> Nat], NEW M \in [Server -> Nat], Within("idle", td, U, M, T, G)
    PROVE  Within("gather", Server, U, M, 0, G)
<1>1. PICK g \in [Server -> Nat] :
         \A x \in Server : M[x] + Due("idle", td, T, x) + SumFunctionOnSet(Left("idle", td, U, g), Server) <= G
  BY DEF Within
<1> DEFINE z == [x \in Server |-> 0]
<1>2. z \in [Server -> Nat] /\ \A x \in Server : z[x] = 0
  OBVIOUS
<1> HIDE DEF z
<1>3. \A x \in Server : Left("idle", td, U, g)[x] = Left("gather", Server, U, z)[x]
  <2> SUFFICES ASSUME NEW x \in Server PROVE Left("idle", td, U, g)[x] = Left("gather", Server, U, z)[x]
    OBVIOUS
  <2>1. U[x] \in Nat /\ z[x] = 0
    BY <1>2
  <2> QED
    BY <2>1 DEF Left, Waits
<1>4. SumFunctionOnSet(Left("idle", td, U, g), Server) = SumFunctionOnSet(Left("gather", Server, U, z), Server)
  <2> DEFINE L == Left("idle", td, U, g)
             R == Left("gather", Server, U, z)
  <2>1. \A x \in Server : L[x] = R[x]
    BY <1>3
  <2> HIDE DEF L, R
  <2>2. SumFunctionOnSet(L, Server) = SumFunctionOnSet(R, Server)
    BY <2>1, SumSame, BFinite
  <2> QED
    BY <2>2 DEF L, R
<1>5. \A x \in Server : Due("gather", Server, 0, x) = 0 /\ Due("idle", td, T, x) = 0
  BY DEF Due, Waits
<1>6. \A x \in Server : M[x] + Due("gather", Server, 0, x) + SumFunctionOnSet(Left("gather", Server, U, z), Server) <= G
  BY <1>1, <1>4, <1>5
<1>7. \A x \in Server : z[x] <= 0
  BY <1>2
<1> QED
  BY <1>2, <1>6, <1>7 DEF Within

\* What a server sends goes from those left into the difference.
LEMMA CoverGather ==
    ASSUME Bnd!SetsAssumption, NEW td \in SUBSET Server, NEW s \in td, NEW T \in Nat, NEW G \in Nat,
           NEW U \in [Server -> Nat], NEW M \in [Server -> Nat], Within("gather", td, U, M, T, G),
           NEW ph, NEW te, ph \in {"gather", "put"}, ph = "put" => te = Server,
           ph = "gather" => te \subseteq td \ {s}, NEW W \in Nat, W = U[s] + T
    PROVE  Within(ph, te, U, M, W, G)
<1>1. PICK g \in [Server -> Nat] :
         /\ \A x \in Server : g[x] <= T
         /\ \A x \in td : g[x] = 0
         /\ \A x \in Server : M[x] + Due("gather", td, T, x)
                                + SumFunctionOnSet(Left("gather", td, U, g), Server) <= G
  BY DEF Within
<1> DEFINE r == [g EXCEPT ![s] = U[s]]
           L == Left("gather", td, U, g)
           R == Left(ph, te, U, r)
<1>2. s \in Server /\ U[s] \in Nat /\ U[s] + T \in Nat
  OBVIOUS
<1>3. r \in [Server -> Nat] /\ r[s] = U[s] /\ \A x \in Server \ {s} : r[x] = g[x]
  BY <1>2
<1> HIDE DEF r
<1>4. \A x \in Server : Waits(ph, te, x) /\ Waits("gather", td, x)
  BY DEF Waits
<1>5. \A x \in Server : L[x] \in Nat /\ R[x] \in Nat
  BY <1>3, LeftIsNat
<1>6. L[s] = U[s] /\ R[s] = 0 /\ \A x \in Server : x # s => L[x] = R[x]
  <2>1. \A x \in Server : L[x] = IF U[x] <= g[x] THEN 0 ELSE U[x] - g[x]
    BY <1>4 DEF Left
  <2>2. \A x \in Server : R[x] = IF U[x] <= r[x] THEN 0 ELSE U[x] - r[x]
    BY <1>4 DEF Left
  <2>3. g[s] = 0
    BY <1>1
  <2> HIDE DEF L, R
  <2> QED
    BY <1>2, <1>3, <2>1, <2>2, <2>3
<1> HIDE DEF L, R
<1>7. SumFunctionOnSet(R, Server) = SumFunctionOnSet(L, Server) + (R[s] - L[s])
  BY <1>2, <1>5, <1>6, SumChange, BFinite
<1>8. SumFunctionOnSet(R, Server) \in Nat /\ SumFunctionOnSet(L, Server) \in Nat
  BY <1>3, LeftSumIsNat DEF L, R
<1>9. ASSUME NEW x \in Server PROVE M[x] + Due(ph, te, W, x) + SumFunctionOnSet(R, Server) <= G
  <2>1. M[x] + T + SumFunctionOnSet(L, Server) <= G
    BY <1>1, <1>4 DEF L, Due
  <2>2. Due(ph, te, W, x) = U[s] + T
    BY <1>4 DEF Due
  <2>3. M[x] \in Nat
    OBVIOUS
  <2> QED
    BY <1>2, <1>6, <1>7, <1>8, <2>1, <2>2, <2>3
<1>10. \A x \in Server : r[x] <= W
  <2> SUFFICES ASSUME NEW x \in Server PROVE r[x] <= W
    OBVIOUS
  <2>1. g[x] \in Nat /\ g[x] <= T
    BY <1>1
  <2> QED
    BY <1>2, <1>3, <2>1
<1>11. ph = "gather" => \A x \in te : r[x] = 0
  BY <1>1, <1>3
<1> QED
  BY <1>3, <1>9, <1>10, <1>11 DEF Within, R

\* A server that takes the difference has what it was due.
LEMMA CoverPut ==
    ASSUME Bnd!SetsAssumption, NEW td \in SUBSET Server, NEW s \in td, NEW T \in Nat, NEW G \in Nat,
           NEW U \in [Server -> Nat], NEW M \in [Server -> Nat],
           NEW V \in [Server -> Nat], NEW N \in [Server -> Nat],
           V[s] = 0, N[s] = T + M[s], \A x \in Server \ {s} : V[x] = U[x] /\ N[x] = M[x],
           NEW ph, ph = "put" \/ (ph = "idle" /\ td = {s}), Within("put", td, U, M, T, G)
    PROVE  Within(ph, td \ {s}, V, N, T, G)
<1>1. PICK g \in [Server -> Nat] :
         /\ \A x \in Server : g[x] <= T
         /\ \A x \in Server : M[x] + Due("put", td, T, x)
                                + SumFunctionOnSet(Left("put", td, U, g), Server) <= G
  BY DEF Within
<1> DEFINE L == Left("put", td, U, g)
           R == Left(ph, td \ {s}, V, g)
<1>2. \A x \in Server : Waits(ph, td \ {s}, x) <=> Waits("put", td, x) /\ x # s
  BY DEF Waits
<1>3. \A x \in Server : L[x] \in Nat /\ R[x] \in Nat
  BY LeftIsNat
<1>4. R[s] = 0 /\ \A x \in Server \ {s} : R[x] = L[x]
  <2>1. \A x \in Server : L[x] = IF ~Waits("put", td, x) THEN U[x] ELSE IF U[x] <= g[x] THEN 0 ELSE U[x] - g[x]
    BY DEF Left
  <2>2. \A x \in Server : R[x] = IF ~Waits(ph, td \ {s}, x) THEN V[x] ELSE IF V[x] <= g[x] THEN 0 ELSE V[x] - g[x]
    BY DEF Left
  <2> HIDE DEF L, R
  <2>3. R[s] = 0
    BY <1>2, <2>2
  <2>4. ASSUME NEW x \in Server \ {s} PROVE R[x] = L[x]
    <3>1. V[x] = U[x] /\ (Waits(ph, td \ {s}, x) <=> Waits("put", td, x))
      BY <1>2
    <3> QED
      BY <2>1, <2>2, <3>1
  <2> QED
    BY <2>3, <2>4
<1> HIDE DEF L, R
<1>5. \A x \in Server : R[x] <= L[x]
  <2> SUFFICES ASSUME NEW x \in Server PROVE R[x] <= L[x]
    OBVIOUS
  <2>1. L[x] \in Nat /\ R[x] \in Nat /\ (x = s => R[x] = 0) /\ (x # s => R[x] = L[x])
    BY <1>3, <1>4
  <2> QED
    BY <2>1
<1>6. SumFunctionOnSet(R, Server) <= SumFunctionOnSet(L, Server)
  BY <1>3, <1>5, SumLess, BFinite
<1>7. SumFunctionOnSet(R, Server) \in Nat /\ SumFunctionOnSet(L, Server) \in Nat
  BY LeftSumIsNat DEF L, R
<1>8. ASSUME NEW x \in Server PROVE N[x] + Due(ph, td \ {s}, T, x) + SumFunctionOnSet(R, Server) <= G
  <2>1. M[x] + Due("put", td, T, x) + SumFunctionOnSet(L, Server) <= G
    BY <1>1 DEF L
  <2>2. N[x] + Due(ph, td \ {s}, T, x) = M[x] + Due("put", td, T, x)
    <3>1. CASE x = s
      <4>1. Due("put", td, T, x) = T /\ Due(ph, td \ {s}, T, x) = 0
        BY <1>2, <3>1 DEF Due, Waits
      <4> QED
        BY <3>1, <4>1
    <3>2. CASE x # s
      BY <1>2, <3>2 DEF Due
    <3> QED
      BY <3>1, <3>2
  <2>3. M[x] \in Nat /\ N[x] \in Nat /\ Due("put", td, T, x) \in Nat /\ Due(ph, td \ {s}, T, x) \in Nat
    BY DueIsNat
  <2> QED
    BY <1>6, <1>7, <2>1, <2>2, <2>3
<1>9. ph # "gather"
  OBVIOUS
<1> QED
  BY <1>1, <1>8, <1>9 DEF Within, R

\* Servers have up to k more of those mixed, and k more are known.
LEMMA CoverMixed ==
    ASSUME Bnd!SetsAssumption, NEW ph, NEW td, NEW T \in Nat, NEW G \in Nat, NEW k \in Nat,
           NEW U \in [Server -> Nat], NEW M \in [Server -> Nat], NEW N \in [Server -> Nat],
           \A x \in Server : N[x] <= M[x] + k, Within(ph, td, U, M, T, G)
    PROVE  Within(ph, td, U, N, T, G + k)
<1>1. PICK g \in [Server -> Nat] :
         /\ \A x \in Server : g[x] <= T
         /\ ph = "gather" => \A x \in td : g[x] = 0
         /\ \A x \in Server : M[x] + Due(ph, td, T, x) + SumFunctionOnSet(Left(ph, td, U, g), Server) <= G
  BY DEF Within
<1>2. SumFunctionOnSet(Left(ph, td, U, g), Server) \in Nat
  BY LeftSumIsNat
<1>3. ASSUME NEW x \in Server
      PROVE  N[x] + Due(ph, td, T, x) + SumFunctionOnSet(Left(ph, td, U, g), Server) <= G + k
  <2>1. Due(ph, td, T, x) \in Nat /\ N[x] \in Nat /\ M[x] \in Nat /\ N[x] <= M[x] + k
    BY DueIsNat
  <2>2. M[x] + Due(ph, td, T, x) + SumFunctionOnSet(Left(ph, td, U, g), Server) <= G
    BY <1>1
  <2> QED
    BY <1>2, <2>1, <2>2
<1> QED
  BY <1>1, <1>3 DEF Within

\* A server that misses the difference still has what it gave.
LEMMA CoverLost ==
    ASSUME Bnd!SetsAssumption, NEW td \in SUBSET Server, NEW s \in td, NEW T \in Nat, NEW G \in Nat,
           NEW U \in [Server -> Nat], NEW M \in [Server -> Nat],
           NEW ph, ph = "put" \/ (ph = "idle" /\ td = {s}), NEW k \in Nat, k = U[s],
           Within("put", td, U, M, T, G)
    PROVE  Within(ph, td \ {s}, U, M, T, G + k)
<1>1. PICK g \in [Server -> Nat] :
         /\ \A x \in Server : g[x] <= T
         /\ \A x \in Server : M[x] + Due("put", td, T, x)
                                + SumFunctionOnSet(Left("put", td, U, g), Server) <= G
  BY DEF Within
<1> DEFINE L == Left("put", td, U, g)
           R == Left(ph, td \ {s}, U, g)
<1>2. \A x \in Server : Waits(ph, td \ {s}, x) <=> Waits("put", td, x) /\ x # s
  BY DEF Waits
<1>3. \A x \in Server : L[x] \in Nat /\ R[x] \in Nat
  BY LeftIsNat
<1>4. R[s] <= L[s] + k /\ \A x \in Server : x # s => L[x] = R[x]
  <2>1. \A x \in Server : L[x] = IF ~Waits("put", td, x) THEN U[x] ELSE IF U[x] <= g[x] THEN 0 ELSE U[x] - g[x]
    BY DEF Left
  <2>2. \A x \in Server : R[x] = IF ~Waits(ph, td \ {s}, x) THEN U[x] ELSE IF U[x] <= g[x] THEN 0 ELSE U[x] - g[x]
    BY DEF Left
  <2> HIDE DEF L, R
  <2>3. R[s] = k
    BY <1>2, <2>2
  <2>4. L[s] \in Nat
    BY <1>3
  <2>5. ASSUME NEW x \in Server, x # s PROVE L[x] = R[x]
    <3>1. Waits(ph, td \ {s}, x) <=> Waits("put", td, x)
      BY <1>2, <2>5
    <3> QED
      BY <2>1, <2>2, <3>1
  <2>6. R[s] <= L[s] + k
    BY <2>3, <2>4
  <2> QED
    BY <2>5, <2>6
<1> HIDE DEF L, R
<1>5. SumFunctionOnSet(R, Server) = SumFunctionOnSet(L, Server) + (R[s] - L[s])
  <2>1. s \in Server
    OBVIOUS
  <2> QED
    BY <1>3, <1>4, <2>1, SumChange, BFinite
<1>6. SumFunctionOnSet(R, Server) \in Nat /\ SumFunctionOnSet(L, Server) \in Nat
  BY LeftSumIsNat DEF L, R
<1>7. ASSUME NEW x \in Server PROVE M[x] + Due(ph, td \ {s}, T, x) + SumFunctionOnSet(R, Server) <= G + k
  <2>1. M[x] + Due("put", td, T, x) + SumFunctionOnSet(L, Server) <= G
    BY <1>1 DEF L
  <2>2. Due(ph, td \ {s}, T, x) <= Due("put", td, T, x)
    BY <1>2 DEF Due
  <2>3. M[x] \in Nat /\ Due("put", td, T, x) \in Nat /\ Due(ph, td \ {s}, T, x) \in Nat
    BY DueIsNat
  <2>4. L[s] \in Nat /\ R[s] \in Nat /\ R[s] <= L[s] + k
    BY <1>3, <1>4
  <2> QED
    BY <1>5, <1>6, <2>1, <2>2, <2>3, <2>4
<1>8. ph # "gather"
  OBVIOUS
<1> QED
  BY <1>1, <1>7, <1>8 DEF Within, R

\* No server has more than are known.
LEMMA CoveredIsEnough ==
    ASSUME Bnd!SetsAssumption, NEW ph, NEW td, NEW T \in Nat, NEW G \in Nat,
           NEW U \in [Server -> Nat], NEW M \in [Server -> Nat], Within(ph, td, U, M, T, G)
    PROVE  \A x \in Server : M[x] + U[x] <= G
<1> SUFFICES ASSUME NEW x \in Server PROVE M[x] + U[x] <= G
  OBVIOUS
<1>1. PICK g \in [Server -> Nat] :
         /\ g[x] <= T
         /\ M[x] + Due(ph, td, T, x) + SumFunctionOnSet(Left(ph, td, U, g), Server) <= G
  BY DEF Within
<1> DEFINE L == Left(ph, td, U, g)
<1>2. \A y \in Server : L[y] \in Nat
  BY LeftIsNat
<1>3. U[x] \in Nat /\ M[x] \in Nat /\ g[x] \in Nat /\ Due(ph, td, T, x) \in Nat
  BY DueIsNat
<1>4. U[x] <= Due(ph, td, T, x) + L[x]
  BY <1>1, <1>3 DEF Left, Due
<1> HIDE DEF L
<1>5. L[x] <= SumFunctionOnSet(L, Server)
  BY <1>2, SumCovers, BFinite
<1>6. SumFunctionOnSet(L, Server) \in Nat
  BY LeftSumIsNat DEF L
<1>7. M[x] + Due(ph, td, T, x) + SumFunctionOnSet(L, Server) <= G
  BY <1>1 DEF L
<1> QED
  BY <1>2, <1>3, <1>4, <1>5, <1>6, <1>7

---------------------------------------------------------------------------
\* The trials a server counts are natural numbers.
LEMMA CountsAreNat ==
    ASSUME BanditShape, NEW p \in Player, NEW a \in Key
    PROVE  /\ Unmixed(p, a) \in [Server -> Nat] /\ Mixed(p, a) \in [Server -> Nat]
           /\ Bnd!Info(total, p, a).trials \in Nat /\ given[p][a] \in Nat /\ again[p][a] \in Nat
           /\ Known(p, a) \in Nat
<1>1. \A x \in Server : /\ bandits[x].unmixed \in Tables(assume_unrewarded)
                        /\ bandits[x].mixed \in Tables(assume_unrewarded)
  BY DEF BanditShape
<1>2. assume_unrewarded \in BOOLEAN
  BY DEF BanditShape
<1>3. \A x \in Server : /\ Bnd!Info(bandits[x].unmixed, p, a).trials \in Nat
                        /\ Bnd!Info(bandits[x].mixed, p, a).trials \in Nat
  BY <1>1, <1>2, InfoIsTally, TallyHas
<1>4. Bnd!Info(total, p, a).trials \in Nat
  <2>1. total \in Tables(assume_unrewarded)
    BY DEF BanditShape
  <2> QED
    BY <1>2, <2>1, InfoIsTally, TallyHas
<1> QED
  BY <1>3, <1>4 DEF Unmixed, Mixed, Known, BanditShape

\* On server s with the tables m and n, the arms have the trials given beyond
\* those they had, or fewer.
Recorded(s, m, n, given2) ==
    \A p \in Player, a \in Key :
        /\ Bnd!Info(m, p, a).trials <= Bnd!Info(bandits[s].mixed, p, a).trials
        /\ \E k \in Nat : /\ given2[p][a] = given[p][a] + k
                          /\ Bnd!Info(n, p, a).trials <= Bnd!Info(bandits[s].unmixed, p, a).trials + k

\* An operation on a server's storage that gives k trials to an arm, or none
LEMMA StorageStep ==
    ASSUME Bnd!SetsAssumption, BanditInv, NEW s \in Server,
           NEW m \in Tables(assume_unrewarded), NEW n \in Tables(assume_unrewarded),
           bandits' = [bandits EXCEPT ![s] = [mixed |-> m, unmixed |-> n]],
           arm_ids' \in [Server -> Seq(Key)], given' \in [Player -> [Key -> Nat]],
           UNCHANGED <<Bnd!settings, Bnd!around>>,
           Recorded(s, m, n, given')
    PROVE  BanditInv'
<1>1. BanditShape'
  BY DEF BanditInv, BanditShape, Bnd!settings, Bnd!around, Bnd!mixVars
<1>2. \A x \in Server \ {s} : bandits'[x] = bandits[x]
  BY DEF BanditInv, BanditShape
<1>3. bandits'[s].mixed = m /\ bandits'[s].unmixed = n
  BY DEF BanditInv, BanditShape
<1>5. \A p \in Player, a \in Key : \E k \in Nat :
         /\ given'[p][a] = given[p][a] + k
         /\ Bnd!Info(n, p, a).trials <= Bnd!Info(bandits[s].unmixed, p, a).trials + k
  BY Zenon DEF Recorded
<1>6. \A p \in Player, a \in Key : Bnd!Info(m, p, a).trials <= Bnd!Info(bandits[s].mixed, p, a).trials
  BY Zenon DEF Recorded
<1>4. ASSUME NEW p \in Player, NEW a \in Key
      PROVE  Within(leg, due, Unmixed(p, a), Mixed(p, a), Bnd!Info(total, p, a).trials, Known(p, a))'
  <2>1. PICK U : U = Unmixed(p, a)
    OBVIOUS
  <2>2. PICK M : M = Mixed(p, a)
    OBVIOUS
  <2>3. PICK T : T = Bnd!Info(total, p, a).trials
    OBVIOUS
  <2>4. PICK G : G = Known(p, a)
    OBVIOUS
  <2>5. PICK V : V = Unmixed(p, a)'
    OBVIOUS
  <2>6. PICK N : N = Mixed(p, a)'
    OBVIOUS
  <2>7. U \in [Server -> Nat] /\ M \in [Server -> Nat] /\ T \in Nat /\ G \in Nat
    BY <2>1, <2>2, <2>3, <2>4, CountsAreNat DEF BanditInv
  <2>8. V \in [Server -> Nat] /\ N \in [Server -> Nat]
    <3>1. \A x \in Server : /\ bandits'[x].unmixed \in Tables(assume_unrewarded)
                            /\ bandits'[x].mixed \in Tables(assume_unrewarded)
      BY <1>2, <1>3 DEF BanditInv, BanditShape
    <3>2. assume_unrewarded \in BOOLEAN
      BY DEF BanditInv, BanditShape
    <3>3. \A x \in Server : /\ Bnd!Info(bandits'[x].unmixed, p, a).trials \in Nat
                            /\ Bnd!Info(bandits'[x].mixed, p, a).trials \in Nat
      BY <3>1, <3>2, InfoIsTally, TallyHas
    <3> QED
      BY <2>5, <2>6, <3>3 DEF Unmixed, Mixed
  <2>9. PICK k \in Nat : /\ given'[p][a] = given[p][a] + k
                         /\ Bnd!Info(n, p, a).trials <= Bnd!Info(bandits[s].unmixed, p, a).trials + k
    BY <1>5
  <2>10. V[s] <= U[s] + k /\ N[s] <= M[s]
    BY <1>3, <1>6, <2>1, <2>2, <2>5, <2>6, <2>9 DEF Unmixed, Mixed
  <2>11. \A x \in Server \ {s} : V[x] = U[x] /\ N[x] = M[x]
    BY <1>2, <2>1, <2>2, <2>5, <2>6 DEF Unmixed, Mixed
  <2>12. \A x \in Server : N[x] <= M[x]
    <3> SUFFICES ASSUME NEW x \in Server PROVE N[x] <= M[x]
      OBVIOUS
    <3>1. N[x] \in Nat /\ M[x] \in Nat
      BY <2>7, <2>8
    <3> QED
      BY <2>10, <2>11, <3>1
  <2>13. Within(leg, due, U, M, T, G)
    BY <2>1, <2>2, <2>3, <2>4 DEF BanditInv, TrialsCovered
  <2>14. Within(leg, due, V, N, T, G + k)
    <3>1. PICK ph : ph = leg
      OBVIOUS
    <3>2. PICK td : td = due
      OBVIOUS
    <3>3. Within(ph, td, U, M, T, G) => Within(ph, td, V, N, T, G + k)
      BY ONLY Bnd!SetsAssumption, <2>7, <2>8, <2>10, <2>11, <2>12, CoverStorage, s \in Server, k \in Nat
    <3> QED
      BY <2>13, <3>1, <3>2, <3>3
  <2>15. leg' = leg /\ due' = due /\ Bnd!Info(total', p, a).trials = T
    BY <2>3 DEF Bnd!around, Bnd!mixVars
  <2>16. Known(p, a)' = G + k
    <3>1. given[p][a] \in Nat /\ again[p][a] \in Nat
      BY CountsAreNat DEF BanditInv
    <3>2. again'[p][a] = again[p][a]
      BY DEF Bnd!around
    <3> QED
      BY <2>4, <2>9, <3>1, <3>2 DEF Known
  <2> QED
    BY <2>5, <2>6, <2>14, <2>15, <2>16
<1> QED
  BY <1>1, <1>4 DEF BanditInv, TrialsCovered

\* A step of MIX that leaves the storages alone
LEMMA RoundStep ==
    ASSUME Bnd!SetsAssumption, BanditInv, UNCHANGED <<Bnd!settings, arm_ids, bandits, saved, given, again>>,
           total' \in Tables(assume_unrewarded), due' \subseteq Server, leg' \in {"idle", "gather", "put"},
           \A p \in Player, a \in Key :
              Within(leg', due', Unmixed(p, a), Mixed(p, a), Bnd!Info(total', p, a).trials, Known(p, a))
    PROVE  BanditInv'
<1>1. BanditShape'
  BY DEF BanditInv, BanditShape, Bnd!settings
<1>2. TrialsCovered'
  BY DEF TrialsCovered, Unmixed, Mixed, Known, Bnd!settings
<1> QED
  BY <1>1, <1>2 DEF BanditInv

---------------------------------------------------------------------------
LEMMA BanditStarts == ASSUME Bnd!SetsAssumption, Bnd!Init PROVE BanditInv
<1>1. PICK u \in BOOLEAN : u = assume_unrewarded
  BY DEF Bnd!Init
<1>2. Bnd!NoPlayers \in Tables(u) /\ \A p, a : Bnd!Info(Bnd!NoPlayers, p, a) = Bnd!None
  BY <1>1, NoPlayersFit
<1>3. BanditShape
  BY <1>1, <1>2 DEF Bnd!Init, BanditShape
<1>4. ASSUME NEW p \in Player, NEW a \in Key
      PROVE  Within(leg, due, Unmixed(p, a), Mixed(p, a), Bnd!Info(total, p, a).trials, Known(p, a))
  <2> DEFINE z == [x \in Server |-> 0]
             L == Left("idle", {}, z, z)
  <2>1. Unmixed(p, a) = z /\ Mixed(p, a) = z
    BY <1>2 DEF Bnd!Init, Unmixed, Mixed, Bnd!None
  <2>2. Bnd!Info(total, p, a).trials = 0 /\ Known(p, a) = 0 /\ leg = "idle" /\ due = {}
    BY <1>2 DEF Bnd!Init, Bnd!None, Known
  <2>3. \A x \in Server : L[x] = 0
    BY DEF Left, Waits
  <2>4. SumFunctionOnSet(L, Server) = 0
    <3> HIDE DEF L
    <3> QED
      BY <2>3, SumOfZeros, BFinite
  <2>5. \A x \in Server : z[x] + Due("idle", {}, 0, x) + SumFunctionOnSet(L, Server) <= 0
    BY <2>4 DEF Due, Waits
  <2>6. z \in [Server -> Nat] /\ \A x \in Server : z[x] <= 0
    OBVIOUS
  <2>7. Within("idle", {}, z, z, 0, 0)
    <3> HIDE DEF z
    <3> QED
      BY <2>5, <2>6 DEF Within
  <2> QED
    BY <2>1, <2>2, <2>7
<1> QED
  BY <1>3, <1>4 DEF BanditInv, TrialsCovered

\* Nothing is given, and the arms have what they had or nothing.
LEMMA LosingStep ==
    ASSUME Bnd!SetsAssumption, BanditInv, NEW s \in Server,
           NEW m \in Tables(assume_unrewarded), NEW n \in Tables(assume_unrewarded),
           bandits' = [bandits EXCEPT ![s] = [mixed |-> m, unmixed |-> n]],
           arm_ids' \in [Server -> Seq(Key)], UNCHANGED <<given, Bnd!settings, Bnd!around>>,
           \A p, a : /\ Bnd!Info(m, p, a) \in {Bnd!None, Bnd!Info(bandits[s].mixed, p, a)}
                     /\ Bnd!Info(n, p, a) \in {Bnd!None, Bnd!Info(bandits[s].unmixed, p, a)}
    PROVE  BanditInv'
<1>1. ASSUME NEW p \in Player, NEW a \in Key
      PROVE  /\ Bnd!Info(m, p, a).trials <= Bnd!Info(bandits[s].mixed, p, a).trials
             /\ \E k \in Nat : /\ given'[p][a] = given[p][a] + k
                               /\ Bnd!Info(n, p, a).trials <= Bnd!Info(bandits[s].unmixed, p, a).trials + k
  <2>1. /\ Bnd!Info(bandits[s].mixed, p, a).trials = Mixed(p, a)[s]
        /\ Bnd!Info(bandits[s].unmixed, p, a).trials = Unmixed(p, a)[s]
    BY DEF Mixed, Unmixed
  <2>2. Mixed(p, a)[s] \in Nat /\ Unmixed(p, a)[s] \in Nat /\ given[p][a] \in Nat
    BY CountsAreNat DEF BanditInv
  <2>3. Bnd!Info(m, p, a).trials <= Bnd!Info(bandits[s].mixed, p, a).trials
    BY <2>1, <2>2 DEF Bnd!None
  <2>4. Bnd!Info(n, p, a).trials <= Bnd!Info(bandits[s].unmixed, p, a).trials + 0
    BY <2>1, <2>2 DEF Bnd!None
  <2>5. given'[p][a] = given[p][a] + 0
    BY <2>2
  <2> QED
    BY <2>3, <2>4, <2>5
<1>2. given' \in [Player -> [Key -> Nat]]
  BY DEF BanditInv, BanditShape
<1>3. Recorded(s, m, n, given')
  BY <1>1 DEF Recorded
<1>4. UNCHANGED <<Bnd!settings, Bnd!around>>
  OBVIOUS
<1> QED
  BY <1>2, <1>3, <1>4, StorageStep

LEMMA StorageHas ==
    ASSUME BanditShape, NEW s \in Server
    PROVE  /\ bandits[s] = [mixed |-> bandits[s].mixed, unmixed |-> bandits[s].unmixed]
           /\ bandits[s].mixed \in Tables(assume_unrewarded)
           /\ bandits[s].unmixed \in Tables(assume_unrewarded)
           /\ assume_unrewarded \in BOOLEAN /\ arm_ids[s] \in Seq(Key)
           /\ \A n : [bandits EXCEPT ![s].unmixed = n] =
                     [bandits EXCEPT ![s] = [mixed |-> bandits[s].mixed, unmixed |-> n]]
<1>1. /\ bandits[s] \in [mixed : Tables(assume_unrewarded), unmixed : Tables(assume_unrewarded)]
      /\ assume_unrewarded \in BOOLEAN /\ arm_ids[s] \in Seq(Key)
      /\ bandits = [x \in Server |-> bandits[x]]
  BY DEF BanditShape
<1>2. PICK r : r = bandits[s]
  OBVIOUS
<1>3. r = [mixed |-> r.mixed, unmixed |-> r.unmixed]
  BY <1>1, <1>2
<1>4. ASSUME NEW n PROVE [r EXCEPT !.unmixed = n] = [mixed |-> r.mixed, unmixed |-> n]
  BY <1>1, <1>2
<1> QED
  BY <1>1, <1>2, <1>3, <1>4

LEMMA RegisterStep ==
    ASSUME Bnd!SetsAssumption, BanditInv, NEW s \in Server, NEW a \in Key, Bnd!register_arm(s, a) PROVE BanditInv'
<1> DEFINE n == Bnd!WithArm(bandits[s].unmixed, a)
<1>1. /\ n \in Tables(assume_unrewarded)
      /\ \A p, b : Bnd!Info(n, p, b) = Bnd!Info(bandits[s].unmixed, p, b)
  BY StorageHas, WithArmFits DEF BanditInv
<1>2. bandits' = [bandits EXCEPT ![s].unmixed = n]
  BY DEF Bnd!register_arm
<1> HIDE DEF n
<1>3. bandits' = [bandits EXCEPT ![s] = [mixed |-> bandits[s].mixed, unmixed |-> n]]
  BY <1>2, StorageHas DEF BanditInv
<1>4. arm_ids' \in [Server -> Seq(Key)] /\ UNCHANGED <<given, Bnd!settings, Bnd!around>>
  BY DEF Bnd!register_arm, Bnd!Op, BanditInv, BanditShape
<1>5. bandits[s].mixed \in Tables(assume_unrewarded)
  BY StorageHas DEF BanditInv
<1> QED
  BY <1>1, <1>3, <1>4, <1>5, LosingStep

LEMMA RemoveIsSeq == ASSUME NEW q \in Seq(Key), NEW a PROVE Bnd!RemoveFirst(q, a) \in Seq(Key)
<1> DEFINE I == {i \in 1..Len(q) : q[i] = a}
<1>1. CASE \E i \in 1..Len(q) : q[i] = a
  <2>1. Bnd!RemoveFirst(q, a) = Bnd!RemoveAt(q, Bnd!Min(I))
    BY <1>1 DEF Bnd!RemoveFirst, Bnd!SelectInSeq
  <2>2. I \in SUBSET Nat /\ I # {}
    BY <1>1
  <2>3. Bnd!Min(I) \in I
    BY <2>2, Least DEF Bnd!Min
  <2>4. PICK i \in 1..Len(q) : i = Bnd!Min(I)
    BY <2>3
  <2>5. SubSeq(q, 1, i - 1) \in Seq(Key) /\ SubSeq(q, i + 1, Len(q)) \in Seq(Key)
    OBVIOUS
  <2> QED
    BY <2>1, <2>4, <2>5 DEF Bnd!RemoveAt
<1>2. CASE ~\E i \in 1..Len(q) : q[i] = a
  BY <1>2 DEF Bnd!RemoveFirst
<1> QED
  BY <1>1, <1>2

LEMMA DeleteStep ==
    ASSUME Bnd!SetsAssumption, BanditInv, NEW s \in Server, NEW a \in Key, Bnd!delete_arm(s, a) PROVE BanditInv'
<1> DEFINE m == Bnd!WithoutArm(bandits[s].mixed, a)
           n == Bnd!WithoutArm(bandits[s].unmixed, a)
<1>1. m \in Tables(assume_unrewarded) /\ n \in Tables(assume_unrewarded)
  BY StorageHas, WithoutArmFits DEF BanditInv
<1>2. \A p, b : /\ Bnd!Info(m, p, b) \in {Bnd!None, Bnd!Info(bandits[s].mixed, p, b)}
                /\ Bnd!Info(n, p, b) \in {Bnd!None, Bnd!Info(bandits[s].unmixed, p, b)}
  BY StorageHas, WithoutArmFits DEF BanditInv
<1>3. bandits' = [bandits EXCEPT ![s] = [mixed |-> m, unmixed |-> n]]
  BY DEF Bnd!delete_arm
<1>4. arm_ids' \in [Server -> Seq(Key)] /\ UNCHANGED <<given, Bnd!settings, Bnd!around>>
  BY RemoveIsSeq DEF Bnd!delete_arm, Bnd!Op, BanditInv, BanditShape
<1> HIDE DEF m, n
<1> QED
  BY <1>1, <1>2, <1>3, <1>4, LosingStep

\* k trials are counted for an arm, or the entry does not have the arm.
LEMMA AddStep ==
    ASSUME Bnd!SetsAssumption, BanditInv, NEW s \in Server, NEW p \in Player, NEW a \in Key,
           NEW k \in Nat, NEW w \in Nat, ~assume_unrewarded => w <= k, Bnd!Add(s, p, a, k, w),
           UNCHANGED <<arm_ids, Bnd!settings, Bnd!around>>
    PROVE  BanditInv'
<1> DEFINE t == Bnd!Entered(s, p)
           m == bandits[s].mixed
           n == Bnd!Counted(t, p, a, k, w)
<1>0. PICK u \in BOOLEAN : u = assume_unrewarded
  BY StorageHas DEF BanditInv
<1>1. /\ t \in Tables(u) /\ p \in DOMAIN t
      /\ \A q, b : Bnd!Info(t, q, b) = Bnd!Info(bandits[s].unmixed, q, b)
  BY <1>0, EnteredFits DEF BanditInv
<1>2. m \in Tables(u)
  BY <1>0, StorageHas DEF BanditInv
<1>3. arm_ids' \in [Server -> Seq(Key)]
  BY DEF BanditInv, BanditShape
<1>4. CASE a \notin DOMAIN t[p].arms
  <2>1. bandits' = [bandits EXCEPT ![s].unmixed = t] /\ UNCHANGED given
    BY <1>4 DEF Bnd!Add
  <2> HIDE DEF t
  <2>2. bandits' = [bandits EXCEPT ![s] = [mixed |-> m, unmixed |-> t]]
    BY <2>1, StorageHas DEF BanditInv
  <2>3. /\ t \in Tables(assume_unrewarded) /\ m \in Tables(assume_unrewarded)
        /\ \A q, b : Bnd!Info(m, q, b) = Bnd!Info(bandits[s].mixed, q, b)
    BY <1>0, <1>1, <1>2
  <2>4. UNCHANGED <<given, Bnd!settings, Bnd!around>>
    BY <2>1
  <2>5. \A q, b : /\ Bnd!Info(m, q, b) \in {Bnd!None, Bnd!Info(bandits[s].mixed, q, b)}
                  /\ Bnd!Info(t, q, b) \in {Bnd!None, Bnd!Info(bandits[s].unmixed, q, b)}
    BY <1>1, <2>3
  <2> HIDE DEF m
  <2> QED
    BY <1>3, <2>2, <2>3, <2>4, <2>5, LosingStep
<1>5. CASE a \in DOMAIN t[p].arms
  <2>1. bandits' = [bandits EXCEPT ![s].unmixed = n] /\ given' = [given EXCEPT ![p][a] = @ + k]
    BY <1>5 DEF Bnd!Add
  <2>2. /\ n \in Tables(u)
        /\ \A q, b : Bnd!Info(n, q, b).trials = Bnd!Info(t, q, b).trials + (IF q = p /\ b = a THEN k ELSE 0)
    <3>1. PICK v : v = t
      OBVIOUS
    <3>2. v \in Tables(u) /\ p \in DOMAIN v /\ a \in DOMAIN v[p].arms
      BY <1>1, <1>5, <3>1
    <3>3. ~u => w <= k
      BY <1>0
    <3>4. /\ Bnd!Counted(v, p, a, k, w) \in Tables(u)
          /\ \A q, b : Bnd!Info(Bnd!Counted(v, p, a, k, w), q, b).trials =
                       Bnd!Info(v, q, b).trials + (IF q = p /\ b = a THEN k ELSE 0)
      BY <3>2, <3>3, AddedFits
    <3> QED
      BY <3>1, <3>4
  <2> HIDE DEF n
  <2>3. bandits' = [bandits EXCEPT ![s] = [mixed |-> m, unmixed |-> n]]
    BY <2>1, StorageHas DEF BanditInv
  <2>4. /\ given' \in [Player -> [Key -> Nat]]
        /\ \A q \in Player, b \in Key :
              given'[q][b] = given[q][b] + (IF q = p /\ b = a THEN k ELSE 0)
    BY <2>1 DEF BanditInv, BanditShape
  <2>5. ASSUME NEW q \in Player, NEW b \in Key
        PROVE  /\ Bnd!Info(m, q, b).trials <= Bnd!Info(bandits[s].mixed, q, b).trials
               /\ \E j \in Nat : /\ given'[q][b] = given[q][b] + j
                                 /\ Bnd!Info(n, q, b).trials <= Bnd!Info(bandits[s].unmixed, q, b).trials + j
    <3>1. Bnd!Info(m, q, b).trials \in Nat /\ Bnd!Info(bandits[s].unmixed, q, b).trials \in Nat
      <4>1. Mixed(q, b)[s] \in Nat /\ Unmixed(q, b)[s] \in Nat
        BY CountsAreNat DEF BanditInv
      <4> QED
        BY <4>1 DEF Mixed, Unmixed
    <3>2. PICK j \in Nat : j = IF q = p /\ b = a THEN k ELSE 0
      OBVIOUS
    <3>3. Bnd!Info(n, q, b).trials = Bnd!Info(bandits[s].unmixed, q, b).trials + j
      BY <1>1, <2>2, <3>2
    <3>4. given'[q][b] = given[q][b] + j
      BY <2>4, <3>2
    <3> QED
      BY <3>1, <3>3, <3>4
  <2> HIDE DEF m, t
  <2>6. m \in Tables(assume_unrewarded) /\ n \in Tables(assume_unrewarded)
    BY <1>0, <1>2, <2>2
  <2>7. UNCHANGED <<Bnd!settings, Bnd!around>>
    OBVIOUS
  <2>8. Recorded(s, m, n, given')
    BY <2>5 DEF Recorded
  <2>9. given' \in [Player -> [Key -> Nat]]
    BY <2>4
  <2> QED
    BY <1>3, <2>3, <2>6, <2>7, <2>8, <2>9, StorageStep
<1> QED
  BY <1>4, <1>5

LEMMA ForgetStep ==
    ASSUME Bnd!SetsAssumption, BanditInv, NEW s \in Server, NEW p \in Player, Bnd!reset(s, p) PROVE BanditInv'
<1>0. PICK u \in BOOLEAN : u = assume_unrewarded
  BY StorageHas DEF BanditInv
<1>1. PICK l : l = bandits[s].mixed
  OBVIOUS
<1>2. PICK r : r = bandits[s].unmixed
  OBVIOUS
<1>3. l \in Tables(u) /\ r \in Tables(u)
  BY <1>0, <1>1, <1>2, StorageHas DEF BanditInv
<1>4. PICK m : m = [q \in DOMAIN l \ {p} |-> l[q]]
  OBVIOUS
<1>5. PICK n : n = [q \in DOMAIN r \ {p} |-> r[q]]
  OBVIOUS
<1>6. bandits' = [bandits EXCEPT ![s] = [mixed |-> m, unmixed |-> n]]
  BY <1>1, <1>2, <1>4, <1>5 DEF Bnd!reset
<1>7. /\ m \in Tables(u) /\ n \in Tables(u)
      /\ \A q, b : Bnd!Info(m, q, b) \in {Bnd!None, Bnd!Info(l, q, b)} /\ Bnd!Info(n, q, b) \in {Bnd!None, Bnd!Info(r, q, b)}
  BY <1>3, <1>4, <1>5, ForgottenFits
<1>8. arm_ids' \in [Server -> Seq(Key)] /\ UNCHANGED <<given, Bnd!settings, Bnd!around>>
  BY DEF Bnd!reset, Bnd!Op, BanditInv, BanditShape
<1> QED
  BY <1>0, <1>1, <1>2, <1>6, <1>7, <1>8, LosingStep

LEMMA ClearStep == ASSUME Bnd!SetsAssumption, BanditInv, NEW s \in Server, Bnd!clear(s) PROVE BanditInv'
<1>1. bandits' = [bandits EXCEPT ![s] = [mixed |-> Bnd!NoPlayers, unmixed |-> Bnd!NoPlayers]]
  BY DEF Bnd!clear
<1>2. /\ Bnd!NoPlayers \in Tables(assume_unrewarded)
      /\ \A q, b : Bnd!Info(Bnd!NoPlayers, q, b) = Bnd!None
  <2>1. PICK u \in BOOLEAN : u = assume_unrewarded
    BY DEF BanditInv, BanditShape
  <2> QED
    BY <2>1, NoPlayersFit
<1>3. arm_ids' \in [Server -> Seq(Key)] /\ UNCHANGED <<given, Bnd!settings, Bnd!around>>
  BY DEF Bnd!clear, Bnd!Op, BanditInv, BanditShape
<1> QED
  BY <1>1, <1>2, <1>3, LosingStep

LEMMA SelectStep ==
    ASSUME Bnd!SetsAssumption, BanditInv, NEW s \in Server, NEW p \in Player, Bnd!select_arm(s, p) PROVE BanditInv'
<1>1. PICK a \in Bnd!ToSet(arm_ids[s]) : Bnd!notify_selected(s, p, a)
  <2>1. PICK a \in IF method = "ucb1" THEN Bnd!ucb1_select_arm(s, p) ELSE Bnd!any_select_arm(s, p) : Bnd!notify_selected(s, p, a)
    BY DEF Bnd!select_arm
  <2>2. CASE method = "ucb1"
    <3> DEFINE untried == {i \in DOMAIN arm_ids[s] : Bnd!get_arm_info(s, p, arm_ids[s][i]).trials = 0}
    <3>1. a \in IF untried = {} THEN Bnd!ToSet(arm_ids[s]) ELSE {arm_ids[s][Bnd!Min(untried)]}
      BY <2>1, <2>2 DEF Bnd!ucb1_select_arm
    <3>2. untried # {} => Bnd!Min(untried) \in untried
      <4>1. arm_ids[s] \in Seq(Key)
        BY StorageHas DEF BanditInv
      <4>2. untried \in SUBSET Nat
        BY <4>1
      <4> HIDE DEF untried
      <4> QED
        BY <4>2, Least DEF Bnd!Min
    <3>3. untried \subseteq DOMAIN arm_ids[s]
      OBVIOUS
    <3> HIDE DEF untried
    <3> QED
      BY <2>1, <3>1, <3>2, <3>3 DEF Bnd!ToSet
  <2>3. CASE method # "ucb1"
    BY <2>1, <2>3 DEF Bnd!any_select_arm
  <2> QED
    BY <2>2, <2>3
<1>2. a \in Key
  <2>1. arm_ids[s] \in Seq(Key)
    BY StorageHas DEF BanditInv
  <2> QED
    BY <1>1, <2>1 DEF Bnd!ToSet
<1>3. UNCHANGED <<arm_ids, Bnd!settings, Bnd!around>>
  BY DEF Bnd!select_arm, Bnd!Op
<1>4. CASE assume_unrewarded
  <2>1. Bnd!Add(s, p, a, 1, 0)
    BY <1>1, <1>4 DEF Bnd!notify_selected
  <2>2. ~assume_unrewarded => 0 <= 1
    BY <1>4
  <2> QED
    BY <1>2, <1>3, <2>1, <2>2, AddStep
<1>5. CASE ~assume_unrewarded
  <2>1. UNCHANGED <<bandits, given>>
    BY <1>1, <1>5 DEF Bnd!notify_selected
  <2> QED
    BY <1>3, <2>1 DEF BanditInv, BanditShape, TrialsCovered, Unmixed, Mixed, Known, Bnd!settings, Bnd!around, Bnd!mixVars
<1> QED
  BY <1>4, <1>5

LEMMA RewardStep ==
    ASSUME Bnd!SetsAssumption, BanditInv, NEW s \in Server, NEW p \in Player, NEW a \in Key, NEW reward \in {0, 1},
           Bnd!register_reward(s, p, a, reward)
    PROVE  BanditInv'
<1>1. UNCHANGED <<arm_ids, Bnd!settings, Bnd!around>>
  BY DEF Bnd!register_reward, Bnd!Op
<1>2. PICK k \in Nat : k = IF assume_unrewarded THEN 0 ELSE 1
  OBVIOUS
<1>3. Bnd!Add(s, p, a, k, reward)
  BY <1>2 DEF Bnd!register_reward
<1>4. (~assume_unrewarded => reward <= k) /\ reward \in Nat
  BY <1>2
<1> QED
  BY <1>1, <1>3, <1>4, AddStep

LEMMA StartStep == ASSUME Bnd!SetsAssumption, BanditInv, Bnd!StartRound PROVE BanditInv'
<1>1. /\ Bnd!NoPlayers \in Tables(assume_unrewarded)
      /\ \A q, b : Bnd!Info(Bnd!NoPlayers, q, b) = Bnd!None
  <2>1. PICK u \in BOOLEAN : u = assume_unrewarded
    BY DEF BanditInv, BanditShape
  <2> QED
    BY <2>1, NoPlayersFit
<1>2. /\ total' = Bnd!NoPlayers /\ due' = Server /\ leg' = "gather" /\ leg = "idle"
      /\ UNCHANGED <<Bnd!settings, arm_ids, bandits, saved, given, again>>
  BY DEF Bnd!StartRound
<1>3. ASSUME NEW p \in Player, NEW a \in Key
      PROVE  Within(leg', due', Unmixed(p, a), Mixed(p, a), Bnd!Info(total', p, a).trials, Known(p, a))
  <2>1. PICK U \in [Server -> Nat], M \in [Server -> Nat], T \in Nat, G \in Nat :
           U = Unmixed(p, a) /\ M = Mixed(p, a) /\ T = Bnd!Info(total, p, a).trials /\ G = Known(p, a)
    BY CountsAreNat DEF BanditInv
  <2>2. PICK td : td = due
    OBVIOUS
  <2>3. Within("idle", td, U, M, T, G)
    BY <1>2, <2>1, <2>2 DEF BanditInv, TrialsCovered
  <2>4. Within("gather", Server, U, M, 0, G)
    BY <2>3, CoverStart
  <2>5. Bnd!Info(total', p, a).trials = 0
    BY <1>1, <1>2 DEF Bnd!None
  <2> QED
    BY <1>2, <2>1, <2>4, <2>5
<1>4. total' \in Tables(assume_unrewarded) /\ due' \subseteq Server /\ leg' \in {"idle", "gather", "put"}
  BY <1>1, <1>2
<1> QED
  BY <1>2, <1>3, <1>4, RoundStep

LEMMA GatherStep == ASSUME Bnd!SetsAssumption, BanditInv, NEW s \in Server, Bnd!Gather(s) PROVE BanditInv'
<1>1. /\ total' = Bnd!mix(bandits[s].unmixed, total) /\ s \in due /\ leg = "gather" /\ due \subseteq Server
      /\ due' = (IF due = {s} THEN Server ELSE due \ {s})
      /\ leg' = (IF due = {s} THEN "put" ELSE "gather")
      /\ UNCHANGED <<Bnd!settings, arm_ids, bandits, saved, given, again>>
  BY DEF Bnd!Gather, BanditInv, BanditShape
<1>2. /\ total' \in Tables(assume_unrewarded)
      /\ \A q, b : Bnd!Info(total', q, b).trials = Bnd!Info(bandits[s].unmixed, q, b).trials + Bnd!Info(total, q, b).trials
  <2>1. PICK u \in BOOLEAN : u = assume_unrewarded
    BY DEF BanditInv, BanditShape
  <2>2. PICK l : l = bandits[s].unmixed
    OBVIOUS
  <2>3. PICK r : r = total
    OBVIOUS
  <2>4. l \in Tables(u) /\ r \in Tables(u)
    BY <2>1, <2>2, <2>3, StorageHas DEF BanditInv, BanditShape
  <2>5. /\ Bnd!mix(l, r) \in Tables(u)
        /\ \A q, b : Bnd!Info(Bnd!mix(l, r), q, b).trials = Bnd!Info(l, q, b).trials + Bnd!Info(r, q, b).trials
    BY <2>4, MixFits
  <2> QED
    BY <1>1, <2>1, <2>2, <2>3, <2>5
<1>3. ASSUME NEW p \in Player, NEW a \in Key
      PROVE  Within(leg', due', Unmixed(p, a), Mixed(p, a), Bnd!Info(total', p, a).trials, Known(p, a))
  <2>1. PICK U \in [Server -> Nat], M \in [Server -> Nat], T \in Nat, G \in Nat :
           U = Unmixed(p, a) /\ M = Mixed(p, a) /\ T = Bnd!Info(total, p, a).trials /\ G = Known(p, a)
    BY CountsAreNat DEF BanditInv
  <2>2. PICK td \in SUBSET Server : td = due
    BY <1>1
  <2>3. Within("gather", td, U, M, T, G)
    BY <1>1, <2>1, <2>2 DEF BanditInv, TrialsCovered
  <2>4. PICK ph : ph = IF td = {s} THEN "put" ELSE "gather"
    OBVIOUS
  <2>5. PICK te : te = IF td = {s} THEN Server ELSE td \ {s}
    OBVIOUS
  <2>6. /\ ph \in {"gather", "put"} /\ (ph = "put" => te = Server)
        /\ (ph = "gather" => te \subseteq td \ {s}) /\ s \in td
    BY <1>1, <2>2, <2>4, <2>5
  <2>7. PICK W \in Nat : W = U[s] + T
    OBVIOUS
  <2>8. Within(ph, te, U, M, W, G)
    BY ONLY Bnd!SetsAssumption, <2>1, <2>2, <2>3, <2>6, <2>7, CoverGather
  <2>9. Bnd!Info(total', p, a).trials = W
    BY <1>2, <2>1, <2>7 DEF Unmixed
  <2>10. ph = leg' /\ te = due'
    BY <1>1, <2>2, <2>4, <2>5
  <2> QED
    BY <2>1, <2>8, <2>9, <2>10
<1>4. due' \subseteq Server /\ leg' \in {"idle", "gather", "put"}
  BY <1>1
<1> QED
  BY <1>1, <1>2, <1>3, <1>4, RoundStep

LEMMA PutStep == ASSUME Bnd!SetsAssumption, BanditInv, NEW s \in Server, Bnd!Put(s) PROVE BanditInv'
<1>1. PICK u \in BOOLEAN : u = assume_unrewarded
  BY DEF BanditInv, BanditShape
<1>2. PICK l : l = total
  OBVIOUS
<1>3. PICK r : r = bandits[s].mixed
  OBVIOUS
<1>4. l \in Tables(u) /\ r \in Tables(u)
  BY <1>1, <1>2, <1>3, StorageHas DEF BanditInv, BanditShape
<1>5. PICK m : m = Bnd!mix(l, r)
  OBVIOUS
<1>6. /\ m \in Tables(u)
      /\ \A q, b : Bnd!Info(m, q, b).trials = Bnd!Info(l, q, b).trials + Bnd!Info(r, q, b).trials
  BY <1>4, <1>5, MixFits
<1>7. Bnd!NoPlayers \in Tables(u) /\ \A q, b : Bnd!Info(Bnd!NoPlayers, q, b) = Bnd!None
  BY NoPlayersFit
<1>8. /\ bandits' = [bandits EXCEPT ![s] = [mixed |-> m, unmixed |-> Bnd!NoPlayers]]
      /\ due' = due \ {s} /\ s \in due /\ leg = "put" /\ due \subseteq Server
      /\ leg' = (IF due = {s} THEN "idle" ELSE "put")
      /\ UNCHANGED <<Bnd!settings, arm_ids, total, saved, given, again>>
  BY <1>2, <1>3, <1>5 DEF Bnd!Put, Bnd!put_diff, BanditInv, BanditShape
<1>9. /\ bandits'[s] = [mixed |-> m, unmixed |-> Bnd!NoPlayers]
      /\ \A x \in Server \ {s} : bandits'[x] = bandits[x]
  BY <1>8 DEF BanditInv, BanditShape
<1>10. BanditShape'
  BY <1>1, <1>6, <1>7, <1>8 DEF BanditInv, BanditShape, Bnd!settings
<1>11. ASSUME NEW p \in Player, NEW a \in Key
       PROVE  Within(leg, due, Unmixed(p, a), Mixed(p, a), Bnd!Info(total, p, a).trials, Known(p, a))'
  <2>1. PICK U \in [Server -> Nat], M \in [Server -> Nat], T \in Nat, G \in Nat :
           U = Unmixed(p, a) /\ M = Mixed(p, a) /\ T = Bnd!Info(total, p, a).trials /\ G = Known(p, a)
    BY CountsAreNat DEF BanditInv
  <2>2. PICK td \in SUBSET Server : td = due
    BY <1>8
  <2>3. PICK V : V = Unmixed(p, a)'
    OBVIOUS
  <2>4. PICK N : N = Mixed(p, a)'
    OBVIOUS
  <2>5. Within("put", td, U, M, T, G)
    BY <1>8, <2>1, <2>2 DEF BanditInv, TrialsCovered
  <2>6. /\ V = [x \in Server |-> Bnd!Info(bandits'[x].unmixed, p, a).trials]
        /\ N = [x \in Server |-> Bnd!Info(bandits'[x].mixed, p, a).trials]
    BY <2>3, <2>4 DEF Unmixed, Mixed
  <2>7. V[s] = 0 /\ N[s] = T + M[s]
    <3>1. V[s] = Bnd!Info(Bnd!NoPlayers, p, a).trials /\ N[s] = Bnd!Info(m, p, a).trials
      BY <1>9, <2>6
    <3>2. Bnd!Info(l, p, a).trials = T /\ Bnd!Info(r, p, a).trials = M[s]
      BY <1>2, <1>3, <2>1 DEF Mixed
    <3> QED
      BY <1>6, <1>7, <3>1, <3>2 DEF Bnd!None
  <2>8. \A x \in Server \ {s} : V[x] = U[x] /\ N[x] = M[x]
    BY <1>9, <2>1, <2>6 DEF Unmixed, Mixed
  <2>9. \A x \in Server : V[x] \in Nat /\ N[x] \in Nat
    BY <2>1, <2>7, <2>8
  <2>10. V \in [Server -> Nat] /\ N \in [Server -> Nat]
    BY <2>6, <2>9
  <2>11. PICK ph : ph = IF td = {s} THEN "idle" ELSE "put"
    OBVIOUS
  <2>12. (ph = "put" \/ (ph = "idle" /\ td = {s})) /\ s \in td
    BY <1>8, <2>2, <2>11
  <2>13. Within(ph, td \ {s}, V, N, T, G)
    BY ONLY Bnd!SetsAssumption, <2>1, <2>2, <2>5, <2>7, <2>8, <2>10, <2>12, CoverPut
  <2>14. leg' = ph /\ due' = td \ {s} /\ Bnd!Info(total', p, a).trials = T /\ Known(p, a)' = G
    BY <1>8, <2>1, <2>2, <2>11 DEF Known
  <2> QED
    BY <2>3, <2>4, <2>13, <2>14
<1> QED
  BY <1>10, <1>11 DEF BanditInv, TrialsCovered

LEMMA PackStep == ASSUME Bnd!SetsAssumption, BanditInv, NEW s \in Server, Bnd!pack(s) PROVE BanditInv'
<1>1. saved' = [arm_ids |-> arm_ids[s], table |-> bandits[s]]
  BY DEF Bnd!pack
<1>2. UNCHANGED <<Bnd!settings, arm_ids, bandits, total, due, leg, given, again>>
  BY DEF Bnd!pack, Bnd!mixVars
<1>3. BanditShape'
  BY <1>1, <1>2 DEF BanditInv, BanditShape, Bnd!settings
<1>4. TrialsCovered'
  BY <1>2 DEF BanditInv, TrialsCovered, Unmixed, Mixed, Known
<1> QED
  BY <1>3, <1>4 DEF BanditInv

LEMMA UnpackStep == ASSUME Bnd!SetsAssumption, BanditInv, NEW s \in Server, Bnd!unpack(s) PROVE BanditInv'
<1>1. PICK u \in BOOLEAN : u = assume_unrewarded
  BY DEF BanditInv, BanditShape
<1>2. PICK l : l = saved.table.mixed
  OBVIOUS
<1>3. PICK r : r = saved.table.unmixed
  OBVIOUS
<1>4. /\ l \in Tables(u) /\ r \in Tables(u) /\ saved.arm_ids \in Seq(Key)
      /\ saved.table = [mixed |-> l, unmixed |-> r]
  BY <1>1, <1>2, <1>3 DEF BanditInv, BanditShape
<1>5. /\ bandits' = [bandits EXCEPT ![s] = [mixed |-> l, unmixed |-> r]]
      /\ arm_ids' = [arm_ids EXCEPT ![s] = saved.arm_ids]
      /\ again' = [p \in Player |-> [a \in Key |-> again[p][a] + Bnd!Info(l, p, a).trials + Bnd!Info(r, p, a).trials]]
      /\ UNCHANGED <<Bnd!settings, total, due, leg, saved, given>>
  BY <1>2, <1>3, <1>4 DEF Bnd!unpack, Bnd!mixVars
<1>6. /\ bandits'[s] = [mixed |-> l, unmixed |-> r]
      /\ \A x \in Server \ {s} : bandits'[x] = bandits[x]
  BY <1>5 DEF BanditInv, BanditShape
<1>7. \A p, a : Bnd!Info(l, p, a).trials \in Nat /\ Bnd!Info(r, p, a).trials \in Nat
  BY <1>4, InfoIsTally, TallyHas
<1>8. again' \in [Player -> [Key -> Nat]]
  <2>1. \A p \in Player, a \in Key : again[p][a] \in Nat
    BY DEF BanditInv, BanditShape
  <2>2. \A p \in Player, a \in Key : again[p][a] + Bnd!Info(l, p, a).trials + Bnd!Info(r, p, a).trials \in Nat
    BY <1>7, <2>1
  <2> QED
    BY <1>5, <2>2
<1>9. BanditShape'
  <2>1. bandits' \in [Server -> [mixed : Tables(u), unmixed : Tables(u)]]
    BY <1>1, <1>4, <1>5 DEF BanditInv, BanditShape
  <2>2. arm_ids' \in [Server -> Seq(Key)]
    BY <1>4, <1>5 DEF BanditInv, BanditShape
  <2> QED
    BY <1>1, <1>5, <1>8, <2>1, <2>2 DEF BanditInv, BanditShape, Bnd!settings
<1>10. ASSUME NEW p \in Player, NEW a \in Key
       PROVE  Within(leg, due, Unmixed(p, a), Mixed(p, a), Bnd!Info(total, p, a).trials, Known(p, a))'
  <2>1. PICK U \in [Server -> Nat], M \in [Server -> Nat], T \in Nat, G \in Nat :
           U = Unmixed(p, a) /\ M = Mixed(p, a) /\ T = Bnd!Info(total, p, a).trials /\ G = Known(p, a)
    BY CountsAreNat DEF BanditInv
  <2>2. PICK k \in Nat : k = Bnd!Info(r, p, a).trials
    BY <1>7
  <2>3. PICK j \in Nat : j = Bnd!Info(l, p, a).trials
    BY <1>7
  <2>4. PICK V : V = Unmixed(p, a)'
    OBVIOUS
  <2>5. PICK N : N = Mixed(p, a)'
    OBVIOUS
  <2>6. /\ V = [x \in Server |-> Bnd!Info(bandits'[x].unmixed, p, a).trials]
        /\ N = [x \in Server |-> Bnd!Info(bandits'[x].mixed, p, a).trials]
    BY <2>4, <2>5 DEF Unmixed, Mixed
  <2>7. V[s] = k /\ N[s] = j
    BY <1>6, <2>2, <2>3, <2>6
  <2>8. \A x \in Server \ {s} : V[x] = U[x] /\ N[x] = M[x]
    BY <1>6, <2>1, <2>6 DEF Unmixed, Mixed
  <2>9. V \in [Server -> Nat] /\ N \in [Server -> Nat]
    <3>1. \A x \in Server : V[x] \in Nat /\ N[x] \in Nat
      BY <2>1, <2>7, <2>8
    <3> QED
      BY <2>6, <3>1
  <2>10. PICK ph : ph = leg
    OBVIOUS
  <2>11. PICK td : td = due
    OBVIOUS
  <2>12. Within(ph, td, U, M, T, G)
    BY <2>1, <2>10, <2>11 DEF BanditInv, TrialsCovered
  <2>13. PICK H \in Nat : H = G + k
    OBVIOUS
  <2>14. Within(ph, td, V, M, T, H)
    <3>1. V[s] <= U[s] + k /\ \A x \in Server \ {s} : V[x] = U[x]
      BY <2>1, <2>7, <2>8
    <3>2. \A x \in Server : M[x] <= M[x]
      BY <2>1
    <3>3. Within(ph, td, V, M, T, G + k)
      BY ONLY Bnd!SetsAssumption, s \in Server, k \in Nat, <2>1, <2>9, <2>12, <3>1, <3>2, CoverStorage
    <3> QED
      BY <2>13, <3>3
  <2>15. Within(ph, td, V, N, T, H + j)
    <3>1. \A x \in Server : N[x] <= M[x] + j
      <4> SUFFICES ASSUME NEW x \in Server PROVE N[x] <= M[x] + j
        OBVIOUS
      <4>1. N[x] \in Nat /\ M[x] \in Nat
        BY <2>1, <2>9
      <4> QED
        BY <2>7, <2>8, <4>1
    <3> QED
      BY ONLY Bnd!SetsAssumption, j \in Nat, H \in Nat, <2>1, <2>9, <2>14, <3>1, CoverMixed
  <2>16. leg' = ph /\ due' = td /\ Bnd!Info(total', p, a).trials = T
    BY <1>5, <2>1, <2>10, <2>11
  <2>17. Known(p, a)' = H + j
    <3>1. given[p][a] \in Nat /\ again[p][a] \in Nat
      BY CountsAreNat DEF BanditInv
    <3>2. again'[p][a] = again[p][a] + j + k /\ given'[p][a] = given[p][a]
      BY <1>5, <2>2, <2>3
    <3> QED
      BY <2>1, <2>13, <3>1, <3>2 DEF Known
  <2> QED
    BY <2>4, <2>5, <2>15, <2>16, <2>17
<1> QED
  BY <1>9, <1>10 DEF BanditInv, TrialsCovered

LEMMA LosePutStep == ASSUME Bnd!SetsAssumption, BanditInv, NEW s \in Server, Bnd!LosePut(s) PROVE BanditInv'
<1>1. /\ again' = [p \in Player |-> [a \in Key |-> again[p][a] + Bnd!Info(bandits[s].unmixed, p, a).trials]]
      /\ due' = due \ {s} /\ s \in due /\ leg = "put" /\ due \subseteq Server
      /\ leg' = (IF due = {s} THEN "idle" ELSE "put")
      /\ UNCHANGED <<Bnd!settings, arm_ids, bandits, total, saved, given>>
  BY DEF Bnd!LosePut, BanditInv, BanditShape
<1>2. \A p \in Player, a \in Key : /\ Unmixed(p, a)[s] = Bnd!Info(bandits[s].unmixed, p, a).trials
                                   /\ Unmixed(p, a)[s] \in Nat /\ again[p][a] \in Nat /\ given[p][a] \in Nat
  BY CountsAreNat DEF Unmixed, BanditInv
<1>3. \A p \in Player, a \in Key : again'[p][a] = again[p][a] + Unmixed(p, a)[s] /\ again'[p][a] \in Nat
  BY <1>1, <1>2
<1>4. BanditShape'
  <2>1. again' \in [Player -> [Key -> Nat]]
    BY <1>1, <1>3
  <2> QED
    BY <1>1, <2>1 DEF BanditInv, BanditShape, Bnd!settings
<1>5. ASSUME NEW p \in Player, NEW a \in Key
      PROVE  Within(leg, due, Unmixed(p, a), Mixed(p, a), Bnd!Info(total, p, a).trials, Known(p, a))'
  <2>1. PICK U \in [Server -> Nat], M \in [Server -> Nat], T \in Nat, G \in Nat :
           U = Unmixed(p, a) /\ M = Mixed(p, a) /\ T = Bnd!Info(total, p, a).trials /\ G = Known(p, a)
    BY CountsAreNat DEF BanditInv
  <2>2. PICK td \in SUBSET Server : td = due
    BY <1>1
  <2>3. Within("put", td, U, M, T, G)
    BY <1>1, <2>1, <2>2 DEF BanditInv, TrialsCovered
  <2>4. PICK ph : ph = IF td = {s} THEN "idle" ELSE "put"
    OBVIOUS
  <2>5. (ph = "put" \/ (ph = "idle" /\ td = {s})) /\ s \in td
    BY <1>1, <2>2, <2>4
  <2>6. PICK k \in Nat : k = U[s]
    OBVIOUS
  <2>7. Within(ph, td \ {s}, U, M, T, G + k)
    BY ONLY Bnd!SetsAssumption, <2>1, <2>2, <2>3, <2>5, <2>6, k \in Nat, CoverLost
  <2>8. leg' = ph /\ due' = td \ {s} /\ Bnd!Info(total', p, a).trials = T
    BY <1>1, <2>1, <2>2, <2>4
  <2>9. Known(p, a)' = G + k
    BY <1>1, <1>2, <1>3, <2>1, <2>6 DEF Known
  <2>10. Unmixed(p, a)' = U /\ Mixed(p, a)' = M
    BY <1>1, <2>1 DEF Unmixed, Mixed
  <2> QED
    BY <2>7, <2>8, <2>9, <2>10
<1> QED
  BY <1>4, <1>5 DEF BanditInv, TrialsCovered

LEMMA BanditSteps == ASSUME Bnd!SetsAssumption, BanditInv, [Bnd!Next]_Bnd!vars PROVE BanditInv'
<1>1. CASE Bnd!Next
  <2>1. ASSUME NEW s \in Server, NEW a \in Key, Bnd!register_arm(s, a) \/ Bnd!delete_arm(s, a) PROVE BanditInv'
    BY <2>1, RegisterStep, DeleteStep
  <2>2. ASSUME NEW s \in Server, NEW p \in Player, Bnd!select_arm(s, p) \/ Bnd!reset(s, p) PROVE BanditInv'
    BY <2>2, SelectStep, ForgetStep
  <2>3. ASSUME NEW s \in Server, NEW p \in Player, NEW a \in Key, NEW reward \in {0, 1},
               Bnd!register_reward(s, p, a, reward)
        PROVE  BanditInv'
    BY <2>3, RewardStep
  <2>4. ASSUME NEW s \in Server, Bnd!clear(s) \/ Bnd!pack(s) \/ Bnd!unpack(s) PROVE BanditInv'
    BY <2>4, ClearStep, PackStep, UnpackStep
  <2>5. ASSUME NEW s \in Server, Bnd!Gather(s) \/ Bnd!Put(s) \/ Bnd!LosePut(s) PROVE BanditInv'
    BY <2>5, GatherStep, PutStep, LosePutStep
  <2>6. CASE Bnd!StartRound
    BY <2>6, StartStep
  <2> QED
    BY <1>1, <2>1, <2>2, <2>3, <2>4, <2>5, <2>6 DEF Bnd!Next
<1>2. CASE UNCHANGED Bnd!vars
  BY <1>2 DEF Bnd!vars, Bnd!settings, Bnd!around, Bnd!mixVars, BanditInv, BanditShape, TrialsCovered, Unmixed, Mixed, Known
<1> QED
  BY <1>1, <1>2

LEMMA InvImpliesArmsAddUp == ASSUME Bnd!SetsAssumption, BanditInv PROVE Bnd!ArmsAddUp
<1>1. Bnd!TotalsMatch
  <2>1. ASSUME NEW s \in Server, NEW t \in {"mixed", "unmixed"}, NEW p \in DOMAIN bandits[s][t]
        PROVE  bandits[s][t][p].total =
                  SumFunctionOnSet([a \in DOMAIN bandits[s][t][p].arms |-> bandits[s][t][p].arms[a].trials],
                                   DOMAIN bandits[s][t][p].arms)
    <3>1. bandits[s][t] \in Tables(assume_unrewarded) /\ assume_unrewarded \in BOOLEAN
      BY StorageHas DEF BanditInv
    <3>2. bandits[s][t][p] \in Entries(assume_unrewarded)
      BY <3>1, TableHas
    <3> QED
      BY <3>1, <3>2, EntryHas
  <2> QED
    BY <2>1, BSameSums DEF Bnd!TotalsMatch
<1>2. Bnd!TrialsCountedOnce
  <2>1. ASSUME NEW s \in Server, NEW p \in Player, NEW a \in Key
        PROVE  /\ Bnd!get_arm_info(s, p, a).trials <= given[p][a] + again[p][a]
               /\ ~assume_unrewarded => Bnd!get_arm_info(s, p, a).weight <= Bnd!get_arm_info(s, p, a).trials
    <3>1. PICK m : m = Bnd!Info(bandits[s].mixed, p, a)
      OBVIOUS
    <3>2. PICK u : u = Bnd!Info(bandits[s].unmixed, p, a)
      OBVIOUS
    <3>3. m \in Tallies(assume_unrewarded) /\ u \in Tallies(assume_unrewarded)
      BY <3>1, <3>2, StorageHas, InfoIsTally DEF BanditInv
    <3>4. Bnd!get_arm_info(s, p, a) = [trials |-> m.trials + u.trials, weight |-> m.weight + u.weight]
      BY <3>1, <3>2 DEF Bnd!get_arm_info
    <3>5. m.trials + u.trials <= given[p][a] + again[p][a]
      <4>1. PICK U \in [Server -> Nat], M \in [Server -> Nat], T \in Nat, G \in Nat :
               U = Unmixed(p, a) /\ M = Mixed(p, a) /\ T = Bnd!Info(total, p, a).trials /\ G = Known(p, a)
        BY CountsAreNat DEF BanditInv
      <4>2. PICK ph : ph = leg
        OBVIOUS
      <4>3. PICK td : td = due
        OBVIOUS
      <4>4. Within(ph, td, U, M, T, G)
        BY <4>1, <4>2, <4>3 DEF BanditInv, TrialsCovered
      <4>5. M[s] + U[s] <= G
        BY <4>4, CoveredIsEnough
      <4> QED
        BY <3>1, <3>2, <4>1, <4>5 DEF Unmixed, Mixed, Known
    <3> QED
      BY <3>3, <3>4, <3>5 DEF Tallies
  <2> QED
    BY <2>1 DEF Bnd!TrialsCountedOnce
<1> QED
  BY <1>1, <1>2 DEF Bnd!ArmsAddUp

\* What ucb1 and epsilon_decreasing divide by is the sum of the arms' trials, no
\* server knows of more trials than were given, were still unmixed where a put
\* was lost and were in models unpacked, and while selecting does not count no
\* arm earns more than its trials: for any servers, players and arms, however
\* many puts are lost and models packed and unpacked (bandit/summation_storage.cpp).
THEOREM ArmsAddUpHere == ASSUME Bnd!SetsAssumption PROVE Bnd!Spec => []Bnd!ArmsAddUp
<1>1. Bnd!Init => BanditInv
  BY BanditStarts
<1>2. BanditInv /\ [Bnd!Next]_Bnd!vars => BanditInv'
  BY BanditSteps
<1>3. BanditInv => Bnd!ArmsAddUp
  BY InvImpliesArmsAddUp
<1> QED
  BY <1>1, <1>2, <1>3, PTL DEF Bnd!Spec

---------------------------------------------------------------------------
(* Statistics: the running totals of every key are those of the window,    *)
(* for any window and values, and the entropy is never negative.           *)
\* Sums, finite sets and extremes are the same in the module of the statistics
\* and here.
LEMMA SSameSums == \A f, S : Sts!SumFunctionOnSet(f, S) = SumFunctionOnSet(f, S)
  BY DEF Sts!SumFunctionOnSet, Sts!FoldFunctionOnSet, Sts!MapThenFoldSet,
         SumFunctionOnSet, FoldFunctionOnSet, MapThenFoldSet

\* The same of counts.
LEMMA SSameCardinality == \A S : Sts!Cardinality(S) = Cardinality(S)
  BY DEF Sts!Cardinality, Cardinality, Sts!IsFiniteSet, IsFiniteSet

\* The same of extremes.
LEMMA SSameExtremes == \A S : Sts!Max(S) = Greatest(S) /\ Sts!Min(S) = Lowest(S)
  BY DEF Sts!Max, Sts!Min, Greatest, Lowest

\* And of what is finite.
LEMMA SFinite == ASSUME Sts!WindowAssumption PROVE IsFiniteSet(Server)
  BY DEF Sts!WindowAssumption, Sts!IsFiniteSet, IsFiniteSet

Entered == [key : Key, val : Value]
Windows == Seq(Entered)

Vals(w) == [i \in DOMAIN w |-> w[i].val]
Squares(w) == [i \in DOMAIN w |-> w[i].val * w[i].val]

\* The totals of a window are numbers of its places.
LEMMA RecountIs ==
    ASSUME NEW w, NEW k
    PROVE  Sts!Recount(w, k) =
             [n |-> Cardinality(Sts!Places(w, k)),
              sum |-> SumFunctionOnSet(Vals(w), Sts!Places(w, k)),
              sum2 |-> SumFunctionOnSet(Squares(w), Sts!Places(w, k)),
              max |-> Greatest(Sts!ValuesIn(w, k)), min |-> Lowest(Sts!ValuesIn(w, k))]
  BY SSameSums, SSameCardinality, SSameExtremes DEF Sts!Recount, Vals, Squares

\* Where the values of a key are, and what they are.
LEMMA PlacesHave ==
    ASSUME Sts!WindowAssumption, NEW w \in Windows, NEW k
    PROVE  /\ IsFiniteSet(Sts!Places(w, k)) /\ Sts!Places(w, k) \subseteq DOMAIN w
           /\ Sts!Places(w, k) \subseteq Nat
           /\ \A i \in DOMAIN w : w[i].val \in Int /\ w[i] \in Entered
           /\ \A i \in DOMAIN w : Vals(w)[i] = w[i].val /\ Squares(w)[i] = w[i].val * w[i].val
           /\ \A i \in DOMAIN w : Vals(w)[i] \in Int /\ Squares(w)[i] \in Int
           /\ Sts!ValuesIn(w, k) \subseteq Int /\ IsFiniteSet(Sts!ValuesIn(w, k))
           /\ k \in Sts!KeysOf(w) <=> Sts!Places(w, k) # {}
<1>1. DOMAIN w = 1..Len(w) /\ Len(w) \in Nat
  BY DEF Windows
<1>2. IsFiniteSet(DOMAIN w)
  BY <1>1, FS_Interval
<1>3. IsFiniteSet(Sts!Places(w, k)) /\ Sts!Places(w, k) \subseteq DOMAIN w
  BY <1>2, FS_Subset DEF Sts!Places
<1>4. \A i \in DOMAIN w : w[i].val \in Int /\ w[i] \in Entered
  <2>1. \A i \in DOMAIN w : w[i] \in Entered
    BY <1>1 DEF Windows
  <2>2. Value \subseteq Int
    BY DEF Sts!WindowAssumption
  <2>3. QED
    BY <2>1, <2>2 DEF Entered
<1>5. \A i \in DOMAIN w : Vals(w)[i] = w[i].val /\ Squares(w)[i] = w[i].val * w[i].val
  BY DEF Vals, Squares
<1>6. \A i \in DOMAIN w : Vals(w)[i] \in Int /\ Squares(w)[i] \in Int
  BY <1>4, <1>5
<1>7. Sts!ValuesIn(w, k) \subseteq Int /\ IsFiniteSet(Sts!ValuesIn(w, k))
  <2>1. Sts!ValuesIn(w, k) = {Vals(w)[i] : i \in Sts!Places(w, k)}
    BY <1>3, <1>5 DEF Sts!ValuesIn
  <2>2. IsFiniteSet({Vals(w)[i] : i \in Sts!Places(w, k)})
    BY <1>3, FiniteValues
  <2>3. QED
    BY <1>3, <1>6, <2>1, <2>2
<1>8. k \in Sts!KeysOf(w) <=> Sts!Places(w, k) # {}
  BY DEF Sts!KeysOf, Sts!Places
<1>9. Sts!Places(w, k) \subseteq Nat
  BY <1>1, <1>3
<1>10. QED
  BY <1>3, <1>4, <1>5, <1>6, <1>7, <1>8, <1>9

Grown(w, x, a, l, k) == a = Append(w, x) /\ l = Len(a) /\ k = x.key

\* One value more has a place of its own.
LEMMA AppendHas ==
    ASSUME NEW w, NEW x, NEW a, NEW l, NEW k, w \in Windows, x \in Entered, Grown(w, x, a, l, k)
    PROVE  /\ a \in Windows /\ Len(a) = Len(w) + 1 /\ Len(w) \in Nat
           /\ l \notin DOMAIN w /\ l \in DOMAIN a /\ a[l] = x
           /\ \A i \in DOMAIN w : i \in DOMAIN a /\ a[i] = w[i]
           /\ \A i \in DOMAIN a : i # l => i \in DOMAIN w
<1>1. a = Append(w, x) /\ l = Len(a)
  BY DEF Grown
<1>2. QED
  BY <1>1 DEF Windows

\* It is a place of its key.
LEMMA AppendPlaces ==
    ASSUME NEW w, NEW x, NEW a, NEW l, NEW k, w \in Windows, x \in Entered, Grown(w, x, a, l, k)
    PROVE  Sts!Places(a, k) = Sts!Places(w, k) \cup {l}
<1>1. k = x.key
  BY DEF Grown
<1>2. QED
  BY <1>1, AppendHas DEF Sts!Places

\* The other keys' places stay.
LEMMA AppendElsewhere ==
    ASSUME NEW w, NEW x, NEW a, NEW l, NEW k, w \in Windows, x \in Entered, Grown(w, x, a, l, k),
           NEW j, j # k
    PROVE  Sts!Places(a, j) = Sts!Places(w, j)
<1>1. k = x.key
  BY DEF Grown
<1>2. QED
  BY <1>1, AppendHas DEF Sts!Places

\* Its key is one of the window's.
LEMMA AppendKeys ==
    ASSUME NEW w, NEW x, NEW a, NEW l, NEW k, w \in Windows, x \in Entered, Grown(w, x, a, l, k)
    PROVE  Sts!KeysOf(a) = Sts!KeysOf(w) \cup {k}
<1>1. k = x.key
  BY DEF Grown
<1>2. QED
  BY <1>1, AppendHas DEF Sts!KeysOf

Shrunk(w, t, k) == w # <<>> /\ t = Tail(w) /\ k = w[1].key
OneLater == [i \in Nat |-> i + 1]

\* Without its oldest value, what is in a window is one place earlier.
LEMMA TailHas ==
    ASSUME NEW w, NEW t, NEW k, w \in Windows, Shrunk(w, t, k)
    PROVE  /\ t \in Windows /\ Len(t) + 1 = Len(w) /\ Len(t) \in Nat
           /\ 1 \in DOMAIN w /\ w[1] \in Entered /\ w[1].key = k
           /\ \A i \in DOMAIN t : OneLater[i] \in DOMAIN w /\ w[OneLater[i]] = t[i] /\ OneLater[i] # 1
           /\ \A i, j \in DOMAIN t : OneLater[i] = OneLater[j] => i = j
           /\ \A i \in DOMAIN w : i # 1 => \E m \in DOMAIN t : i = OneLater[m]
<1>0. w # <<>> /\ t = Tail(w) /\ k = w[1].key
  BY DEF Shrunk
<1>1. /\ t \in Windows /\ Len(t) = Len(w) - 1 /\ DOMAIN t = 1..Len(t) /\ DOMAIN w = 1..Len(w)
      /\ Len(w) \in Nat \ {0} /\ \A i \in DOMAIN t : t[i] = w[i + 1]
  BY <1>0 DEF Windows
<1>2. \A i \in Nat : OneLater[i] = i + 1
  BY DEF OneLater
<1>3. \A i \in DOMAIN t : i \in Nat /\ i + 1 \in DOMAIN w /\ OneLater[i] = i + 1 /\ i + 1 # 1
  <2> SUFFICES ASSUME NEW i \in DOMAIN t
               PROVE  i \in Nat /\ i + 1 \in DOMAIN w /\ OneLater[i] = i + 1 /\ i + 1 # 1
    OBVIOUS
  <2>1. i \in 1..(Len(w) - 1) /\ Len(w) \in Nat /\ DOMAIN w = 1..Len(w)
    BY <1>1
  <2>2. i \in Nat /\ i + 1 \in DOMAIN w /\ i + 1 # 1
    BY <2>1
  <2>3. QED
    BY <1>2, <2>2
<1>4. 1 \in DOMAIN w /\ w[1] \in Entered
  BY <1>1 DEF Windows
<1>5. \A i \in DOMAIN t : OneLater[i] \in DOMAIN w /\ w[OneLater[i]] = t[i] /\ OneLater[i] # 1
  BY <1>1, <1>3
<1>6. \A i, j \in DOMAIN t : OneLater[i] = OneLater[j] => i = j
  <2>1. \A i, j \in DOMAIN t : i \in Nat /\ j \in Nat /\ OneLater[i] = i + 1 /\ OneLater[j] = j + 1
    BY <1>3
  <2>2. QED
    BY <2>1
<1>7. ASSUME NEW i \in DOMAIN w, i # 1 PROVE \E m \in DOMAIN t : i = OneLater[m]
  <2>1. i \in 1..Len(w) /\ Len(w) \in Nat /\ DOMAIN t = 1..(Len(w) - 1)
    BY <1>1
  <2>2. i - 1 \in Nat /\ (i - 1) + 1 = i /\ i - 1 \in DOMAIN t
    BY <1>7, <2>1
  <2>3. PICK m \in Nat : m + 1 = i /\ m \in DOMAIN t
    BY <2>2
  <2>4. QED
    BY <1>2, <2>3
<1>8. Len(t) + 1 = Len(w) /\ Len(t) \in Nat
  BY <1>1
<1>9. QED
  BY <1>0, <1>1, <1>4, <1>5, <1>6, <1>7, <1>8

\* A key's places are one later in the window, but for the first.
LEMMA TailPlaces ==
    ASSUME NEW w, NEW t, NEW k, w \in Windows, Shrunk(w, t, k), NEW j
    PROVE  Sts!Places(w, j) \ {1} = {OneLater[i] : i \in Sts!Places(t, j)}
<1>1. ASSUME NEW i \in Sts!Places(w, j), i # 1 PROVE \E m \in Sts!Places(t, j) : i = OneLater[m]
  <2>1. i \in DOMAIN w /\ w[i].key = j
    BY <1>1 DEF Sts!Places
  <2>2. PICK m \in DOMAIN t : i = OneLater[m]
    BY <1>1, <2>1, TailHas
  <2>3. w[OneLater[m]] = t[m]
    BY TailHas
  <2>4. m \in Sts!Places(t, j)
    BY <2>1, <2>2, <2>3 DEF Sts!Places
  <2>5. QED
    BY <2>2, <2>4
<1>2. ASSUME NEW m \in Sts!Places(t, j) PROVE OneLater[m] \in Sts!Places(w, j) /\ OneLater[m] # 1
  <2>1. m \in DOMAIN t /\ t[m].key = j
    BY <1>2 DEF Sts!Places
  <2>2. OneLater[m] \in DOMAIN w /\ w[OneLater[m]] = t[m] /\ OneLater[m] # 1
    BY <2>1, TailHas
  <2>3. QED
    BY <2>1, <2>2 DEF Sts!Places
<1>3. QED
  BY <1>1, <1>2

\* The first is the oldest value's key's.
LEMMA TailFirst ==
    ASSUME NEW w, NEW t, NEW k, w \in Windows, Shrunk(w, t, k), NEW j
    PROVE  1 \in Sts!Places(w, j) <=> j = k
  BY TailHas DEF Sts!Places

\* All keys but that are the rest's.
LEMMA TailKeys ==
    ASSUME NEW w, NEW t, NEW k, w \in Windows, Shrunk(w, t, k)
    PROVE  Sts!KeysOf(w) = Sts!KeysOf(t) \cup {k}
<1>1. ASSUME NEW i \in DOMAIN w PROVE w[i].key \in Sts!KeysOf(t) \cup {k}
  <2>1. CASE i = 1
    BY <2>1, TailHas
  <2>2. CASE i # 1
    <3>1. PICK m \in DOMAIN t : i = OneLater[m]
      BY <2>2, TailHas
    <3>2. w[i] = t[m]
      BY <3>1, TailHas
    <3>3. QED
      BY <3>2 DEF Sts!KeysOf
  <2>3. QED
    BY <2>1, <2>2
<1>2. ASSUME NEW m \in DOMAIN t PROVE t[m].key \in Sts!KeysOf(w)
  <2>1. OneLater[m] \in DOMAIN w /\ w[OneLater[m]] = t[m]
    BY TailHas
  <2>2. w[OneLater[m]].key = t[m].key
    BY <2>1
  <2>3. QED
    BY <2>1, <2>2 DEF Sts!KeysOf
<1>3. k \in Sts!KeysOf(w)
  BY TailHas DEF Sts!KeysOf
<1>4. QED
  BY <1>1, <1>2, <1>3 DEF Sts!KeysOf


\* One value more: the totals of its key take it in, the others stay.
LEMMA AppendRecount ==
    ASSUME Sts!WindowAssumption, NEW w \in Windows, NEW x \in Entered, NEW a, NEW l, NEW k,
           Grown(w, x, a, l, k), NEW d, d = x.val
    PROVE  /\ k \in Sts!KeysOf(w) => Sts!Recount(a, k) = Sts!add(Sts!Recount(w, k), d)
           /\ k \notin Sts!KeysOf(w) => Sts!Recount(a, k) = Sts!add(Sts!stat_val, d)
           /\ \A j : j # k => Sts!Recount(a, j) = Sts!Recount(w, j)
<1>3. /\ a \in Windows /\ l \notin DOMAIN w /\ l \in DOMAIN a /\ a[l] = x
      /\ \A i \in DOMAIN w : i \in DOMAIN a /\ a[i] = w[i]
      /\ Sts!Places(a, k) = Sts!Places(w, k) \cup {l}
  <2>1. /\ a \in Windows /\ l \notin DOMAIN w /\ l \in DOMAIN a /\ a[l] = x
        /\ \A i \in DOMAIN w : i \in DOMAIN a /\ a[i] = w[i]
    BY AppendHas
  <2>2. Sts!Places(a, k) = Sts!Places(w, k) \cup {l}
    BY AppendPlaces
  <2>3. QED
    BY <2>1, <2>2
<1>4. ASSUME NEW j, NEW i \in Sts!Places(w, j)
      PROVE  i \in DOMAIN w /\ Vals(a)[i] = Vals(w)[i] /\ Squares(a)[i] = Squares(w)[i]
  <2>1. i \in DOMAIN w /\ i \in DOMAIN a /\ a[i] = w[i]
    BY <1>3, <1>4, PlacesHave
  <2>2. QED
    BY <2>1 DEF Vals, Squares
<1>5. d \in Int /\ Vals(a)[l] = d /\ Squares(a)[l] = d * d /\ d * d \in Int
  <2>1. l \in DOMAIN a /\ a[l].val = d
    BY <1>3
  <2>2. /\ \A i \in DOMAIN a : Vals(a)[i] = a[i].val /\ Squares(a)[i] = a[i].val * a[i].val
        /\ \A i \in DOMAIN a : a[i].val \in Int /\ Squares(a)[i] \in Int
    BY <1>3, PlacesHave
  <2>3. QED
    BY <2>1, <2>2
<1>6. ASSUME NEW j, j # k PROVE Sts!Recount(a, j) = Sts!Recount(w, j)
  <2>1. PICK S : S = Sts!Places(w, j)
    OBVIOUS
  <2>2. Sts!Places(a, j) = S /\ IsFiniteSet(S)
    BY <1>6, <2>1, AppendElsewhere, PlacesHave
  <2>3. SumFunctionOnSet(Vals(a), S) = SumFunctionOnSet(Vals(w), S)
    BY <1>4, <2>1, <2>2, SumSame
  <2>4. SumFunctionOnSet(Squares(a), S) = SumFunctionOnSet(Squares(w), S)
    BY <1>4, <2>1, <2>2, SumSame
  <2>5. Sts!ValuesIn(a, j) = Sts!ValuesIn(w, j)
    <3>1. \A i \in S : a[i].val = w[i].val
      BY <1>3, <1>4, <2>1
    <3>2. QED
      BY <2>1, <2>2, <3>1 DEF Sts!ValuesIn
  <2>6. QED
    BY <2>1, <2>2, <2>3, <2>4, <2>5, RecountIs
<1>7. PICK S : S = Sts!Places(w, k)
  OBVIOUS
<1>8. PICK V : V = Sts!ValuesIn(w, k)
  OBVIOUS
<1>9. /\ IsFiniteSet(S) /\ l \notin S /\ V \subseteq Int /\ IsFiniteSet(V)
      /\ k \in Sts!KeysOf(w) <=> S # {}
      /\ V # {} <=> S # {}
  <2>1. /\ IsFiniteSet(S) /\ S \subseteq DOMAIN w /\ V \subseteq Int /\ IsFiniteSet(V)
        /\ k \in Sts!KeysOf(w) <=> S # {}
    BY <1>7, <1>8, PlacesHave
  <2>2. V # {} <=> S # {}
    BY <1>7, <1>8 DEF Sts!ValuesIn
  <2>3. QED
    BY <1>3, <2>1, <2>2
<1>10. Cardinality(S \cup {l}) = Cardinality(S) + 1 /\ Cardinality(S) \in Nat /\ (Cardinality(S) > 0 <=> S # {})
  <2>1. Cardinality(S \cup {l}) = Cardinality(S) + 1
    BY <1>9, FS_AddElement
  <2>2. Cardinality(S) \in Nat /\ (Cardinality(S) = 0 <=> S = {})
    BY <1>9, FS_CardinalityType, FS_EmptySet
  <2>3. QED
    BY <2>1, <2>2
<1>11. SumFunctionOnSet(Vals(a), S \cup {l}) = d + SumFunctionOnSet(Vals(w), S)
  <2>1. \A i \in S \cup {l} : Vals(a)[i] \in Int
    BY <1>3, <1>7, PlacesHave
  <2>2. SumFunctionOnSet(Vals(a), S) = SumFunctionOnSet(Vals(w), S)
    BY <1>4, <1>7, <1>9, SumSame
  <2>3. SumFunctionOnSet(Vals(a), S \cup {l}) = Vals(a)[l] + SumFunctionOnSet(Vals(a), S)
    BY <1>9, <2>1, SumPut
  <2>4. QED
    BY <1>5, <2>2, <2>3
<1>12. SumFunctionOnSet(Squares(a), S \cup {l}) = d * d + SumFunctionOnSet(Squares(w), S)
  <2>1. \A i \in S \cup {l} : Squares(a)[i] \in Int
    BY <1>3, <1>7, PlacesHave
  <2>2. SumFunctionOnSet(Squares(a), S) = SumFunctionOnSet(Squares(w), S)
    BY <1>4, <1>7, <1>9, SumSame
  <2>3. SumFunctionOnSet(Squares(a), S \cup {l}) = Squares(a)[l] + SumFunctionOnSet(Squares(a), S)
    BY <1>9, <2>1, SumPut
  <2>4. QED
    BY <1>5, <2>2, <2>3
<1>13. SumFunctionOnSet(Vals(w), S) \in Int /\ SumFunctionOnSet(Squares(w), S) \in Int
  <2>1. \A i \in S : Vals(w)[i] \in Int /\ Squares(w)[i] \in Int
    BY <1>7, PlacesHave
  <2>2. QED
    BY <1>9, <2>1, SumInt
<1>14. Sts!ValuesIn(a, k) = V \cup {d}
  <2>1. \A i \in S : a[i].val = w[i].val
    BY <1>3, <1>4, <1>7
  <2>2. Sts!ValuesIn(a, k) = {a[i].val : i \in S \cup {l}} /\ V = {w[i].val : i \in S}
    BY <1>3, <1>7, <1>8 DEF Sts!ValuesIn
  <2>3. a[l].val = d
    BY <1>3
  <2>4. {a[i].val : i \in S \cup {l}} = {w[i].val : i \in S} \cup {d}
    BY ONLY <2>1, <2>3
  <2>5. QED
    BY <2>2, <2>4
<1>15. PICK R : R = Sts!Recount(w, k)
  OBVIOUS
<1>16. /\ R.n = Cardinality(S) /\ R.sum = SumFunctionOnSet(Vals(w), S)
       /\ R.sum2 = SumFunctionOnSet(Squares(w), S)
       /\ R.max = Greatest(V) /\ R.min = Lowest(V)
  BY <1>7, <1>8, <1>15, RecountIs
<1>17. Sts!Recount(a, k) = [n |-> Cardinality(S) + 1, sum |-> SumFunctionOnSet(Vals(w), S) + d,
                            sum2 |-> SumFunctionOnSet(Squares(w), S) + d * d,
                            max |-> Greatest(V \cup {d}), min |-> Lowest(V \cup {d})]
  <2>1. Sts!Recount(a, k) = [n |-> Cardinality(S \cup {l}), sum |-> SumFunctionOnSet(Vals(a), S \cup {l}),
                             sum2 |-> SumFunctionOnSet(Squares(a), S \cup {l}),
                             max |-> Greatest(V \cup {d}), min |-> Lowest(V \cup {d})]
    BY <1>3, <1>7, <1>14, RecountIs
  <2>2. /\ SumFunctionOnSet(Vals(a), S \cup {l}) = SumFunctionOnSet(Vals(w), S) + d
        /\ SumFunctionOnSet(Squares(a), S \cup {l}) = SumFunctionOnSet(Squares(w), S) + d * d
    BY <1>5, <1>11, <1>12, <1>13
  <2>3. QED
    BY <1>10, <2>1, <2>2
<1>18. CASE k \in Sts!KeysOf(w)
  <2>1. S # {} /\ V # {} /\ R.n > 0
    BY <1>9, <1>10, <1>16, <1>18
  <2>2. Greatest(V \cup {d}) = Greatest({R.max, d}) /\ Lowest(V \cup {d}) = Lowest({R.min, d})
    <3>1. V \in SUBSET Int /\ IsFiniteSet(V) /\ V # {} /\ d \in Int
      BY <1>5, <1>9, <2>1
    <3>2. Greatest(V \cup {d}) = Greatest({Greatest(V), d})
      BY ONLY <3>1, GreatestMore
    <3>3. Lowest(V \cup {d}) = Lowest({Lowest(V), d})
      BY ONLY <3>1, LowestMore
    <3>4. QED
      BY <1>16, <3>2, <3>3
  <2>3. Sts!add(R, d) = [n |-> R.n + 1, sum |-> R.sum + d, sum2 |-> R.sum2 + d * d,
                         max |-> Greatest({R.max, d}), min |-> Lowest({R.min, d})]
    BY <2>1, SSameExtremes DEF Sts!add
  <2>4. Sts!Recount(a, k) = Sts!add(R, d)
    BY <1>16, <1>17, <2>2, <2>3
  <2>5. QED
    BY <1>6, <1>15, <1>18, <2>4
<1>19. CASE k \notin Sts!KeysOf(w)
  <2>1. S = {} /\ V = {} /\ Cardinality(S) = 0
    BY <1>9, <1>19, FS_EmptySet
  <2>2. SumFunctionOnSet(Vals(w), S) = 0 /\ SumFunctionOnSet(Squares(w), S) = 0
    BY <2>1, SumOfNone
  <2>3. Greatest(V \cup {d}) = d /\ Lowest(V \cup {d}) = d
    BY <1>5, <1>9, <2>1, GreatestMore, LowestMore
  <2>4. Sts!add(Sts!stat_val, d) = [n |-> 0 + 1, sum |-> 0 + d, sum2 |-> 0 + d * d, max |-> d, min |-> d]
    BY DEF Sts!add, Sts!stat_val
  <2>5. Sts!Recount(a, k) = Sts!add(Sts!stat_val, d)
    BY <1>17, <2>1, <2>2, <2>3, <2>4
  <2>6. QED
    BY <1>6, <1>19, <2>5
<1>20. QED
  BY <1>18, <1>19


\* What a key's totals are made of, in the window and in the rest of it.
LEMMA TailSums ==
    ASSUME Sts!WindowAssumption, NEW w, NEW t, NEW k, w \in Windows, Shrunk(w, t, k), NEW j
    PROVE  LET S == Sts!Places(w, j) \ {1}
               T == Sts!Places(t, j)
           IN  /\ IsFiniteSet(S) /\ IsFiniteSet(T) /\ Cardinality(S) = Cardinality(T)
               /\ SumFunctionOnSet(Vals(w), S) = SumFunctionOnSet(Vals(t), T)
               /\ SumFunctionOnSet(Squares(w), S) = SumFunctionOnSet(Squares(t), T)
               /\ {w[i].val : i \in S} = Sts!ValuesIn(t, j)
<1>1. PICK T : T = Sts!Places(t, j)
  OBVIOUS
<1>2. PICK S : S = Sts!Places(w, j) \ {1}
  OBVIOUS
<1>3. S = {OneLater[i] : i \in T}
  BY <1>1, <1>2, TailPlaces
<1>4. t \in Windows
  BY TailHas
<1>5. IsFiniteSet(T) /\ T \subseteq DOMAIN t /\ IsFiniteSet(S)
  <2>1. IsFiniteSet(T) /\ T \subseteq DOMAIN t
    BY <1>1, <1>4, PlacesHave
  <2>2. IsFiniteSet(Sts!Places(w, j))
    BY PlacesHave
  <2>3. IsFiniteSet(S)
    BY <1>2, <2>2, FS_Subset
  <2>4. QED
    BY <2>1, <2>3
<1>6. \A x, y \in T : OneLater[x] = OneLater[y] => x = y
  BY <1>5, TailHas
<1>7. ASSUME NEW i \in T
      PROVE  /\ Vals(t)[i] \in Int /\ Vals(w)[OneLater[i]] = Vals(t)[i]
             /\ Squares(t)[i] \in Int /\ Squares(w)[OneLater[i]] = Squares(t)[i]
             /\ w[OneLater[i]].val = t[i].val
  <2>1. i \in DOMAIN t /\ OneLater[i] \in DOMAIN w /\ w[OneLater[i]] = t[i]
    BY <1>5, TailHas
  <2>2. Vals(t)[i] \in Int /\ Squares(t)[i] \in Int
    BY <1>4, <2>1, PlacesHave
  <2>3. Vals(t)[i] = t[i].val /\ Squares(t)[i] = t[i].val * t[i].val
    BY <2>1 DEF Vals, Squares
  <2>4. Vals(w)[OneLater[i]] = w[OneLater[i]].val /\ Squares(w)[OneLater[i]] = w[OneLater[i]].val * w[OneLater[i]].val
    BY <2>1 DEF Vals, Squares
  <2>5. QED
    BY <2>1, <2>2, <2>3, <2>4
<1>8. SumFunctionOnSet(Vals(w), S) = SumFunctionOnSet(Vals(t), T)
  <2>1. \A x \in T : Vals(t)[x] \in Int /\ Vals(w)[OneLater[x]] = Vals(t)[x]
    BY <1>7
  <2>2. SumFunctionOnSet(Vals(w), {OneLater[x] : x \in T}) = SumFunctionOnSet(Vals(t), T)
    BY ONLY <1>5, <1>6, <2>1, SumMoved
  <2>3. QED
    BY <1>3, <2>2
<1>9. SumFunctionOnSet(Squares(w), S) = SumFunctionOnSet(Squares(t), T)
  <2>1. \A x \in T : Squares(t)[x] \in Int /\ Squares(w)[OneLater[x]] = Squares(t)[x]
    BY <1>7
  <2>2. SumFunctionOnSet(Squares(w), {OneLater[x] : x \in T}) = SumFunctionOnSet(Squares(t), T)
    BY ONLY <1>5, <1>6, <2>1, SumMoved
  <2>3. QED
    BY <1>3, <2>2
<1>10. Cardinality(S) = Cardinality(T)
  <2>1. Cardinality({OneLater[x] : x \in T}) = Cardinality(T)
    BY ONLY <1>5, <1>6, AsManyMoved
  <2>2. QED
    BY <1>3, <2>1
<1>11. {w[i].val : i \in S} = Sts!ValuesIn(t, j)
  <2>1. Sts!ValuesIn(t, j) = {t[i].val : i \in T}
    BY <1>1 DEF Sts!ValuesIn
  <2>2. {w[i].val : i \in S} = {w[OneLater[i]].val : i \in T}
    BY ONLY <1>3
  <2>3. {w[OneLater[i]].val : i \in T} = {t[i].val : i \in T}
    BY <1>7
  <2>4. QED
    BY <2>1, <2>2, <2>3
<1>12. QED
  BY <1>1, <1>2, <1>5, <1>8, <1>9, <1>10, <1>11

\* The totals of the other keys stay.
LEMMA TailElsewhere ==
    ASSUME Sts!WindowAssumption, NEW w, NEW t, NEW k, w \in Windows, Shrunk(w, t, k), NEW j, j # k
    PROVE  Sts!Recount(w, j) = Sts!Recount(t, j)
<1>1. Sts!Places(w, j) \ {1} = Sts!Places(w, j)
  BY TailFirst
<1>2. /\ Cardinality(Sts!Places(w, j)) = Cardinality(Sts!Places(t, j))
      /\ SumFunctionOnSet(Vals(w), Sts!Places(w, j)) = SumFunctionOnSet(Vals(t), Sts!Places(t, j))
      /\ SumFunctionOnSet(Squares(w), Sts!Places(w, j)) = SumFunctionOnSet(Squares(t), Sts!Places(t, j))
      /\ {w[i].val : i \in Sts!Places(w, j)} = Sts!ValuesIn(t, j)
  BY <1>1, TailSums
<1>3. Sts!ValuesIn(w, j) = Sts!ValuesIn(t, j)
  BY <1>2 DEF Sts!ValuesIn
<1>4. QED
  BY <1>2, <1>3, RecountIs

\* The oldest value's key's are what rem() makes of them, if any is left.
LEMMA TailRecount ==
    ASSUME Sts!WindowAssumption, NEW w, NEW t, NEW k, w \in Windows, Shrunk(w, t, k)
    PROVE  LET r == Sts!rem(Sts!Recount(w, k), w[1].val, k, t)
           IN  /\ r.n = 0 <=> k \notin Sts!KeysOf(t)
               /\ k \in Sts!KeysOf(t) => r = Sts!Recount(t, k)
<1>1. PICK S : S = Sts!Places(w, k)
  OBVIOUS
<1>2. PICK T : T = Sts!Places(t, k)
  OBVIOUS
<1>3. PICK V : V = Sts!ValuesIn(t, k)
  OBVIOUS
<1>4. PICK d : d = w[1].val
  OBVIOUS
<1>5. /\ IsFiniteSet(S) /\ 1 \in S /\ \A i \in S : Vals(w)[i] \in Int /\ Squares(w)[i] \in Int
      /\ Vals(w)[1] = d /\ Squares(w)[1] = d * d /\ d \in Int /\ d * d \in Int
  <2>1. 1 \in S
    BY <1>1, TailFirst
  <2>2. IsFiniteSet(S) /\ S \subseteq DOMAIN w
    BY <1>1, PlacesHave
  <2>3. /\ \A i \in DOMAIN w : w[i].val \in Int
        /\ \A i \in DOMAIN w : Vals(w)[i] = w[i].val /\ Squares(w)[i] = w[i].val * w[i].val
        /\ \A i \in DOMAIN w : Vals(w)[i] \in Int /\ Squares(w)[i] \in Int
    BY PlacesHave
  <2>4. 1 \in DOMAIN w
    BY <2>1, <2>2
  <2>5. d \in Int /\ Vals(w)[1] = d /\ Squares(w)[1] = d * d /\ Squares(w)[1] \in Int
    BY <1>4, <2>3, <2>4
  <2>6. QED
    BY <2>1, <2>2, <2>3, <2>5
<1>6. /\ IsFiniteSet(S \ {1}) /\ IsFiniteSet(T) /\ Cardinality(S \ {1}) = Cardinality(T)
      /\ SumFunctionOnSet(Vals(w), S \ {1}) = SumFunctionOnSet(Vals(t), T)
      /\ SumFunctionOnSet(Squares(w), S \ {1}) = SumFunctionOnSet(Squares(t), T)
      /\ {w[i].val : i \in S \ {1}} = V
  BY <1>1, <1>2, <1>3, TailSums
<1>7. Cardinality(S) = Cardinality(T) + 1 /\ Cardinality(T) \in Nat /\ (Cardinality(T) = 0 <=> T = {})
  <2>1. Cardinality(S \ {1}) = Cardinality(S) - 1 /\ Cardinality(S) \in Nat
    BY <1>5, FS_RemoveElement, FS_CardinalityType
  <2>2. Cardinality(T) \in Nat /\ (Cardinality(T) = 0 <=> T = {})
    BY <1>6, FS_CardinalityType, FS_EmptySet
  <2>3. QED
    BY <1>6, <2>1, <2>2
<1>8. SumFunctionOnSet(Vals(w), S) = d + SumFunctionOnSet(Vals(t), T)
  <2>1. SumFunctionOnSet(Vals(w), S) = Vals(w)[1] + SumFunctionOnSet(Vals(w), S \ {1})
    BY <1>5, SumTake
  <2>2. QED
    BY <1>5, <1>6, <2>1
<1>9. SumFunctionOnSet(Squares(w), S) = d * d + SumFunctionOnSet(Squares(t), T)
  <2>1. SumFunctionOnSet(Squares(w), S) = Squares(w)[1] + SumFunctionOnSet(Squares(w), S \ {1})
    BY <1>5, SumTake
  <2>2. QED
    BY <1>5, <1>6, <2>1
<1>10. t \in Windows
  BY TailHas
<1>11. SumFunctionOnSet(Vals(t), T) \in Int /\ SumFunctionOnSet(Squares(t), T) \in Int
  <2>1. \A i \in T : Vals(t)[i] \in Int /\ Squares(t)[i] \in Int
    BY <1>2, <1>10, PlacesHave
  <2>2. SumFunctionOnSet(Vals(t), T) \in Int
    BY <1>6, <2>1, SumInt
  <2>3. SumFunctionOnSet(Squares(t), T) \in Int
    BY <1>6, <2>1, SumInt
  <2>4. QED
    BY <2>2, <2>3
<1>12. Sts!ValuesIn(w, k) = V \cup {d}
  <2>1. Sts!ValuesIn(w, k) = {w[i].val : i \in S}
    BY <1>1 DEF Sts!ValuesIn
  <2>2. {w[i].val : i \in S} = {w[i].val : i \in S \ {1}} \cup {w[1].val}
    BY <1>5
  <2>3. QED
    BY <1>4, <1>6, <2>1, <2>2
<1>13. /\ V \in SUBSET Int /\ IsFiniteSet(V)
       /\ V = {} <=> T = {}
       /\ k \in Sts!KeysOf(t) <=> T # {}
  <2>1. V \in SUBSET Int /\ IsFiniteSet(V)
    BY <1>3, <1>10, PlacesHave
  <2>2. k \in Sts!KeysOf(t) <=> T # {}
    BY <1>2, <1>10, PlacesHave
  <2>3. V = {} <=> T = {}
    BY <1>2, <1>3 DEF Sts!ValuesIn
  <2>4. QED
    BY <2>1, <2>2, <2>3
<1>14. PICK R : R = Sts!Recount(w, k)
  OBVIOUS
<1>15. /\ R.n = Cardinality(T) + 1 /\ R.sum = d + SumFunctionOnSet(Vals(t), T)
       /\ R.sum2 = d * d + SumFunctionOnSet(Squares(t), T)
       /\ R.max = Greatest(V \cup {d}) /\ R.min = Lowest(V \cup {d})
  <2>1. /\ R.n = Cardinality(S) /\ R.sum = SumFunctionOnSet(Vals(w), S)
        /\ R.sum2 = SumFunctionOnSet(Squares(w), S)
        /\ R.max = Greatest(V \cup {d}) /\ R.min = Lowest(V \cup {d})
    BY <1>1, <1>12, <1>14, RecountIs
  <2>2. QED
    BY <1>7, <1>8, <1>9, <2>1
<1>16. PICK r : r = Sts!rem(R, d, k, t)
  OBVIOUS
<1>17. r = [n |-> R.n - 1, sum |-> R.sum - d, sum2 |-> R.sum2 - d * d,
            max |-> IF R.max # d THEN R.max ELSE IF R.n > 1 THEN Greatest(V) ELSE 0,
            min |-> IF R.min # d THEN R.min ELSE IF R.n > 1 THEN Lowest(V) ELSE 0]
  BY <1>3, <1>16, SSameExtremes DEF Sts!rem
<1>18. r.n = Cardinality(T)
  BY <1>7, <1>15, <1>17
<1>19. CASE T # {}
  <2>1. R.n > 1 /\ V # {}
    BY <1>7, <1>13, <1>15, <1>19
  <2>2. R.max # d => R.max = Greatest(V)
    BY <1>5, <1>13, <1>15, <2>1, GreatestMore
  <2>3. R.min # d => R.min = Lowest(V)
    BY <1>5, <1>13, <1>15, <2>1, LowestMore
  <2>4. r.max = Greatest(V) /\ r.min = Lowest(V)
    BY <1>17, <2>1, <2>2, <2>3
  <2>5. r.sum = SumFunctionOnSet(Vals(t), T) /\ r.sum2 = SumFunctionOnSet(Squares(t), T)
    <3>1. r.sum = R.sum - d /\ r.sum2 = R.sum2 - d * d
      BY <1>17
    <3>2. QED
      BY <1>5, <1>11, <1>15, <3>1
  <2>6. r = [n |-> Cardinality(T), sum |-> SumFunctionOnSet(Vals(t), T),
             sum2 |-> SumFunctionOnSet(Squares(t), T), max |-> Greatest(V), min |-> Lowest(V)]
    BY <1>17, <1>18, <2>4, <2>5
  <2>7. r = Sts!Recount(t, k)
    BY <1>2, <1>3, <2>6, RecountIs
  <2>8. QED
    BY <1>4, <1>7, <1>13, <1>14, <1>16, <1>18, <1>19, <2>7
<1>20. CASE T = {}
  <2>1. k \notin Sts!KeysOf(t) /\ r.n = 0
    BY <1>7, <1>13, <1>18, <1>20
  <2>2. QED
    BY <1>4, <1>14, <1>16, <2>1
<1>21. QED
  BY <1>19, <1>20


\* What is kept of a window.
Recounted(w) == [k \in Sts!KeysOf(w) |-> Sts!Recount(w, k)]

\* One value more keeps the totals those of the window.
LEMMA AppendKeeps ==
    ASSUME Sts!WindowAssumption, NEW w \in Windows, NEW x \in Entered, NEW a, NEW l, NEW k,
           Grown(w, x, a, l, k), NEW st, st = Recounted(w), NEW d, d = x.val
    PROVE  [j \in DOMAIN st \cup {k} |-> IF j = k THEN Sts!add(Sts!StatOf(st, k), d) ELSE st[j]]
             = Recounted(a)
<1>1. DOMAIN st = Sts!KeysOf(w) /\ \A j \in Sts!KeysOf(w) : st[j] = Sts!Recount(w, j)
  BY DEF Recounted
<1>2. Sts!KeysOf(a) = DOMAIN st \cup {k}
  BY <1>1, AppendKeys
<1>3. Sts!Recount(a, k) = Sts!add(Sts!StatOf(st, k), d)
  <2>1. CASE k \in Sts!KeysOf(w)
    <3>1. Sts!StatOf(st, k) = Sts!Recount(w, k)
      BY <1>1, <2>1 DEF Sts!StatOf
    <3>2. QED
      BY <2>1, <3>1, AppendRecount
  <2>2. CASE k \notin Sts!KeysOf(w)
    <3>1. Sts!StatOf(st, k) = Sts!stat_val
      BY <1>1, <2>2 DEF Sts!StatOf
    <3>2. QED
      BY <2>2, <3>1, AppendRecount
  <2>3. QED
    BY <2>1, <2>2
<1>4. \A j \in DOMAIN st : j # k => Sts!Recount(a, j) = st[j]
  BY <1>1, AppendRecount
<1>5. QED
  BY <1>2, <1>3, <1>4 DEF Recounted

\* So does the oldest value's leaving.
LEMMA ShrinkKeeps ==
    ASSUME Sts!WindowAssumption, NEW w, NEW t, NEW k, w \in Windows, Shrunk(w, t, k),
           NEW st, st = Recounted(w)
    PROVE  Sts!Shrink(w, st).window = t /\ Sts!Shrink(w, st).stats = Recounted(t)
<1>1. t = Tail(w) /\ k = w[1].key
  BY DEF Shrunk
<1>2. PICK d : d = w[1].val
  OBVIOUS
<1>3. Sts!KeysOf(w) = Sts!KeysOf(t) \cup {k}
  BY TailKeys
<1>4. DOMAIN st = Sts!KeysOf(w) /\ \A j \in Sts!KeysOf(w) : st[j] = Sts!Recount(w, j)
  BY DEF Recounted
<1>5. PICK r : r = Sts!rem(st[k], d, k, t)
  OBVIOUS
<1>6. /\ r.n = 0 <=> k \notin Sts!KeysOf(t)
      /\ k \in Sts!KeysOf(t) => r = Sts!Recount(t, k)
  <2>1. st[k] = Sts!Recount(w, k)
    BY <1>3, <1>4
  <2>2. QED
    BY <1>2, <1>5, <2>1, TailRecount
<1>7. \A j \in DOMAIN st : j # k => st[j] = Sts!Recount(t, j)
  BY <1>4, TailElsewhere
<1>8. /\ Sts!Shrink(w, st).window = t
      /\ Sts!Shrink(w, st).stats =
           [j \in DOMAIN st \ (IF r.n = 0 THEN {k} ELSE {}) |-> IF j = k THEN r ELSE st[j]]
  BY <1>1, <1>2, <1>5 DEF Sts!Shrink
<1>9. DOMAIN st \ (IF r.n = 0 THEN {k} ELSE {}) = Sts!KeysOf(t)
  BY <1>3, <1>4, <1>6
<1>10. \A j \in Sts!KeysOf(t) : (IF j = k THEN r ELSE st[j]) = Sts!Recount(t, j)
  BY <1>3, <1>4, <1>6, <1>7
<1>11. QED
  BY <1>8, <1>9, <1>10 DEF Recounted

\* The counts of the keys are as many as there are values.
LEMMA CountsAddUp ==
    ASSUME Sts!WindowAssumption, NEW w \in Windows, NEW f,
           \A k \in Sts!KeysOf(w) : f[k] = Cardinality(Sts!Places(w, k))
    PROVE  /\ IsFiniteSet(Sts!KeysOf(w)) /\ SumFunctionOnSet(f, Sts!KeysOf(w)) = Len(w)
           /\ \A k \in Sts!KeysOf(w) : f[k] \in Nat
<1>1. DOMAIN w = 1..Len(w) /\ Len(w) \in Nat
  BY DEF Windows
<1>2. IsFiniteSet(DOMAIN w) /\ Cardinality(DOMAIN w) = Len(w)
  <2>1. PICK m \in Nat : m = Len(w)
    BY <1>1
  <2>2. IsFiniteSet(1..m) /\ Cardinality(1..m) = IF 1 > m THEN 0 ELSE m - 1 + 1
    BY FS_Interval
  <2>3. Cardinality(1..m) = m
    BY <2>2
  <2>4. QED
    BY <1>1, <2>1, <2>2, <2>3
<1>3. PICK K : K = Sts!KeysOf(w)
  OBVIOUS
<1>4. IsFiniteSet(K)
  <2> DEFINE g == [i \in DOMAIN w |-> w[i].key]
  <2>1. K = {g[i] : i \in DOMAIN w}
    BY <1>3 DEF Sts!KeysOf
  <2> HIDE DEF g
  <2>2. QED
    BY <1>2, <2>1, FiniteValues
<1>5. PICK P : P = [k \in K |-> Sts!Places(w, k)]
  OBVIOUS
<1>6. \A k \in K : IsFiniteSet(P[k]) /\ f[k] = Cardinality(P[k])
  BY <1>3, <1>5, PlacesHave
<1>7. UNION {P[k] : k \in K} = DOMAIN w
  <2>1. \A i \in DOMAIN w : w[i].key \in K /\ i \in P[w[i].key]
    BY <1>3, <1>5 DEF Sts!Places, Sts!KeysOf
  <2>2. \A k \in K : P[k] \subseteq DOMAIN w
    BY <1>5 DEF Sts!Places
  <2>3. QED
    BY <2>1, <2>2
<1>8. Parts(P, K, DOMAIN w)
  <2>1. \A x, y \in K : x # y => P[x] \cap P[y] = {}
    BY <1>5 DEF Sts!Places
  <2>2. QED
    BY <1>7, <2>1 DEF Parts
<1>9. SumFunctionOnSet(f, K) = Cardinality(DOMAIN w)
  BY ONLY <1>4, <1>6, <1>8, SumOfParts
<1>10. \A k \in K : f[k] \in Nat
  BY <1>6, FS_CardinalityType
<1>11. QED
  BY <1>2, <1>3, <1>4, <1>9, <1>10


\* How many values there can be on a number of servers
Most(c) == window_size * c

\* What is given of some values is not more than of them together.
Fair(d) == d.n \in Nat /\ d.e \in Int /\ d.n <= Most(Cardinality(Server)) /\ d.e <= XLogX[d.n]

\* While a round gathers, what it has is of the servers that were asked; what
\* a server keeps of a MIX, or is about to, is of values that fit the windows.
StatInv ==
    /\ window \in [Server -> Windows] /\ \A s \in Server : Len(window[s]) <= window_size
    /\ stats = [s \in Server |-> Recounted(window[s])]
    /\ entropy \in [Server -> Int] /\ number \in [Server -> Nat]
    /\ \A s \in Server : Fair([n |-> number[s], e |-> entropy[s]])
    /\ due \subseteq Server /\ Fair(folded)
    /\ leg = "gather" => folded.n <= Most(Cardinality(Server \ due))

\* The bounds are numbers, and n * log(n) is of all of them.
LEMMA BoundsHold ==
    ASSUME Sts!WindowAssumption
    PROVE  /\ IsFiniteSet(Server) /\ Cardinality(Server) \in Nat /\ window_size \in Nat \ {0}
           /\ Most(Cardinality(Server)) \in Nat /\ Superadditive(XLogX, Most(Cardinality(Server)))
<1>1. IsFiniteSet(Server) /\ Cardinality(Server) \in Nat
  BY SFinite, FS_CardinalityType
<1>2. /\ window_size \in Nat \ {0} /\ XLogX \in [0..(Cardinality(Server) * window_size) -> Int] /\ XLogX[0] = 0
      /\ \A a, b \in DOMAIN XLogX : a + b \in DOMAIN XLogX => XLogX[a] + XLogX[b] <= XLogX[a + b]
  BY SSameCardinality DEF Sts!WindowAssumption
<1>3. PICK c : c = Cardinality(Server)
  OBVIOUS
<1>4. c \in Nat /\ Most(c) = window_size * c /\ Most(c) \in Nat /\ c * window_size = Most(c)
  BY <1>1, <1>2, <1>3 DEF Most
<1>5. DOMAIN XLogX = 0..Most(c) /\ XLogX \in [0..Most(c) -> Int]
  BY <1>2, <1>3, <1>4
<1>6. Superadditive(XLogX, Most(c))
  BY <1>2, <1>5 DEF Superadditive
<1>7. QED
  BY <1>1, <1>2, <1>3, <1>4, <1>6

\* One server's values fit.
LEMMA OneFits == ASSUME Sts!WindowAssumption, NEW s \in Server PROVE window_size <= Most(Cardinality(Server))
<1>1. Cardinality(Server) # 0
  BY BoundsHold, FS_EmptySet
<1>2. PICK c \in Nat : c = Cardinality(Server) /\ c # 0
  BY <1>1, BoundsHold
<1>3. PICK b \in Nat : b + 1 = c
  <2>1. c - 1 \in Nat /\ (c - 1) + 1 = c
    BY <1>2
  <2>2. QED
    BY <2>1
<1>4. PICK z \in Nat : z = window_size
  BY BoundsHold
<1>5. z * (b + 1) = z * b + z /\ z * b \in Nat
  BY TimesOneMore
<1>6. z <= z * c
  BY <1>3, <1>5
<1>7. QED
  BY <1>2, <1>4, <1>6 DEF Most

\* A server gives as many values as its window has, and not more than they
\* have together.
LEMMA DiffIs ==
    ASSUME Sts!WindowAssumption, StatInv, NEW s \in Server
    PROVE  /\ Sts!get_diff(s) = [e |-> Sts!get_diff(s).e, n |-> Sts!get_diff(s).n]
           /\ Sts!get_diff(s).n = Len(window[s]) /\ Fair(Sts!get_diff(s))
<1>1. PICK w : w = window[s]
  OBVIOUS
<1>2. w \in Windows /\ stats[s] = Recounted(w) /\ Len(w) <= window_size
  BY <1>1 DEF StatInv
<1>3. PICK K : K = Sts!KeysOf(w)
  OBVIOUS
<1>4. DOMAIN stats[s] = K /\ \A k \in K : stats[s][k] = Sts!Recount(w, k)
  BY <1>2, <1>3 DEF Recounted
<1>5. PICK f : f = [k \in DOMAIN stats[s] |-> stats[s][k].n]
  OBVIOUS
<1>6. PICK h : h = [k \in DOMAIN stats[s] |-> XLogX[stats[s][k].n]]
  OBVIOUS
<1>7. DOMAIN f = K /\ DOMAIN h = K
  BY <1>4, <1>5, <1>6
<1>8. \A k \in K : f[k] = Cardinality(Sts!Places(w, k)) /\ h[k] = XLogX[f[k]]
  <2>1. \A k \in K : Sts!Recount(w, k).n = Cardinality(Sts!Places(w, k))
    BY RecountIs
  <2>2. QED
    BY <1>4, <1>5, <1>6, <2>1
<1>9. Sts!get_diff(s) = [e |-> Sts!Total(h), n |-> Sts!Total(f)]
  BY <1>5, <1>6 DEF Sts!get_diff
<1>10. Sts!Total(h) = SumFunctionOnSet(h, K) /\ Sts!Total(f) = SumFunctionOnSet(f, K)
  BY <1>7, SSameSums DEF Sts!Total
<1>11. IsFiniteSet(K) /\ SumFunctionOnSet(f, K) = Len(w) /\ \A k \in K : f[k] \in Nat
  BY <1>2, <1>3, <1>8, CountsAddUp
<1>12. PICK M : M = Most(Cardinality(Server))
  OBVIOUS
<1>13. M \in Nat /\ Superadditive(XLogX, M) /\ window_size <= M /\ window_size \in Nat /\ Len(w) \in Nat
  BY <1>2, <1>12, BoundsHold, OneFits DEF Windows
<1>14. SumFunctionOnSet(f, K) <= M
  BY <1>2, <1>11, <1>13
<1>15. \A k \in K : f[k] \in Nat /\ h[k] = XLogX[f[k]]
  BY <1>8, <1>11
<1>16. SumFunctionOnSet(h, K) \in Int /\ SumFunctionOnSet(h, K) <= XLogX[SumFunctionOnSet(f, K)]
  BY ONLY <1>11, <1>13, <1>14, <1>15, SumOfSums
<1>17. PICK D : D = Sts!get_diff(s)
  OBVIOUS
<1>18. D.n = Len(w) /\ D.e = SumFunctionOnSet(h, K) /\ D = [e |-> D.e, n |-> D.n]
  BY <1>9, <1>10, <1>11, <1>17
<1>19. Fair(D)
  BY <1>11, <1>12, <1>13, <1>14, <1>16, <1>18 DEF Fair
<1>20. QED
  BY <1>1, <1>17, <1>18, <1>19

\* Together, two that are fair stay so while the values fit.
LEMMA FairTogether ==
    ASSUME Sts!WindowAssumption, NEW a, NEW b, Fair(a), Fair(b), a.n + b.n <= Most(Cardinality(Server))
    PROVE  Fair(Sts!mix(a, b))
<1>1. PICK M : M = Most(Cardinality(Server))
  OBVIOUS
<1>2. M \in Nat /\ Superadditive(XLogX, M)
  BY <1>1, BoundsHold
<1>3. PICK x, y : x = a.n /\ y = b.n
  OBVIOUS
<1>4. x \in Nat /\ y \in Nat /\ x + y <= M /\ a.e \in Int /\ b.e \in Int /\ a.e <= XLogX[x] /\ b.e <= XLogX[y]
  BY <1>1, <1>3 DEF Fair
<1>5. PICK z : z = y + x
  OBVIOUS
<1>6. x \in 0..M /\ y \in 0..M /\ z \in 0..M /\ z = x + y /\ z \in Nat
  BY <1>2, <1>4, <1>5
<1>7. XLogX[x] + XLogX[y] <= XLogX[z] /\ XLogX[x] \in Int /\ XLogX[y] \in Int /\ XLogX[z] \in Int
  <2>1. XLogX[x] + XLogX[y] <= XLogX[x + y]
    BY <1>2, <1>6 DEF Superadditive
  <2>2. XLogX[x] \in Int /\ XLogX[y] \in Int /\ XLogX[z] \in Int
    BY <1>2, <1>6 DEF Superadditive
  <2>3. QED
    BY <1>6, <2>1, <2>2
<1>8. PICK r : r = Sts!mix(a, b)
  OBVIOUS
<1>9. r.n = z /\ r.e = b.e + a.e
  BY <1>3, <1>5, <1>8 DEF Sts!mix
<1>10. r.e \in Int /\ r.e <= XLogX[z]
  BY <1>4, <1>7, <1>9
<1>11. Fair(r)
  BY <1>1, <1>6, <1>9, <1>10 DEF Fair
<1>12. QED
  BY <1>8, <1>11


\* A key that does not occur has no totals; an empty window has no keys.
LEMMA NoneRecounted == <<>> \in Windows /\ Recounted(<<>>) = <<>> /\ Len(<<>>) = 0
<1>1. <<>> \in Windows /\ Len(<<>>) = 0 /\ DOMAIN <<>> = {}
  BY DEF Windows
<1>2. Sts!KeysOf(<<>>) = {}
  BY <1>1 DEF Sts!KeysOf
<1>3. QED
  BY <1>1, <1>2 DEF Recounted

\* Nothing is fair.
LEMMA NothingFair == ASSUME Sts!WindowAssumption PROVE Fair([e |-> 0, n |-> 0])
<1>1. XLogX[0] = 0
  BY DEF Sts!WindowAssumption
<1>2. QED
  BY <1>1, BoundsHold DEF Fair

\* Everything is empty at first.
LEMMA StatStarts == ASSUME Sts!WindowAssumption, Sts!Init PROVE StatInv
<1>1. window \in [Server -> Windows] /\ \A s \in Server : Len(window[s]) <= window_size
  BY NoneRecounted, BoundsHold DEF Sts!Init
<1>2. stats = [s \in Server |-> Recounted(window[s])]
  BY NoneRecounted DEF Sts!Init
<1>3. entropy \in [Server -> Int] /\ number \in [Server -> Nat]
  BY DEF Sts!Init
<1>4. \A s \in Server : [n |-> number[s], e |-> entropy[s]] = [e |-> 0, n |-> 0]
  BY DEF Sts!Init
<1>5. folded = [e |-> 0, n |-> 0] /\ due = {} /\ leg = "idle"
  BY DEF Sts!Init
<1>6. QED
  BY <1>1, <1>2, <1>3, <1>4, <1>5, NothingFair DEF StatInv

\* While nobody's window changes, nor what a round left, nothing does.
LEMMA WindowsChange ==
    ASSUME Sts!WindowAssumption, StatInv, UNCHANGED <<entropy, number, folded, due, leg>>,
           NEW s \in Server, NEW t \in Windows, Len(t) <= window_size,
           window' = [window EXCEPT ![s] = t], stats' = [stats EXCEPT ![s] = Recounted(t)]
    PROVE  StatInv'
<1>1. window' \in [Server -> Windows] /\ \A x \in Server : window'[x] = IF x = s THEN t ELSE window[x]
  BY DEF StatInv
<1>2. \A x \in Server : Len(window'[x]) <= window_size
  BY <1>1 DEF StatInv
<1>3. stats' = [x \in Server |-> Recounted(window'[x])]
  <2>1. stats' = [x \in Server |-> IF x = s THEN Recounted(t) ELSE Recounted(window[x])]
    BY DEF StatInv
  <2>2. \A x \in Server : (IF x = s THEN Recounted(t) ELSE Recounted(window[x])) = Recounted(window'[x])
    BY <1>1
  <2>3. QED
    BY <2>1, <2>2
<1>4. QED
  BY <1>1, <1>2, <1>3 DEF StatInv

\* A value more, and the oldest leaves when there are too many.
LEMMA PushStep ==
    ASSUME Sts!WindowAssumption, StatInv, NEW s \in Server, NEW k \in Key, NEW v \in Value, Sts!push(s, k, v)
    PROVE  StatInv'
<1>1. PICK w : w = window[s]
  OBVIOUS
<1>2. w \in Windows /\ stats[s] = Recounted(w) /\ Len(w) <= window_size
  BY <1>1 DEF StatInv
<1>3. PICK x : x = [key |-> k, val |-> v]
  OBVIOUS
<1>4. x \in Entered /\ x.key = k /\ x.val = v
  BY <1>3 DEF Entered
<1>5. PICK a : a = Append(w, x)
  OBVIOUS
<1>6. PICK l : Grown(w, x, a, l, k)
  BY <1>4, <1>5 DEF Grown
<1>7. PICK st : st = [j \in DOMAIN stats[s] \cup {k} |->
                        IF j = k THEN Sts!add(Sts!StatOf(stats[s], k), v) ELSE stats[s][j]]
  OBVIOUS
<1>8. st = Recounted(a)
  BY <1>2, <1>4, <1>6, <1>7, AppendKeeps
<1>9. a \in Windows /\ Len(a) = Len(w) + 1 /\ Len(w) \in Nat
  BY <1>2, <1>4, <1>6, AppendHas
<1>10. PICK kept : kept = IF Len(a) > window_size THEN Sts!Shrink(a, st) ELSE [window |-> a, stats |-> st]
  OBVIOUS
<1>11. /\ window' = [window EXCEPT ![s] = kept.window] /\ stats' = [stats EXCEPT ![s] = kept.stats]
       /\ UNCHANGED <<entropy, number, folded, due, leg>>
  BY <1>1, <1>3, <1>5, <1>7, <1>10 DEF Sts!push
<1>12. PICK t : t = kept.window
  OBVIOUS
<1>13. t \in Windows /\ Len(t) <= window_size /\ kept.stats = Recounted(t)
  <2>1. CASE Len(a) > window_size
    <3>1. PICK c, q : c = a[1].key /\ q = Tail(a)
      OBVIOUS
    <3>2. a # <<>>
      <4>1. Len(a) # 0
        BY <1>9
      <4>2. QED
        BY <4>1, NoneRecounted
    <3>3. Shrunk(a, q, c)
      BY <3>1, <3>2 DEF Shrunk
    <3>4. Sts!Shrink(a, st).window = q /\ Sts!Shrink(a, st).stats = Recounted(q)
      BY <1>8, <1>9, <3>3, ShrinkKeeps
    <3>5. q \in Windows /\ Len(q) + 1 = Len(a) /\ Len(q) \in Nat
      BY <1>9, <3>3, TailHas
    <3>6. Len(q) <= window_size
      BY <1>2, <1>9, <3>5, BoundsHold
    <3>7. QED
      BY <1>10, <1>12, <2>1, <3>4, <3>5, <3>6
  <2>2. CASE ~(Len(a) > window_size)
    <3>1. kept = [window |-> a, stats |-> st]
      BY <1>10, <2>2
    <3>2. Len(a) <= window_size
      BY <1>9, <2>2, BoundsHold
    <3>3. QED
      BY <1>8, <1>9, <1>12, <3>1, <3>2
  <2>3. QED
    BY <2>1, <2>2
<1>14. window' = [window EXCEPT ![s] = t] /\ stats' = [stats EXCEPT ![s] = Recounted(t)]
  BY <1>11, <1>12, <1>13
<1>15. QED
  BY <1>11, <1>13, <1>14, WindowsChange

\* An empty window has no totals.
LEMMA ClearWindowStep ==
    ASSUME Sts!WindowAssumption, StatInv, NEW s \in Server, Sts!clear(s)
    PROVE  StatInv'
<1>1. /\ window' = [window EXCEPT ![s] = <<>>] /\ stats' = [stats EXCEPT ![s] = <<>>]
      /\ UNCHANGED <<entropy, number, folded, due, leg>>
  BY DEF Sts!clear
<1>2. PICK t : t = <<>>
  OBVIOUS
<1>3. t \in Windows /\ Recounted(t) = t /\ Len(t) <= window_size
  BY <1>2, NoneRecounted, BoundsHold
<1>4. window' = [window EXCEPT ![s] = t] /\ stats' = [stats EXCEPT ![s] = Recounted(t)]
  BY <1>1, <1>2, <1>3
<1>5. QED
  BY <1>1, <1>3, <1>4, WindowsChange

\* A round starts with nothing and everyone to ask.
LEMMA StartStatStep == ASSUME Sts!WindowAssumption, StatInv, Sts!StartRound PROVE StatInv'
<1>1. folded' = [e |-> 0, n |-> 0] /\ due' = Server /\ UNCHANGED <<window, stats, entropy, number>>
  BY DEF Sts!StartRound
<1>2. Fair(folded')
  BY <1>1, NothingFair
<1>3. folded'.n <= Most(Cardinality(Server \ due'))
  <2>1. Cardinality(Server \ due') = 0
    BY <1>1, FS_EmptySet
  <2>2. Most(0) = 0
    BY BoundsHold DEF Most
  <2>3. QED
    BY <1>1, <2>1, <2>2
<1>4. QED
  BY <1>1, <1>2, <1>3 DEF StatInv, Fair

\* One server more is asked: there is room for what it has.
LEMMA GatherStatStep == ASSUME Sts!WindowAssumption, StatInv, NEW s \in Server, Sts!Gather(s) PROVE StatInv'
<1>1. /\ leg = "gather" /\ s \in due /\ folded' = Sts!mix(Sts!get_diff(s), folded) /\ due' = due \ {s}
      /\ UNCHANGED <<window, stats, entropy, number, leg>>
  BY DEF Sts!Gather
<1>2. PICK D : D = Sts!get_diff(s)
  OBVIOUS
<1>3. Fair(D) /\ D.n = Len(window[s])
  BY <1>2, DiffIs
<1>4. D.n <= window_size
  BY <1>3 DEF StatInv
<1>5. Fair(folded) /\ folded.n <= Most(Cardinality(Server \ due)) /\ due \subseteq Server
  BY <1>1 DEF StatInv
<1>6. PICK c : c = Cardinality(Server \ due)
  OBVIOUS
<1>7. PICK b : b = Cardinality(Server \ due')
  OBVIOUS
<1>8. c \in Nat /\ b = c + 1 /\ b <= Cardinality(Server)
  <2>1. Server \ due' = (Server \ due) \cup {s} /\ s \notin Server \ due
    BY <1>1, <1>5
  <2>2. IsFiniteSet(Server \ due)
    BY BoundsHold, FS_Subset
  <2>3. b = c + 1
    BY <1>6, <1>7, <2>1, <2>2, FS_AddElement
  <2>4. c \in Nat
    BY <1>6, <2>2, FS_CardinalityType
  <2>5. b <= Cardinality(Server)
    <3>1. Server \ due' \in SUBSET Server
      OBVIOUS
    <3>2. QED
      BY <1>7, <3>1, BoundsHold, FS_Subset
  <2>6. QED
    BY <2>3, <2>4, <2>5
<1>9. PICK z \in Nat : z = window_size
  BY BoundsHold
<1>10. PICK N \in Nat : N = Cardinality(Server)
  BY BoundsHold
<1>11. z * (c + 1) = z * c + z /\ z * c \in Nat
  BY <1>8, TimesOneMore
<1>12. PICK m : m = Most(c)
  OBVIOUS
<1>13. m \in Nat /\ Most(b) = m + z
  BY <1>8, <1>9, <1>11, <1>12 DEF Most
<1>14. PICK x, y : x = D.n /\ y = folded.n
  OBVIOUS
<1>15. x \in Nat /\ y \in Nat /\ x + y <= Most(b) /\ Most(b) \in Nat
  BY <1>3, <1>4, <1>5, <1>6, <1>9, <1>12, <1>13, <1>14 DEF Fair
<1>16. Most(b) <= Most(N)
  <2>1. b \in Nat /\ b <= N
    BY <1>8, <1>10
  <2>2. PICK u \in Nat : N = b + u
    <3>1. N - b \in Nat /\ N = b + (N - b)
      BY <2>1
    <3>2. QED
      BY <3>1
  <2>3. z * (b + u) = z * b + z * u /\ z * b \in Nat /\ z * u \in Nat
    BY <2>1, <2>2, TimesSum, TimesOneMore
  <2>4. QED
    BY <1>9, <2>2, <2>3 DEF Most
<1>17. x + y <= Most(N)
  BY <1>9, <1>10, <1>15, <1>16, BoundsHold
<1>18. PICK r : r = Sts!mix(D, folded)
  OBVIOUS
<1>19. Fair(r)
  BY <1>3, <1>5, <1>10, <1>14, <1>17, <1>18, FairTogether
<1>20. r.n = y + x
  BY <1>14, <1>18 DEF Sts!mix
<1>21. r.n <= Most(b)
  BY <1>15, <1>20
<1>22. folded' = r
  BY <1>1, <1>2, <1>18
<1>23. due' \subseteq Server
  BY <1>1, <1>5
<1>24. QED
  BY <1>1, <1>7, <1>19, <1>21, <1>22, <1>23 DEF StatInv, Fair

\* What a server keeps of a round is what the round has.
LEMMA PutStatStep == ASSUME Sts!WindowAssumption, StatInv, NEW s \in Server, Sts!put_diff(s) PROVE StatInv'
<1>1. /\ entropy' = [entropy EXCEPT ![s] = folded.e] /\ number' = [number EXCEPT ![s] = folded.n]
      /\ due' = due \ {s} /\ leg = "put" /\ UNCHANGED <<window, stats, folded, leg>>
  BY DEF Sts!put_diff
<1>2. Fair(folded) /\ folded.e \in Int /\ folded.n \in Nat
  BY DEF StatInv, Fair
<1>3. entropy' \in [Server -> Int] /\ number' \in [Server -> Nat]
  BY <1>1, <1>2 DEF StatInv
<1>4. ASSUME NEW x \in Server PROVE Fair([n |-> number'[x], e |-> entropy'[x]])
  <2>1. CASE x = s
    <3>1. number'[x] = folded.n /\ entropy'[x] = folded.e
      BY <1>1, <2>1 DEF StatInv
    <3>2. QED
      BY <1>2, <3>1 DEF Fair
  <2>2. CASE x # s
    <3>1. number'[x] = number[x] /\ entropy'[x] = entropy[x]
      BY <1>1, <2>2 DEF StatInv
    <3>2. QED
      BY <3>1 DEF StatInv
  <2>3. QED
    BY <2>1, <2>2
<1>5. due' \subseteq Server /\ leg' # "gather"
  BY <1>1 DEF StatInv
<1>6. QED
  BY <1>1, <1>3, <1>4, <1>5 DEF StatInv, Fair

\* So every step keeps the invariant.
LEMMA StatSteps == ASSUME Sts!WindowAssumption, StatInv, [Sts!Next]_Sts!vars PROVE StatInv'
<1>1. ASSUME Sts!StartPut \/ Sts!EndRound PROVE StatInv'
  <2>1. leg' # "gather" /\ due' \in {due, Server} /\ UNCHANGED <<window, stats, entropy, number, folded>>
    BY <1>1 DEF Sts!StartPut, Sts!EndRound
  <2>2. QED
    BY <2>1 DEF StatInv, Fair
<1>2. ASSUME UNCHANGED Sts!vars PROVE StatInv'
  BY <1>2 DEF Sts!vars, StatInv, Fair
<1>3. QED
  BY <1>1, <1>2, PushStep, ClearWindowStep, StartStatStep, GatherStatStep, PutStatStep DEF Sts!Next

\* And the invariant says what the run checks.
LEMMA StatInvIsSound ==
    ASSUME Sts!WindowAssumption, StatInv
    PROVE  Sts!StatsMatchWindow /\ Sts!EntropyNotNegative
<1>1. Sts!StatsMatchWindow
  BY DEF StatInv, Sts!StatsMatchWindow, Recounted
<1>2. ASSUME NEW s \in Server PROVE Sts!entropy(s) >= 0
  <2>1. PICK D : D = Sts!get_diff(s)
    OBVIOUS
  <2>2. Fair(D)
    BY <2>1, DiffIs
  <2>3. Sts!entropy(s) = IF number[s] = 0 THEN (IF D.n = 0 THEN 0 ELSE XLogX[D.n] - D.e)
                                          ELSE XLogX[number[s]] - entropy[s]
    BY <2>1 DEF Sts!entropy
  <2>4. PICK M : M = Most(Cardinality(Server))
    OBVIOUS
  <2>5. M \in Nat /\ Superadditive(XLogX, M)
    BY <2>4, BoundsHold
  <2>6. \A c \in 0..M : XLogX[c] \in Int
    BY <2>5 DEF Superadditive
  <2>7. D.n \in 0..M /\ D.e \in Int /\ D.e <= XLogX[D.n]
    BY <2>2, <2>4, <2>5 DEF Fair
  <2>8. number[s] \in 0..M /\ entropy[s] \in Int /\ entropy[s] <= XLogX[number[s]]
    <3>1. Fair([n |-> number[s], e |-> entropy[s]])
      BY DEF StatInv
    <3>2. QED
      BY <2>4, <2>5, <3>1 DEF Fair
  <2>9. QED
    BY <2>3, <2>6, <2>7, <2>8
<1>3. QED
  BY <1>1, <1>2 DEF Sts!EntropyNotNegative

\* In the statistics themselves, for any servers, window and numbers.
THEOREM StatsAreSoundHere ==
    ASSUME Sts!WindowAssumption
    PROVE  Sts!Spec => [](Sts!StatsMatchWindow /\ Sts!EntropyNotNegative)
<1>1. /\ Sts!Init => StatInv
      /\ StatInv /\ [Sts!Next]_Sts!vars => StatInv'
      /\ StatInv => Sts!StatsMatchWindow /\ Sts!EntropyNotNegative
  BY StatStarts, StatSteps, StatInvIsSound
<1>2. QED
  BY <1>1, PTL DEF Sts!Spec

---------------------------------------------------------------------------
(* The component that runs keeps its invariant beside those that do not.   *)

PartInv ==
    /\ part = "weight" => WeightsInv
    /\ part = "bandit" => BanditInv
    /\ part = "stat" => StatInv

LEMMA PartInitially == PartsInit => PartInv
<1> SUFFICES ASSUME PartsInit PROVE PartInv
  OBVIOUS
<1>1. CASE part = "weight"
  <2>1. Wgt!Init
    BY <1>1 DEF PartsInit
  <2> QED BY <1>1, <2>1, InstancesAssumption, InitWeights DEF PartInv
<1>2. CASE part = "bandit"
  <2>1. Bnd!Init
    BY <1>2 DEF PartsInit
  <2> QED BY <1>2, <2>1, InstancesAssumption, BanditStarts DEF PartInv
<1>3. CASE part = "stat"
  <2>1. Sts!Init
    BY <1>3 DEF PartsInit
  <2> QED BY <1>3, <2>1, InstancesAssumption, StatStarts DEF PartInv
<1> QED BY <1>1, <1>2, <1>3 DEF PartInv

LEMMA PartSteps == PartInv /\ [PartsNext]_partsVars => PartInv'
<1> SUFFICES ASSUME PartInv, [PartsNext]_partsVars PROVE PartInv'
  OBVIOUS
<1>1. part' = part
  BY DEF PartsNext, partsVars
<1>2. CASE part = "weight"
  <2>1. [Wgt!Next]_Wgt!vars
    BY <1>2 DEF PartsNext, partsVars, weightVars, roundVars, Wgt!vars, Wgt!nodeVars, Wgt!mixVars
  <2>2. WeightsInv'
    BY <1>2, <2>1, InstancesAssumption, NextWeights DEF PartInv
  <2> QED BY <1>1, <1>2, <2>2 DEF PartInv
<1>3. CASE part = "bandit"
  <2>1. [Bnd!Next]_Bnd!vars
    BY <1>3 DEF PartsNext, partsVars, banditVars, roundVars, Bnd!vars, Bnd!settings, Bnd!around, Bnd!mixVars
  <2>2. BanditInv'
    BY <1>3, <2>1, InstancesAssumption, BanditSteps DEF PartInv
  <2> QED BY <1>1, <1>3, <2>2 DEF PartInv
<1>4. CASE part = "stat"
  <2>1. [Sts!Next]_Sts!vars
    BY <1>4 DEF PartsNext, partsVars, statVars, roundVars, Sts!vars
  <2>2. StatInv'
    BY <1>4, <2>1, InstancesAssumption, StatSteps DEF PartInv
  <2> QED BY <1>1, <1>4, <2>2 DEF PartInv
<1> QED BY <1>1, <1>2, <1>3, <1>4 DEF PartInv

\* WeightsAreSound: the same of the composition that the run checks, in every
\* behaviour in which the holder's weights run.
THEOREM WeightsStaySound == PartsSpec => []WeightsAreSound
<1>1. PartInv => WeightsAreSound
  BY InstancesAssumption, WeightsInvIsSound DEF PartInv, WeightsAreSound
<1> QED BY <1>1, PartInitially, PartSteps, PTL DEF PartsSpec

\* ArmsAddUp: the same of the composition that the run checks, in every behaviour
\* in which bandits run.
THEOREM ArmsStayAdded == PartsSpec => []ArmsAddUp
<1>1. PartInv => ArmsAddUp
  BY InstancesAssumption, InvImpliesArmsAddUp DEF PartInv, ArmsAddUp
<1> QED BY <1>1, PartInitially, PartSteps, PTL DEF PartsSpec

\* StatsAreSound: the same of the composition that the run checks, in every
\* behaviour in which statistics run.
THEOREM StatsStaySound == PartsSpec => []StatsAreSound
<1>1. PartInv => StatsAreSound
  BY InstancesAssumption, StatInvIsSound DEF PartInv, StatsAreSound
<1> QED BY <1>1, PartInitially, PartSteps, PTL DEF PartsSpec
=============================================================================
