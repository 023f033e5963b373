------------------------ MODULE NeighborTables_proofs ------------------------
(***************************************************************************)
(* What stands on a nearest neighbour engine keeps its promises, for any   *)
(* servers, ids, columns and bounds (NeighborTables).  Tables are read as  *)
(* maps from ids to rows; what touch does is one lemma (Touched), a put of *)
(* many rows is followed row by row through the recursive functions of the *)
(* model, by a least counterexample (SumTheorems).                         *)
(*                                                                         *)
(* The invariant, ServedInv: types, well formed tables and what the        *)
(* unlearner remembers, of every server (Steady); the newest version of a  *)
(* server's row is the one its original row was put together for           *)
(* (OrigRecent); a row of the regression is the one its train call made    *)
(* (RowsByCall); and where its two tables stand to each other (InStep).    *)
(***************************************************************************)
EXTENDS NeighborTables, SumTheorems, SequenceTheorems

---------------------------------------------------------------------------
(* Tables as maps from ids to rows: what the array operations do to them.  *)

Owners == Server \cup {""}
Contents == Nat \cup UNION {[D -> Nat] : D \in SUBSET Column}
RowSet == [key : Int, owner : Owners, clock : Nat, value : Contents]

Indexes == UNION {[K -> Nat] : K \in SUBSET Int}
Shaped(t) ==
    /\ t \in [rows : Seq(RowSet), index : Indexes, clock : Nat]
    /\ IndexConsistent(t)

Sound(t) == Shaped(t) /\ \A k \in Ids(t) : RowOf(t, k).clock < t.clock

LEMMA RowsRead ==
    ASSUME NEW t, Shaped(t)
    PROVE  /\ Ids(t) \subseteq Int
           /\ \A k \in Ids(t) : RowOf(t, k) \in RowSet /\ RowOf(t, k).key = k
           /\ \A k : Has(t, k) <=> k \in Ids(t)
           /\ t.clock \in Nat /\ Size(t) \in Nat
           /\ \A i \in 1..Size(t) : t.rows[i].key \in Ids(t) /\ t.rows[i] = RowOf(t, t.rows[i].key)
<1>1. DOMAIN t.index \subseteq Int
  BY DEF Shaped, Indexes
<1> QED BY <1>1 DEF Shaped, IndexConsistent, Ids, RowOf, Has, Size

LEMMA StoreIs ==
    ASSUME NEW t, Shaped(t), NEW r \in RowSet
    PROVE  /\ Shaped(Store(t, r))
           /\ Ids(Store(t, r)) = Ids(t) \cup {r.key}
           /\ Store(t, r).clock = t.clock
           /\ RowOf(Store(t, r), r.key) = r
           /\ \A k \in Ids(t) \ {r.key} : RowOf(Store(t, r), k) = RowOf(t, k)
<1>0. r.key \in Int
  BY DEF RowSet
<1>1. CASE Has(t, r.key)
  <2> DEFINE i == t.index[r.key]
             u == [t EXCEPT !.rows = [@ EXCEPT ![i] = r]]
  <2>1. Store(t, r) = u
    BY <1>1 DEF Store
  <2>2. i \in 1..Len(t.rows) /\ i \in DOMAIN t.rows /\ t.rows[i].key = r.key
    BY <1>1 DEF Shaped, IndexConsistent, Has, Size
  <2>3. /\ u.rows = [t.rows EXCEPT ![i] = r] /\ u.index = t.index /\ u.clock = t.clock
        /\ u \in [rows : Seq(RowSet), index : Indexes, clock : Nat]
    BY <2>2 DEF Shaped
  <2>4. u.rows \in Seq(RowSet) /\ Len(u.rows) = Len(t.rows)
        /\ \A j \in 1..Len(t.rows) : u.rows[j] = IF j = i THEN r ELSE t.rows[j]
    BY <2>2, <2>3 DEF Shaped
  <2> HIDE DEF u, i
  <2>5. IndexConsistent(u)
    BY <2>2, <2>3, <2>4 DEF Shaped, IndexConsistent, Size
  <2>6. \A k \in Ids(t) \ {r.key} : t.index[k] # i /\ t.index[k] \in 1..Len(t.rows)
    BY <2>2 DEF Shaped, IndexConsistent, Size, Ids
  <2> QED BY <1>1, <2>1, <2>2, <2>3, <2>4, <2>5, <2>6 DEF Shaped, Ids, RowOf, Has, i
<1>2. CASE ~Has(t, r.key)
  <2> DEFINE n == Len(t.rows) + 1
             x == [k \in DOMAIN t.index \cup {r.key} |-> IF k = r.key THEN n ELSE t.index[k]]
             s == Append(t.rows, r)
             u == [rows |-> s, index |-> x, clock |-> t.clock]
  <2>1. Store(t, r) = u
    BY <1>2 DEF Store, Shaped, Size
  <2>2. t.rows \in Seq(RowSet) /\ n \in Nat /\ r.key \notin DOMAIN t.index /\ t.clock \in Nat
        /\ t.index \in Indexes
    BY <1>2 DEF Shaped, Has
  <2>3. x \in Indexes
    <3>1. PICK K \in SUBSET Int : t.index \in [K -> Nat]
      BY <2>2 DEF Indexes
    <3>2. K \cup {r.key} \in SUBSET Int /\ DOMAIN t.index = K
      BY <1>0, <3>1
    <3>3. x \in [K \cup {r.key} -> Nat]
      BY <2>2, <3>1, <3>2
    <3> HIDE DEF x
    <3> QED BY <3>2, <3>3 DEF Indexes
  <2>5. s \in Seq(RowSet) /\ Len(s) = n /\ s[n] = r /\ \A j \in 1..Len(t.rows) : s[j] = t.rows[j]
    BY <2>2
  <2> HIDE DEF s
  <2>4. /\ u.rows = s /\ u.index = x /\ u.clock = t.clock
        /\ u \in [rows : Seq(RowSet), index : Indexes, clock : Nat]
    BY <2>2, <2>3, <2>5
  <2>6. DOMAIN x = DOMAIN t.index \cup {r.key} /\ x[r.key] = n
        /\ \A k \in DOMAIN t.index : x[k] = t.index[k]
    BY <2>2
  <2> HIDE DEF u, x
  <2>7. \A k \in DOMAIN t.index : t.index[k] \in 1..Len(t.rows) /\ t.rows[t.index[k]].key = k
    BY DEF Shaped, IndexConsistent, Size
  <2>8. \A i \in 1..Len(t.rows) : t.rows[i].key \in DOMAIN t.index /\ t.index[t.rows[i].key] = i
    BY DEF Shaped, IndexConsistent, Size
  <2>9. IndexConsistent(u)
    <3>1. \A k \in DOMAIN x : x[k] \in 1..n /\ u.rows[x[k]].key = k
      BY <2>2, <2>4, <2>5, <2>6, <2>7
    <3>2. ASSUME NEW i \in 1..n PROVE u.rows[i].key \in DOMAIN x /\ x[u.rows[i].key] = i
      <4>1. i = n \/ i \in 1..Len(t.rows)
        BY <2>2
      <4> QED BY <2>4, <2>5, <2>6, <2>8, <4>1
    <3> QED BY <2>4, <2>5, <3>1, <3>2 DEF IndexConsistent, Size
  <2> QED BY <2>1, <2>2, <2>4, <2>5, <2>6, <2>7, <2>9 DEF Shaped, Ids, RowOf
<1> QED BY <1>1, <1>2

LEMMA AddIs ==
    ASSUME NEW t, Sound(t), NEW k \in Int, NEW o \in Owners, NEW v \in Contents
    PROVE  /\ Sound(Add(t, k, o, v))
           /\ Ids(Add(t, k, o, v)) = Ids(t) \cup {k}
           /\ Add(t, k, o, v).clock = t.clock + 1
           /\ RowOf(Add(t, k, o, v), k) = Row(k, o, t.clock, v)
           /\ \A j \in Ids(t) \ {k} : RowOf(Add(t, k, o, v), j) = RowOf(t, j)
<1> DEFINE r == Row(k, o, t.clock, v)
           u == Store(t, r)
<1>1. t.clock \in Nat /\ r \in RowSet /\ r.key = k /\ r.clock = t.clock
  BY DEF Sound, Shaped, Row, RowSet
<1>2. /\ Shaped(u) /\ Ids(u) = Ids(t) \cup {k} /\ u.clock = t.clock
      /\ RowOf(u, k) = r /\ \A j \in Ids(t) \ {k} : RowOf(u, j) = RowOf(t, j)
  BY <1>1, StoreIs DEF Sound
<1>3. Add(t, k, o, v) = Tick(u)
  BY DEF Add
<1> HIDE DEF u, r
<1>4. /\ Tick(u).rows = u.rows /\ Tick(u).index = u.index /\ Tick(u).clock = t.clock + 1
      /\ Tick(u) \in [rows : Seq(RowSet), index : Indexes, clock : Nat]
  BY <1>1, <1>2 DEF Tick, Shaped
<1>5. Shaped(Tick(u)) /\ Ids(Tick(u)) = Ids(u) /\ \A j : RowOf(Tick(u), j) = RowOf(u, j)
  BY <1>2, <1>4 DEF Shaped, IndexConsistent, Ids, RowOf, Size
<1>6. ASSUME NEW j \in Ids(Tick(u)) PROVE RowOf(Tick(u), j).clock < Tick(u).clock
  <2>1. CASE j = k
    BY <1>1, <1>2, <1>4, <1>5, <2>1
  <2>2. CASE j # k
    <3>1. j \in Ids(t) /\ RowOf(Tick(u), j) = RowOf(t, j) /\ RowOf(t, j) \in RowSet
          /\ RowOf(t, j).clock < t.clock
      BY <1>2, <1>5, <1>6, <2>2, RowsRead DEF Sound
    <3> QED BY <1>1, <1>4, <3>1 DEF RowSet
  <2> QED BY <2>1, <2>2
<1>7. Sound(Tick(u))
  BY <1>5, <1>6 DEF Sound
<1> QED BY <1>2, <1>3, <1>4, <1>5, <1>7 DEF r

\* What a row from elsewhere leaves under its id, and of the clock.
Taken(t, r) == IF Newer(t, r.key, r.clock) THEN RowOf(t, r.key) ELSE r
Past(c, r) == IF c < r.clock + 1 THEN r.clock + 1 ELSE c

LEMMA SetRowIs ==
    ASSUME NEW t, Sound(t), NEW r \in RowSet
    PROVE  /\ Sound(SetRow(t, r))
           /\ Ids(SetRow(t, r)) = Ids(t) \cup {r.key}
           /\ SetRow(t, r).clock = Past(t.clock, r)
           /\ RowOf(SetRow(t, r), r.key) = Taken(t, r)
           /\ \A j \in Ids(t) \ {r.key} : RowOf(SetRow(t, r), j) = RowOf(t, j)
<1> DEFINE u == IF Newer(t, r.key, r.clock) THEN t ELSE Store(t, r)
<1>0. /\ t.clock \in Nat /\ r.clock \in Nat
      /\ Has(t, r.key) <=> r.key \in Ids(t)
  <2>1. Shaped(t)
    BY DEF Sound
  <2> QED BY <2>1, RowsRead DEF RowSet
<1>1. /\ t.clock \in Nat /\ r.clock \in Nat
      /\ Has(t, r.key) <=> r.key \in Ids(t)
      /\ Past(t.clock, r) \in Nat /\ t.clock <= Past(t.clock, r) /\ r.clock < Past(t.clock, r)
  BY <1>0 DEF Past
<1>2. /\ Shaped(u) /\ Ids(u) = Ids(t) \cup {r.key} /\ u.clock = t.clock
      /\ RowOf(u, r.key) = Taken(t, r) /\ \A j \in Ids(t) \ {r.key} : RowOf(u, j) = RowOf(t, j)
  <2>1. CASE Newer(t, r.key, r.clock)
    <3>1. r.key \in Ids(t)
      BY <1>1, <2>1 DEF Newer
    <3> QED BY <2>1, <3>1 DEF Sound, Taken
  <2>2. CASE ~Newer(t, r.key, r.clock)
    BY <2>2, StoreIs DEF Sound, Taken
  <2> QED BY <2>1, <2>2
<1>3. SetRow(t, r) = ClockFrom(u, r.clock + 1)
  BY DEF SetRow
<1> DEFINE c == ClockFrom(u, r.clock + 1)
<1> HIDE DEF u
<1>4. /\ c.rows = u.rows /\ c.index = u.index /\ c.clock = Past(t.clock, r)
      /\ c \in [rows : Seq(RowSet), index : Indexes, clock : Nat]
  BY <1>1, <1>2 DEF ClockFrom, Shaped, Past
<1> HIDE DEF c
<1>5. Shaped(c) /\ Ids(c) = Ids(u) /\ \A j : RowOf(c, j) = RowOf(u, j)
  BY <1>2, <1>4 DEF Shaped, IndexConsistent, Ids, RowOf, Size
<1>6. ASSUME NEW j \in Ids(c) PROVE RowOf(c, j).clock < c.clock
  <2>1. CASE j \in Ids(t) /\ RowOf(c, j) = RowOf(t, j)
    <3>1. RowOf(t, j).clock \in Nat /\ RowOf(t, j).clock < t.clock
      BY <2>1, RowsRead DEF Sound, RowSet
    <3> QED BY <1>1, <1>4, <2>1, <3>1
  <2>2. CASE RowOf(c, j) = r
    BY <1>1, <1>4, <2>2
  <2>3. \/ j \in Ids(t) /\ RowOf(c, j) = RowOf(t, j)
        \/ RowOf(c, j) = r
    BY <1>1, <1>2, <1>5, <1>6 DEF Taken, Newer
  <2> QED BY <2>1, <2>2, <2>3
<1>7. Sound(c)
  BY <1>5, <1>6 DEF Sound
<1> QED BY <1>2, <1>3, <1>4, <1>5, <1>7 DEF c

LEMMA DeleteRowIs ==
    ASSUME NEW t, Sound(t), NEW k
    PROVE  /\ Sound(DeleteRow(t, k))
           /\ Ids(DeleteRow(t, k)) = Ids(t) \ {k}
           /\ DeleteRow(t, k).clock >= t.clock
           /\ \A j \in Ids(t) \ {k} : RowOf(DeleteRow(t, k), j) = RowOf(t, j)
<1>1. CASE ~Has(t, k)
  BY <1>1 DEF DeleteRow, Ids, Has, Sound, Shaped
<1>2. CASE Has(t, k)
  <2> DEFINE i == t.index[k]
             n == Len(t.rows)
             moved == [t.index EXCEPT ![t.rows[n].key] = i]
             s == [j \in 1..n - 1 |-> IF j = i THEN t.rows[n] ELSE t.rows[j]]
             x == [j \in DOMAIN moved \ {t.rows[i].key} |-> moved[j]]
             u == [rows |-> s, index |-> x, clock |-> t.clock + 1]
  <2>1. DeleteRow(t, k) = u
    BY <1>2 DEF DeleteRow, DeleteAt, Size
  <2>2. /\ t.rows \in Seq(RowSet) /\ t.index \in Indexes /\ t.clock \in Nat /\ n \in Nat
        /\ i \in 1..n /\ t.rows[i].key = k /\ k \in Ids(t)
        /\ \A j \in DOMAIN t.index : t.index[j] \in 1..n /\ t.rows[t.index[j]].key = j
        /\ \A j \in 1..n : t.rows[j] \in RowSet /\ t.rows[j].key \in DOMAIN t.index
                           /\ t.index[t.rows[j].key] = j
    BY <1>2 DEF Sound, Shaped, IndexConsistent, Size, Has, Ids
  <2>3. PICK K \in SUBSET Int : t.index \in [K -> Nat]
    BY <2>2 DEF Indexes
  <2>4. s \in Seq(RowSet) /\ Len(s) = n - 1
        /\ \A j \in 1..n - 1 : s[j] = IF j = i THEN t.rows[n] ELSE t.rows[j]
    BY <2>2
  <2>5. DOMAIN x = K \ {k} /\ \A j \in K \ {k} : x[j] = IF j = t.rows[n].key THEN i ELSE t.index[j]
    BY <2>2, <2>3
  <2>6. x \in Indexes
    <3>1. x \in [K \ {k} -> Nat]
      BY <2>2, <2>3, <2>5
    <3> HIDE DEF x
    <3> QED BY <2>3, <3>1 DEF Indexes
  <2> HIDE DEF s, x
  <2>7. u \in [rows : Seq(RowSet), index : Indexes, clock : Nat]
        /\ u.rows = s /\ u.index = x /\ u.clock = t.clock + 1
    BY <2>2, <2>4, <2>6
  <2>i. i \in 1..n /\ n \in Nat /\ n \in 1..n /\ i \in Int
    BY <2>2
  <2> HIDE DEF n, i, moved
  <2>8. \A j \in K \ {k} : x[j] \in 1..n - 1 /\ s[x[j]] = t.rows[t.index[j]]
    <3> TAKE j \in K \ {k}
    <3>0. j \in DOMAIN t.index /\ t.index[j] \in 1..n /\ t.rows[t.index[j]].key = j
          /\ t.index[j] # i
      BY <2>2, <2>3
    <3>1. CASE j = t.rows[n].key
      <4>1. t.index[j] = n /\ x[j] = i
        BY <2>2, <2>5, <2>i, <3>0, <3>1
      <4>2. i \in 1..n - 1
        BY <2>i, <3>0, <4>1
      <4>3. s[i] = t.rows[n]
        BY <2>4, <4>2
      <4> QED BY <4>1, <4>2, <4>3
    <3>2. CASE j # t.rows[n].key
      <4>1. t.index[j] # n /\ x[j] = t.index[j]
        BY <2>5, <3>0, <3>2
      <4>2. t.index[j] \in 1..n - 1
        BY <2>i, <3>0, <4>1
      <4>3. s[t.index[j]] = t.rows[t.index[j]]
        BY <2>4, <3>0, <4>2
      <4> QED BY <4>1, <4>2, <4>3
    <3> QED BY <3>1, <3>2
  <2>9. \A j \in 1..n - 1 : s[j].key \in K \ {k} /\ x[s[j].key] = j
    <3> TAKE j \in 1..n - 1
    <3>0. j \in 1..n /\ j # n
      BY <2>i
    <3>k. K = DOMAIN t.index
      BY <2>3
    <3>1. CASE j = i
      <4>1. s[j] = t.rows[n]
        BY <2>4, <3>1
      <4>2. t.rows[n].key \in K /\ t.index[t.rows[n].key] = n
        BY <2>2, <2>i, <3>k
      <4>3. t.rows[n].key # k
        BY <2>2, <3>0, <3>1, <4>2
      <4> QED BY <2>5, <3>1, <4>1, <4>2, <4>3
    <3>2. CASE j # i
      <4>1. s[j] = t.rows[j]
        BY <2>4, <3>2
      <4>2. t.rows[j].key \in K /\ t.index[t.rows[j].key] = j
        BY <2>2, <3>0, <3>k
      <4>3. t.rows[n].key \in K /\ t.index[t.rows[n].key] = n /\ t.index[k] = i
        BY <2>2, <2>i, <3>k
      <4>4. t.rows[j].key # k /\ t.rows[j].key # t.rows[n].key
        BY <3>0, <3>2, <4>2, <4>3
      <4> QED BY <2>5, <4>1, <4>2, <4>4
    <3> QED BY <3>1, <3>2
  <2>10. Shaped(u)
    <3>1. Size(u) = n - 1 /\ DOMAIN u.index = K \ {k}
      BY <2>4, <2>5, <2>7 DEF Size
    <3>2. \A j \in 1..n - 1 : u.rows[j].key \in K \ {k} /\ u.index[u.rows[j].key] = j
      BY <2>7, <2>9
    <3>3. ASSUME NEW j \in K \ {k}
          PROVE  u.index[j] \in 1..n - 1 /\ u.rows[u.index[j]].key = j
      <4>1. x[j] \in 1..n - 1 /\ s[x[j]] = t.rows[t.index[j]]
        BY <2>8
      <4>2. t.rows[t.index[j]].key = j
        BY <2>2, <2>3
      <4> QED BY <2>7, <4>1, <4>2
    <3> QED BY <2>7, <3>1, <3>2, <3>3 DEF Shaped, IndexConsistent
  <2>11. Ids(u) = Ids(t) \ {k} /\ \A j \in Ids(t) \ {k} : RowOf(u, j) = RowOf(t, j)
    BY <2>3, <2>5, <2>7, <2>8 DEF Ids, RowOf
  <2>12. ASSUME NEW j \in Ids(u) PROVE RowOf(u, j).clock < u.clock
    <3>1. j \in Ids(t) /\ RowOf(u, j) = RowOf(t, j) /\ RowOf(t, j).clock \in Nat /\ RowOf(t, j).clock < t.clock
      BY <2>11, <2>12, RowsRead DEF Sound, RowSet
    <3> QED BY <2>2, <2>7, <3>1
  <2>13. Sound(u)
    BY <2>10, <2>12 DEF Sound
  <2>14. u.clock = t.clock + 1
    BY <2>7
  <2> HIDE DEF u
  <2> QED BY <2>1, <2>2, <2>11, <2>13, <2>14
<1> QED BY <1>1, <1>2
---------------------------------------------------------------------------
(* The unlearner's list.                                                   *)

Lined(l) == \A i, j \in 1..Len(l) : l[i] = l[j] => i = j
Listed(l, x) == \E i \in 1..Len(l) : l[i] = x

\* t is l without its i-th element.
Cut(t, l, i) ==
    /\ t \in Seq(Int) /\ Len(t) = Len(l) - 1
    /\ \A j \in 1..Len(l) - 1 : t[j] = IF j < i THEN l[j] ELSE l[j + 1]

LEMMA SubIs ==
    ASSUME NEW l \in Seq(Int), NEW x \in 1..Len(l) + 1, NEW y \in 0..Len(l), x <= y + 1
    PROVE  /\ SubSeq(l, x, y) \in Seq(Int) /\ Len(SubSeq(l, x, y)) = y - x + 1
           /\ \A j \in 1..y - x + 1 : SubSeq(l, x, y)[j] = l[x + j - 1]
<1>1. x \in Int /\ y \in Int /\ \A j \in x..y : l[j] \in Int
  OBVIOUS
<1>2. PICK S : S = Int
  OBVIOUS
<1>3. x \in Int /\ y \in Int /\ \A j \in x..y : l[j] \in S
  BY <1>1, <1>2
<1>4. /\ SubSeq(l, x, y) \in Seq(S) /\ Len(SubSeq(l, x, y)) = IF x <= y THEN y - x + 1 ELSE 0
      /\ \A j \in 1..y - x + 1 : SubSeq(l, x, y)[j] = l[x + j - 1]
  BY ONLY <1>3, SubSeqProperties
<1>5. Len(SubSeq(l, x, y)) = y - x + 1
  BY <1>4
<1> QED BY <1>2, <1>4, <1>5

LEMMA CutIs ==
    ASSUME NEW l \in Seq(Int), NEW i \in 1..Len(l)
    PROVE  Cut(SubSeq(l, 1, i - 1) \o SubSeq(l, i + 1, Len(l)), l, i)
<1> DEFINE n == Len(l)
<1>1. n \in Nat /\ i \in Int
  OBVIOUS
<1>2. PICK a : a = SubSeq(l, 1, i - 1)
  OBVIOUS
<1>3. PICK b : b = SubSeq(l, i + 1, n)
  OBVIOUS
<1>4. a \in Seq(Int) /\ Len(a) = i - 1 /\ \A j \in 1..i - 1 : a[j] = l[j]
  <2>1. PICK x, y : x = 1 /\ y = i - 1
    OBVIOUS
  <2>2. x \in 1..Len(l) + 1 /\ y \in 0..Len(l) /\ x <= y + 1
    BY <2>1
  <2>3. /\ SubSeq(l, x, y) \in Seq(Int) /\ Len(SubSeq(l, x, y)) = y - x + 1
        /\ \A j \in 1..y - x + 1 : SubSeq(l, x, y)[j] = l[x + j - 1]
    BY <2>2, SubIs
  <2> QED BY <1>1, <1>2, <2>1, <2>3
<1>5. b \in Seq(Int) /\ Len(b) = n - i /\ \A j \in 1..n - i : b[j] = l[i + j]
  <2>1. PICK x, y : x = i + 1 /\ y = n
    OBVIOUS
  <2>2. x \in 1..Len(l) + 1 /\ y \in 0..Len(l) /\ x <= y + 1
    BY <2>1
  <2>3. /\ SubSeq(l, x, y) \in Seq(Int) /\ Len(SubSeq(l, x, y)) = y - x + 1
        /\ \A j \in 1..y - x + 1 : SubSeq(l, x, y)[j] = l[x + j - 1]
    BY <2>2, SubIs
  <2>4. y - x + 1 = n - i
    BY <1>1, <2>1
  <2>5. b \in Seq(Int) /\ Len(b) = n - i
    BY <1>3, <2>1, <2>3, <2>4
  <2>6. ASSUME NEW j \in 1..n - i PROVE b[j] = l[i + j]
    <3>1. b[j] = l[x + j - 1]
      BY <1>3, <2>1, <2>3, <2>4
    <3>2. x + j - 1 = i + j
      BY <1>1, <2>1
    <3> QED BY <3>1, <3>2
  <2> QED BY <2>5, <2>6
<1>6. /\ a \o b \in Seq(Int) /\ Len(a \o b) = Len(a) + Len(b)
      /\ \A j \in 1..Len(a) + Len(b) : (a \o b)[j] = IF j <= Len(a) THEN a[j] ELSE b[j - Len(a)]
  BY <1>4, <1>5, ConcatProperties
<1>7. Len(a \o b) = n - 1 /\ Len(a) + Len(b) = n - 1
  BY <1>1, <1>4, <1>5, <1>6
<1>8. ASSUME NEW j \in 1..n - 1 PROVE (a \o b)[j] = IF j < i THEN l[j] ELSE l[j + 1]
  <2>1. (a \o b)[j] = IF j <= i - 1 THEN a[j] ELSE b[j - (i - 1)]
    BY <1>4, <1>6, <1>7
  <2>2. CASE j < i
    BY <1>1, <1>4, <2>1, <2>2
  <2>3. CASE ~(j < i)
    <3>1. j - (i - 1) \in 1..n - i /\ i + (j - (i - 1)) = j + 1
      BY <1>1, <2>3
    <3>2. b[j - (i - 1)] = l[j + 1]
      BY <1>5, <3>1
    <3> QED BY <1>1, <2>1, <2>3, <3>2
  <2> QED BY <2>2, <2>3
<1> QED BY <1>2, <1>3, <1>6, <1>7, <1>8 DEF Cut

LEMMA CutLeaves ==
    ASSUME NEW l \in Seq(Int), Lined(l), NEW i \in 1..Len(l), NEW t, Cut(t, l, i)
    PROVE  /\ Lined(t)
           /\ \A x : Listed(t, x) <=> Listed(l, x) /\ x # l[i]
<1> DEFINE n == Len(l)
           up(j) == IF j < i THEN j ELSE j + 1
<1>1. n \in Nat /\ i \in 1..n /\ Len(t) = n - 1
  BY DEF Cut
<1>2. \A j \in 1..n - 1 : up(j) \in 1..n /\ up(j) # i /\ t[j] = l[up(j)]
  <2>1. \A j \in 1..n - 1 : t[j] = IF j < i THEN l[j] ELSE l[j + 1]
    BY DEF Cut
  <2>2. \A j \in 1..n - 1 : up(j) \in 1..n /\ up(j) # i
    BY <1>1
  <2> QED BY <2>1, <2>2
<1>3. \A j, k \in 1..n - 1 : up(j) = up(k) => j = k
  BY <1>1
<1>4. \A j \in 1..n : j # i => \E k \in 1..n - 1 : up(k) = j
  <2> TAKE j \in 1..n
  <2> HAVE j # i
  <2>1. CASE j < i
    BY <1>1, <2>1
  <2>2. CASE ~(j < i)
    <3>1. j - 1 \in 1..n - 1 /\ up(j - 1) = j
      BY <1>1, <2>2
    <3> QED BY <3>1
  <2> QED BY <2>1, <2>2
<1>l. \A j, k \in 1..n : l[j] = l[k] => j = k
  BY DEF Lined
<1> HIDE DEF up, n
<1>5. Lined(t)
  BY <1>1, <1>2, <1>3, <1>l DEF Lined
<1>6. ASSUME NEW x, Listed(t, x) PROVE Listed(l, x) /\ x # l[i]
  <2>1. PICK j \in 1..n - 1 : t[j] = x
    BY <1>1, <1>6 DEF Listed
  <2>2. PICK k \in 1..n : k # i /\ l[k] = x
    BY <1>2, <2>1
  <2>3. l[k] # l[i]
    BY <1>1, <1>l, <2>2
  <2> QED BY <2>2, <2>3 DEF Listed, n
<1>7. ASSUME NEW x, Listed(l, x), x # l[i] PROVE Listed(t, x)
  <2>1. PICK j \in 1..n : l[j] = x
    BY <1>7 DEF Listed, n
  <2>2. PICK k \in 1..n - 1 : up(k) = j
    BY <1>4, <1>7, <2>1
  <2> QED BY <1>1, <1>2, <2>1, <2>2 DEF Listed
<1> QED BY <1>5, <1>6, <1>7

LEMMA InRange == ASSUME NEW l \in Seq(Int) PROVE \A x : x \in Range(l) <=> Listed(l, x)
BY DEF Range, Listed

LEMMA WithoutIs ==
    ASSUME NEW l \in Seq(Int), Lined(l), NEW x
    PROVE  /\ Without(l, x) \in Seq(Int)
           /\ Lined(Without(l, x))
           /\ \A y : Listed(Without(l, x), y) <=> Listed(l, y) /\ y # x
           /\ Listed(l, x) => Len(Without(l, x)) = Len(l) - 1
           /\ ~Listed(l, x) => Len(Without(l, x)) = Len(l)
<1>1. CASE ~Listed(l, x)
  <2>1. Without(l, x) = l
    BY <1>1, InRange DEF Without
  <2> QED BY <1>1, <2>1
<1>2. CASE Listed(l, x)
  <2>1. PICK i : i = CHOOSE j \in DOMAIN l : l[j] = x
    OBVIOUS
  <2>2. i \in 1..Len(l) /\ l[i] = x
    BY <1>2, <2>1 DEF Listed
  <2>3. PICK t : t = SubSeq(l, 1, i - 1) \o SubSeq(l, i + 1, Len(l))
    OBVIOUS
  <2>4. Without(l, x) = t
    BY <1>2, <2>1, <2>3, InRange DEF Without
  <2>5. Cut(t, l, i)
    BY <2>2, <2>3, CutIs
  <2>6. Lined(t) /\ \A y : Listed(t, y) <=> Listed(l, y) /\ y # x
    BY <2>2, <2>5, CutLeaves
  <2> QED BY <1>2, <2>4, <2>5, <2>6 DEF Cut
<1> QED BY <1>1, <1>2

\* The oldest is dropped.
LEMMA FrontIs ==
    ASSUME NEW l \in Seq(Int), Lined(l), Len(l) # 0
    PROVE  /\ SubSeq(l, 1, Len(l) - 1) \in Seq(Int)
           /\ Lined(SubSeq(l, 1, Len(l) - 1))
           /\ \A y : Listed(SubSeq(l, 1, Len(l) - 1), y) <=> Listed(l, y) /\ y # l[Len(l)]
           /\ Len(SubSeq(l, 1, Len(l) - 1)) = Len(l) - 1
           /\ Listed(l, l[Len(l)]) /\ l[Len(l)] \in Int
<1>1. PICK n : n = Len(l)
  OBVIOUS
<1>2. n \in Nat /\ n \in 1..Len(l)
  BY <1>1
<1>3. PICK t, y : t = SubSeq(l, 1, y) /\ y = n - 1
  OBVIOUS
<1>4. Cut(t, l, n)
  <2>1. PICK x : x = 1
    OBVIOUS
  <2>2. x \in 1..Len(l) + 1 /\ y \in 0..Len(l) /\ x <= y + 1
    BY <1>1, <1>2, <1>3, <2>1
  <2>3. /\ SubSeq(l, x, y) \in Seq(Int) /\ Len(SubSeq(l, x, y)) = y - x + 1
        /\ \A j \in 1..y - x + 1 : SubSeq(l, x, y)[j] = l[x + j - 1]
    BY <2>2, SubIs
  <2> QED BY <1>1, <1>2, <1>3, <2>1, <2>3 DEF Cut
<1>5. Lined(t) /\ \A x : Listed(t, x) <=> Listed(l, x) /\ x # l[n]
  BY <1>2, <1>4, CutLeaves
<1>6. t \in Seq(Int) /\ Len(t) = n - 1 /\ Listed(l, l[n]) /\ l[n] \in Int
  BY <1>1, <1>2, <1>4 DEF Cut, Listed
<1> QED BY <1>1, <1>3, <1>5, <1>6

\* id is put in front of a list without it.
LEMMA FrontedIs ==
    ASSUME NEW l \in Seq(Int), Lined(l), NEW id \in Int, ~Listed(l, id)
    PROVE  /\ <<id>> \o l \in Seq(Int) /\ Len(<<id>> \o l) = Len(l) + 1
           /\ Lined(<<id>> \o l)
           /\ \A y : Listed(<<id>> \o l, y) <=> Listed(l, y) \/ y = id
<1>1. PICK t, f : t = f \o l /\ f = <<id>>
  OBVIOUS
<1>2. f \in Seq(Int) /\ Len(f) = 1 /\ f[1] = id /\ Len(l) \in Nat
  BY <1>1
<1>3. /\ t \in Seq(Int) /\ Len(t) = Len(f) + Len(l)
      /\ \A j \in 1..Len(f) + Len(l) : t[j] = IF j <= Len(f) THEN f[j] ELSE l[j - Len(f)]
  BY <1>1, <1>2, ConcatProperties
<1>4. /\ Len(t) = Len(l) + 1 /\ t[1] = id
      /\ \A j \in 1..Len(l) : t[j + 1] = l[j]
      /\ \A j \in 2..Len(l) + 1 : t[j] = l[j - 1] /\ j - 1 \in 1..Len(l)
  <2>1. Len(t) = Len(l) + 1 /\ t[1] = id
    BY <1>2, <1>3
  <2>2. ASSUME NEW j \in 1..Len(l) PROVE t[j + 1] = l[j]
    <3>1. PICK k : k = j + 1
      OBVIOUS
    <3>2. k \in 1..Len(f) + Len(l) /\ ~(k <= Len(f)) /\ k - Len(f) = j
      BY <1>2, <3>1
    <3> QED BY <1>3, <3>1, <3>2
  <2>3. ASSUME NEW j \in 2..Len(l) + 1 PROVE t[j] = l[j - 1] /\ j - 1 \in 1..Len(l)
    <3>1. j \in 1..Len(f) + Len(l) /\ ~(j <= Len(f)) /\ j - Len(f) = j - 1
      BY <1>2
    <3>2. t[j] = l[j - 1]
      BY <1>3, <3>1
    <3> QED BY <1>2, <3>2
  <2> QED BY <2>1, <2>2, <2>3
<1>5. Lined(t)
  <2> SUFFICES ASSUME NEW i \in 1..Len(t), NEW j \in 1..Len(t), t[i] = t[j] PROVE i = j
    BY DEF Lined
  <2>1. CASE i = 1 \/ j = 1
    <3>1. \A k \in 2..Len(l) + 1 : t[k] # id
      BY <1>4 DEF Listed
    <3> QED BY <1>2, <1>4, <2>1, <3>1
  <2>2. CASE i # 1 /\ j # 1
    <3>1. i - 1 \in 1..Len(l) /\ j - 1 \in 1..Len(l) /\ l[i - 1] = l[j - 1]
      BY <1>2, <1>4, <2>2
    <3>2. i - 1 = j - 1
      BY <3>1 DEF Lined
    <3> QED BY <1>2, <1>4, <3>2
  <2> QED BY <2>1, <2>2
<1>6. ASSUME NEW y PROVE Listed(t, y) <=> Listed(l, y) \/ y = id
  <2>1. ASSUME Listed(t, y) PROVE Listed(l, y) \/ y = id
    <3>1. PICK j \in 1..Len(l) + 1 : t[j] = y
      BY <1>4, <2>1 DEF Listed
    <3>2. j = 1 \/ j \in 2..Len(l) + 1
      BY <1>2
    <3> QED BY <1>4, <3>1, <3>2 DEF Listed
  <2>2. ASSUME Listed(l, y) PROVE Listed(t, y)
    <3>1. PICK j \in 1..Len(l) : l[j] = y
      BY <2>2 DEF Listed
    <3>2. j + 1 \in 1..Len(t) /\ t[j + 1] = y
      BY <1>2, <1>4, <3>1
    <3> QED BY <3>2 DEF Listed
  <2>3. 1 \in 1..Len(t)
    BY <1>2, <1>4
  <2> QED BY <1>4, <2>1, <2>2, <2>3 DEF Listed
<1> QED BY <1>1, <1>3, <1>4, <1>5, <1>6
---------------------------------------------------------------------------
(* The state of a server, and what touch makes of it.                      *)

OrigRows == UNION {[D -> Nat] : D \in SUBSET Column}
OrigSet == UNION {[D -> OrigRows] : D \in SUBSET Id}
VectorSet == UNION {[D -> Nat] : D \in SUBSET Owners}
TableSet == [rows : Seq(RowSet), index : Indexes, clock : Nat]
TrainSet == [step : {"idle", "row", "value"}, id : Nat]
States ==
    [table : TableSet, vc : VectorSet, values : TableSet, vvc : VectorSet, orig : OrigSet,
     lru : Seq(Int), sticky : SUBSET Sticky, train : TrainSet]

Recalls(m) ==
    /\ m.lru \in Seq(Int) /\ Lined(m.lru) /\ \A x \in Sticky : ~Listed(m.lru, x)
    /\ m.sticky \in SUBSET Sticky /\ IsFiniteSet(m.sticky)
    /\ max_size = 0 => Len(m.lru) = 0 /\ m.sticky = {}
    /\ max_size > 0 => CountOf(m) <= max_size

Good(m) ==
    /\ m \in States
    /\ Sound(m.table) /\ Sound(m.values)
    /\ Recalls(m)
    /\ m.train.step = "idle" => m.train = Idle

LEMMA KnownIs ==
    ASSUME NEW m, Recalls(m)
    PROVE  \A x : x \in Known(m) <=> Listed(m.lru, x) \/ x \in m.sticky
BY InRange DEF Known, Recalls

LEMMA CountIs ==
    ASSUME NEW m, Recalls(m)
    PROVE  CountOf(m) \in Nat /\ CountOf(m) = Len(m.lru) + Cardinality(m.sticky) /\ Cardinality(m.sticky) \in Nat
           /\ Len(m.lru) \in Nat
BY FS_CardinalityType DEF CountOf, Recalls

\* u is t without the rows of these ids.
Thins(t, u, gone) ==
    /\ Sound(u) /\ t.clock <= u.clock
    /\ \A k : k \in Ids(u) <=> k \in Ids(t) /\ k \notin gone
    /\ \A k \in Ids(u) : RowOf(u, k) = RowOf(t, k)

LEMMA ThinsNone == ASSUME NEW t, Sound(t) PROVE Thins(t, t, {})
BY DEF Thins, Sound, Shaped

LEMMA ThinsOne == ASSUME NEW t, Sound(t), NEW k PROVE Thins(t, DeleteRow(t, k), {k})
BY DeleteRowIs DEF Thins, Sound, Shaped

\* All of m but its unlearner, less these ids.
Loses(m, u, gone) ==
    /\ Thins(m.table, u.table, gone)
    /\ user = "regression" => Thins(m.values, u.values, gone)
    /\ user # "regression" => u.values = m.values
    /\ \A k : k \in DOMAIN u.orig <=> k \in DOMAIN m.orig /\ (user = "recommender" => k \notin gone)
    /\ \A k \in DOMAIN u.orig : u.orig[k] = m.orig[k]
    /\ u.vc = m.vc /\ u.vvc = m.vvc /\ u.train = m.train

LEMMA LosesNone == ASSUME NEW m, Good(m) PROVE Loses(m, m, {})
BY ThinsNone DEF Good, Loses

LEMMA RestrictIs ==
    ASSUME NEW f \in OrigSet, NEW x
    PROVE  /\ Restrict(f, DOMAIN f \ {x}) \in OrigSet
           /\ DOMAIN Restrict(f, DOMAIN f \ {x}) = DOMAIN f \ {x}
           /\ \A k \in DOMAIN f \ {x} : Restrict(f, DOMAIN f \ {x})[k] = f[k]
<1>1. PICK D \in SUBSET Id : f \in [D -> OrigRows]
  BY DEF OrigSet
<1>2. PICK g : g = Restrict(f, DOMAIN f \ {x})
  OBVIOUS
<1>3. g \in [D \ {x} -> OrigRows]
  BY <1>1, <1>2 DEF Restrict
<1>4. g \in OrigSet
  <2>1. D \ {x} \in SUBSET Id
    BY <1>1
  <2> QED BY <1>3, <2>1 DEF OrigSet
<1> QED BY <1>2, <1>4 DEF Restrict

LEMMA UnlearnIs ==
    ASSUME NEW m, Good(m), NEW id
    PROVE  /\ Good(unlearn(m, id)) /\ Loses(m, unlearn(m, id), {id})
           /\ unlearn(m, id).lru = m.lru /\ unlearn(m, id).sticky = m.sticky
<1> DEFINE u == unlearn(m, id)
<1>1. PICK t, v, o : /\ t = DeleteRow(m.table, id)
                     /\ v = IF user = "regression" THEN DeleteRow(m.values, id) ELSE m.values
                     /\ o = IF user = "recommender" THEN Restrict(m.orig, DOMAIN m.orig \ {id}) ELSE m.orig
  OBVIOUS
<1>2. Sound(m.table) /\ Sound(m.values) /\ m \in States
  BY DEF Good
<1>3. u = [m EXCEPT !.table = t, !.values = v, !.orig = o]
  BY <1>1, <1>2 DEF unlearn, States
<1>4. /\ u.table = t /\ u.values = v /\ u.orig = o /\ u.vc = m.vc /\ u.vvc = m.vvc
      /\ u.lru = m.lru /\ u.sticky = m.sticky /\ u.train = m.train
  BY <1>2, <1>3 DEF States
<1>5. /\ Thins(m.table, t, {id}) /\ Sound(t)
      /\ user = "regression" => Thins(m.values, v, {id})
      /\ user # "regression" => v = m.values
      /\ Sound(v)
  <2>1. Thins(m.table, t, {id})
    BY <1>1, <1>2, ThinsOne
  <2>2. user = "regression" => Thins(m.values, v, {id})
    BY <1>1, <1>2, ThinsOne
  <2>3. user # "regression" => v = m.values
    BY <1>1
  <2> QED BY <1>2, <2>1, <2>2, <2>3 DEF Thins
<1>6. /\ o \in OrigSet
      /\ \A k : k \in DOMAIN o <=> k \in DOMAIN m.orig /\ (user = "recommender" => k \notin {id})
      /\ \A k \in DOMAIN o : o[k] = m.orig[k]
  <2>1. m.orig \in OrigSet
    BY <1>2 DEF States
  <2>2. CASE user = "recommender"
    BY <1>1, <2>1, <2>2, RestrictIs
  <2>3. CASE user # "recommender"
    BY <1>1, <2>1, <2>3
  <2> QED BY <2>2, <2>3
<1>7. u \in States
  <2>1. t \in TableSet /\ v \in TableSet
    BY <1>5 DEF Sound, Shaped, TableSet
  <2> QED BY <1>2, <1>3, <1>6, <2>1 DEF States
<1>8. Recalls(u)
  BY <1>4 DEF Good, Recalls, CountOf
<1>9. Good(u)
  BY <1>4, <1>5, <1>7, <1>8 DEF Good
<1>10. Loses(m, u, {id})
  BY <1>4, <1>5, <1>6 DEF Loses
<1> QED BY <1>4, <1>9, <1>10

\* The unlearner's part of a state is replaced.
Instead(m, u, l, k) == u = [m EXCEPT !.lru = l, !.sticky = k]

LEMMA RecallIs ==
    ASSUME NEW m, Good(m), NEW l, NEW k, NEW u, Instead(m, u, l, k), Recalls(u)
    PROVE  Good(u) /\ \A n, gone : Loses(n, m, gone) => Loses(n, u, gone)
<1>2. m \in States
  BY DEF Good
<1>3. /\ u.table = m.table /\ u.values = m.values /\ u.orig = m.orig /\ u.vc = m.vc /\ u.vvc = m.vvc
      /\ u.lru = l /\ u.sticky = k /\ u.train = m.train
  BY <1>2 DEF States, Instead
<1>4. l \in Seq(Int) /\ k \in SUBSET Sticky
  BY <1>3 DEF Recalls
<1>5. u \in States
  BY <1>2, <1>4 DEF States, Instead
<1>6. Good(u)
  BY <1>3, <1>5 DEF Good
<1>7. \A n, gone : Loses(n, m, gone) => Loses(n, u, gone)
  BY <1>3 DEF Loses
<1> QED BY <1>6, <1>7
\* What touch of id does: it unlearns what is gone, none or the oldest, and
\* knows id afterwards if it could.
Touched(m, u, id, gone) ==
    /\ Good(u) /\ Loses(m, u, gone)
    /\ gone \subseteq Known(m) /\ id \notin gone
    /\ \A x \in Known(u) : (x \in Known(m) /\ x \notin gone) \/ x = id
    /\ \A x \in Known(m) : x \notin gone => x \in Known(u)
    /\ max_size > 0 /\ can_touch(m, id) => id \in Known(u)
    /\ max_size = 0 => u = m

LEMMA Noted ==
    ASSUME NEW m, Good(m), NEW id \in Int, id \notin m.sticky, max_size \in Nat, max_size > 0,
           Listed(m.lru, id) \/ CountOf(m) < max_size
    PROVE  \E u : /\ u = IF id \in Sticky THEN [m EXCEPT !.sticky = @ \cup {id}]
                          ELSE [m EXCEPT !.lru = <<id>> \o Without(@, id)]
                  /\ Good(u) /\ \A n, gone : Loses(n, m, gone) => Loses(n, u, gone)
                  /\ \A x : x \in Known(u) <=> x \in Known(m) \/ x = id
<1>1. m \in States /\ Recalls(m)
  BY DEF Good
<1>2. /\ CountOf(m) \in Nat /\ CountOf(m) = Len(m.lru) + Cardinality(m.sticky)
      /\ Cardinality(m.sticky) \in Nat /\ Len(m.lru) \in Nat /\ CountOf(m) <= max_size
  BY <1>1, CountIs DEF Recalls
<1>3. CASE id \in Sticky
  <2>1. ~Listed(m.lru, id) /\ CountOf(m) < max_size
    BY <1>1, <1>3 DEF Recalls
  <2>2. PICK l, k : l = m.lru /\ k = m.sticky \cup {id}
    OBVIOUS
  <2>3. PICK u : u = [m EXCEPT !.lru = l, !.sticky = k]
    OBVIOUS
  <2>3a. u = [m EXCEPT !.sticky = @ \cup {id}]
    BY <1>1, <2>2, <2>3 DEF States
  <2>4. u.lru = m.lru /\ u.sticky = k
    BY <1>1, <2>2, <2>3 DEF States
  <2>5. IsFiniteSet(k) /\ Cardinality(k) = Cardinality(m.sticky) + 1
    BY <1>1, <2>2, FS_AddElement DEF Recalls
  <2>6. CountOf(u) <= max_size
    <3>1. CountOf(u) = Len(m.lru) + Cardinality(k)
      BY <2>4 DEF CountOf
    <3> QED BY <1>2, <2>1, <2>5, <3>1
  <2>7. Recalls(u)
    BY <1>1, <1>3, <2>2, <2>4, <2>5, <2>6 DEF Recalls
  <2>8. \A x : x \in Known(u) <=> x \in Known(m) \/ x = id
    <3>1. \A x : x \in k <=> x \in m.sticky \/ x = id
      BY <2>2
    <3>2. \A x : x \in Known(m) <=> Listed(m.lru, x) \/ x \in m.sticky
      BY <1>1, KnownIs
    <3>3. \A x : x \in Known(u) <=> Listed(m.lru, x) \/ x \in k
      BY <2>4, <2>7, KnownIs
    <3> QED BY <3>1, <3>2, <3>3
  <2>9. Good(u) /\ \A n, gone : Loses(n, m, gone) => Loses(n, u, gone)
    <3>1. Instead(m, u, l, k)
      BY <2>3 DEF Instead
    <3> QED BY <2>7, <3>1, RecallIs
  <2> QED BY <1>3, <2>3a, <2>8, <2>9
<1>4. CASE id \notin Sticky
  <2>1. PICK w : w = Without(m.lru, id)
    OBVIOUS
  <2>2. /\ w \in Seq(Int) /\ Lined(w)
        /\ \A y : Listed(w, y) <=> Listed(m.lru, y) /\ y # id
        /\ Listed(m.lru, id) => Len(w) = Len(m.lru) - 1
        /\ ~Listed(m.lru, id) => Len(w) = Len(m.lru)
    BY <1>1, <2>1, WithoutIs DEF Recalls
  <2>3. PICK l, k : l = <<id>> \o w /\ k = m.sticky
    OBVIOUS
  <2>4. /\ l \in Seq(Int) /\ Len(l) = Len(w) + 1 /\ Lined(l)
        /\ \A y : Listed(l, y) <=> Listed(w, y) \/ y = id
    BY <2>2, <2>3, FrontedIs
  <2>5. PICK u : u = [m EXCEPT !.lru = l, !.sticky = k]
    OBVIOUS
  <2>5a. u = [m EXCEPT !.lru = <<id>> \o Without(@, id)]
    BY <1>1, <2>1, <2>3, <2>5 DEF States
  <2>6. u.lru = l /\ u.sticky = m.sticky
    BY <1>1, <2>3, <2>5 DEF States
  <2>7. CountOf(u) <= max_size
    <3>1. CountOf(u) = Len(l) + Cardinality(m.sticky)
      BY <2>6 DEF CountOf
    <3> QED BY <1>2, <2>2, <2>4, <3>1
  <2>8. Recalls(u)
    <3>1. \A x \in Sticky : ~Listed(l, x)
      BY <1>1, <1>4, <2>2, <2>4 DEF Recalls
    <3> QED BY <1>1, <2>4, <2>6, <2>7, <3>1 DEF Recalls
  <2>9. \A x : x \in Known(u) <=> x \in Known(m) \/ x = id
    <3>1. \A x : Listed(l, x) <=> Listed(m.lru, x) \/ x = id
      BY <2>2, <2>4
    <3>2. \A x : x \in Known(m) <=> Listed(m.lru, x) \/ x \in m.sticky
      BY <1>1, KnownIs
    <3>3. \A x : x \in Known(u) <=> Listed(l, x) \/ x \in m.sticky
      BY <2>6, <2>8, KnownIs
    <3> QED BY <3>1, <3>2, <3>3
  <2>10. Good(u) /\ \A n, gone : Loses(n, m, gone) => Loses(n, u, gone)
    <3>1. Instead(m, u, l, k)
      BY <2>5 DEF Instead
    <3> QED BY <2>8, <3>1, RecallIs
  <2> QED BY <1>4, <2>5a, <2>9, <2>10
<1> QED BY <1>3, <1>4

LEMMA Room ==
    ASSUME NEW m, Good(m), NEW id, max_size \in Nat, max_size > 0, can_touch(m, id), id \notin m.sticky
    PROVE  \E room, gone :
             /\ room = IF id \in Known(m) \/ ~Full(m) THEN m
                       ELSE [unlearn(m, m.lru[Len(m.lru)]) EXCEPT !.lru = SubSeq(@, 1, Len(@) - 1)]
             /\ Good(room) /\ Loses(m, room, gone)
             /\ gone \subseteq Known(m) /\ id \notin gone /\ id \notin room.sticky
             /\ \A x : x \in Known(room) <=> x \in Known(m) /\ x \notin gone
             /\ Listed(room.lru, id) \/ CountOf(room) < max_size
<1>1. m \in States /\ Recalls(m)
  BY DEF Good
<1>2. /\ CountOf(m) \in Nat /\ CountOf(m) = Len(m.lru) + Cardinality(m.sticky)
      /\ Cardinality(m.sticky) \in Nat /\ Len(m.lru) \in Nat /\ CountOf(m) <= max_size
  BY <1>1, CountIs DEF Recalls
<1>3. CASE id \in Known(m) \/ ~Full(m)
  <2>1. Listed(m.lru, id) \/ CountOf(m) < max_size
    BY <1>1, <1>2, <1>3, KnownIs DEF Full
  <2> QED BY <1>3, <2>1, LosesNone
<1>4. CASE ~(id \in Known(m) \/ ~Full(m))
  <2>1. m.lru # <<>>
    BY <1>4 DEF can_touch
  <2>2. Len(m.lru) # 0
    BY <1>1, <2>1 DEF Recalls
  <2>3. PICK oldest : oldest = m.lru[Len(m.lru)]
    OBVIOUS
  <2>4. PICK l, n : l = SubSeq(m.lru, 1, n - 1) /\ n = Len(m.lru)
    OBVIOUS
  <2>5. /\ l \in Seq(Int) /\ Lined(l)
        /\ \A y : Listed(l, y) <=> Listed(m.lru, y) /\ y # oldest
        /\ Len(l) = Len(m.lru) - 1 /\ Listed(m.lru, oldest)
    BY <1>1, <2>2, <2>3, <2>4, FrontIs DEF Recalls
  <2>6. PICK v : v = unlearn(m, oldest)
    OBVIOUS
  <2>7. Good(v) /\ Loses(m, v, {oldest}) /\ v.lru = m.lru /\ v.sticky = m.sticky
    BY <2>6, UnlearnIs
  <2>8. PICK room : room = [v EXCEPT !.lru = l, !.sticky = v.sticky]
    OBVIOUS
  <2>8a. room = [v EXCEPT !.lru = SubSeq(@, 1, Len(@) - 1)]
    <3>1. v \in States
      BY <2>7 DEF Good
    <3> QED BY <2>4, <2>7, <2>8, <3>1 DEF States
  <2>9. room.lru = l /\ room.sticky = m.sticky
    <3>1. v \in States
      BY <2>7 DEF Good
    <3> QED BY <2>7, <2>8, <3>1 DEF States
  <2>10. CountOf(room) = CountOf(m) - 1
    BY <1>2, <2>5, <2>9 DEF CountOf
  <2>11. Recalls(room)
    BY <1>1, <1>2, <2>5, <2>9, <2>10 DEF Recalls
  <2>12. Good(room) /\ Loses(m, room, {oldest})
    <3>1. Instead(v, room, l, v.sticky)
      BY <2>8 DEF Instead
    <3>2. Good(v) /\ Loses(m, v, {oldest})
      BY <2>7
    <3> QED BY <2>11, <3>1, <3>2, RecallIs
  <2>13. \A x : x \in Known(room) <=> x \in Known(m) /\ x \notin {oldest}
    <3>1. oldest \notin m.sticky
      BY <1>1, <2>5 DEF Recalls
    <3> QED BY <1>1, <2>5, <2>9, <2>11, <3>1, KnownIs
  <2>14. oldest \in Known(m) /\ oldest # id
    BY <1>1, <1>4, <2>5, KnownIs
  <2>15. CountOf(room) < max_size
    BY <1>2, <2>10
  <2>16. room = IF id \in Known(m) \/ ~Full(m) THEN m
                ELSE [unlearn(m, m.lru[Len(m.lru)]) EXCEPT !.lru = SubSeq(@, 1, Len(@) - 1)]
    BY <1>4, <2>3, <2>6, <2>8a
  <2>17. id \notin room.sticky
    BY <2>9
  <2> QED BY <2>12, <2>13, <2>14, <2>15, <2>16, <2>17
<1> QED BY <1>3, <1>4

LEMMA TouchIs ==
    ASSUME NEW m, Good(m), NEW id \in Int, max_size \in Nat
    PROVE  \E gone : Touched(m, touch(m, id), id, gone)
<1>0. m \in States /\ Recalls(m)
  BY DEF Good
<1>1. CASE max_size = 0 \/ ~can_touch(m, id) \/ id \in m.sticky
  <2>1. touch(m, id) = m
    BY <1>1 DEF touch
  <2>2. max_size > 0 /\ can_touch(m, id) => id \in Known(m)
    BY <1>0, <1>1, KnownIs
  <2>3. Touched(m, m, id, {})
    BY <2>2, LosesNone DEF Touched
  <2> QED BY <2>1, <2>3
<1>2. CASE ~(max_size = 0 \/ ~can_touch(m, id) \/ id \in m.sticky)
  <2>1. max_size > 0 /\ can_touch(m, id) /\ id \notin m.sticky
    BY <1>2
  <2>2. PICK room, gone :
             /\ room = IF id \in Known(m) \/ ~Full(m) THEN m
                       ELSE [unlearn(m, m.lru[Len(m.lru)]) EXCEPT !.lru = SubSeq(@, 1, Len(@) - 1)]
             /\ Good(room) /\ Loses(m, room, gone)
             /\ gone \subseteq Known(m) /\ id \notin gone /\ id \notin room.sticky
             /\ \A x : x \in Known(room) <=> x \in Known(m) /\ x \notin gone
             /\ Listed(room.lru, id) \/ CountOf(room) < max_size
    BY <2>1, Room
  <2>3. touch(m, id) = IF id \in Sticky THEN [room EXCEPT !.sticky = @ \cup {id}]
                       ELSE [room EXCEPT !.lru = <<id>> \o Without(@, id)]
    BY <1>2, <2>2 DEF touch
  <2>n. Good(room) /\ id \notin room.sticky /\ (Listed(room.lru, id) \/ CountOf(room) < max_size)
    BY <2>2
  <2>4. PICK u : /\ u = IF id \in Sticky THEN [room EXCEPT !.sticky = @ \cup {id}]
                         ELSE [room EXCEPT !.lru = <<id>> \o Without(@, id)]
                 /\ Good(u) /\ \A n, out : Loses(n, room, out) => Loses(n, u, out)
                 /\ \A x : x \in Known(u) <=> x \in Known(room) \/ x = id
    BY <2>1, <2>n, Noted
  <2>5. touch(m, id) = u
    BY <2>3, <2>4
  <2>6. Good(u) /\ \A n, out : Loses(n, room, out) => Loses(n, u, out)
    BY <2>4
  <2>7. Loses(m, room, gone) /\ gone \subseteq Known(m) /\ id \notin gone
    BY <2>2
  <2>8. \A x : x \in Known(u) <=> (x \in Known(m) /\ x \notin gone) \/ x = id
    <3>1. \A x : x \in Known(u) <=> x \in Known(room) \/ x = id
      BY <2>4
    <3>2. \A x : x \in Known(room) <=> x \in Known(m) /\ x \notin gone
      BY <2>2
    <3> QED BY <3>1, <3>2
  <2>9. Touched(m, u, id, gone)
    BY <2>1, <2>6, <2>7, <2>8 DEF Touched
  <2> QED BY <2>5, <2>9
<1> QED BY <1>1, <1>2

LEMMA ForgetIs ==
    ASSUME NEW m, Good(m), NEW id, max_size \in Nat
    PROVE  /\ Good(forget(m, id))
           /\ \A n, gone : Loses(n, m, gone) => Loses(n, forget(m, id), gone)
           /\ \A x : x \in Known(forget(m, id)) <=> x \in Known(m) /\ x # id
<1>1. m \in States /\ Recalls(m)
  BY DEF Good
<1>2. /\ CountOf(m) \in Nat /\ CountOf(m) = Len(m.lru) + Cardinality(m.sticky)
      /\ Cardinality(m.sticky) \in Nat /\ Len(m.lru) \in Nat
      /\ max_size > 0 => CountOf(m) <= max_size
  BY <1>1, CountIs DEF Recalls
<1>3. PICK l, k : l = Without(m.lru, id) /\ k = m.sticky \ {id}
  OBVIOUS
<1>4. /\ l \in Seq(Int) /\ Lined(l)
      /\ \A y : Listed(l, y) <=> Listed(m.lru, y) /\ y # id
      /\ Len(l) \in Nat /\ Len(l) <= Len(m.lru)
  BY <1>1, <1>2, <1>3, WithoutIs DEF Recalls
<1>5. IsFiniteSet(k) /\ Cardinality(k) \in Nat /\ Cardinality(k) <= Cardinality(m.sticky)
  <2>1. IsFiniteSet(m.sticky) /\ k \subseteq m.sticky
    BY <1>1, <1>3 DEF Recalls
  <2>2. IsFiniteSet(k) /\ Cardinality(k) <= Cardinality(m.sticky)
    BY <2>1, FS_Subset
  <2> QED BY <2>2, FS_CardinalityType
<1>6. PICK u : u = [m EXCEPT !.lru = l, !.sticky = k]
  OBVIOUS
<1>7. forget(m, id) = u /\ u.lru = l /\ u.sticky = k
  BY <1>1, <1>3, <1>6 DEF forget, States
<1>8. CountOf(u) \in Nat /\ CountOf(u) <= CountOf(m)
  BY <1>2, <1>4, <1>5, <1>7 DEF CountOf
<1>9. max_size = 0 => Len(l) = 0 /\ k = {}
  BY <1>1, <1>2, <1>3, <1>4 DEF Recalls
<1>10. Recalls(u)
  <2>1. max_size > 0 => CountOf(u) <= max_size
    BY <1>2, <1>8
  <2>2. \A x \in Sticky : ~Listed(l, x)
    BY <1>1, <1>4 DEF Recalls
  <2>3. k \in SUBSET Sticky
    BY <1>1, <1>3 DEF Recalls
  <2> QED BY <1>4, <1>5, <1>7, <1>9, <2>1, <2>2, <2>3 DEF Recalls
<1>11. \A x : x \in Known(u) <=> x \in Known(m) /\ x # id
  BY <1>1, <1>3, <1>4, <1>7, <1>10, KnownIs
<1>12. Good(u) /\ \A n, gone : Loses(n, m, gone) => Loses(n, u, gone)
  <2>1. Instead(m, u, l, k)
    BY <1>6 DEF Instead
  <2> QED BY <1>10, <2>1, RecallIs
<1> QED BY <1>7, <1>11, <1>12
---------------------------------------------------------------------------
(* Rows put one by one.                                                    *)

\* A row lies in a table.
Lies(t, r) == r.key \in Ids(t) /\ RowOf(t, r.key) = r

\* d is what c becomes by the versions of these rows, n past each.
Reached(c, S, d, n) ==
    /\ c \in Int /\ d \in Int /\ c <= d
    /\ \A r \in S : r.clock + n <= d
    /\ d = c \/ \E r \in S : d = r.clock + n

LEMMA ReachedNone == ASSUME NEW c \in Int, NEW n PROVE Reached(c, {}, c, n)
BY DEF Reached

LEMMA ReachedPast ==
    ASSUME NEW c, NEW S, NEW d, Reached(c, S, d, 1), NEW r, r.clock \in Int,
           NEW e, e = IF d < r.clock + 1 THEN r.clock + 1 ELSE d,
           \A q \in S : q.clock \in Int
    PROVE  Reached(c, S \cup {r}, e, 1)
<1>1. e \in Int /\ d <= e /\ r.clock + 1 <= e /\ c <= e
  BY DEF Reached
<1>2. \A q \in S \cup {r} : q.clock + 1 <= e
  BY <1>1 DEF Reached
<1>3. e = c \/ \E q \in S \cup {r} : e = q.clock + 1
  BY DEF Reached
<1> QED BY <1>1, <1>2, <1>3 DEF Reached

LEMMA ReachedSeen ==
    ASSUME NEW c, NEW S, NEW d, Reached(c, S, d, 0), NEW r, r.clock \in Int,
           NEW e, e = IF d < r.clock THEN r.clock ELSE d,
           \A q \in S : q.clock \in Int
    PROVE  Reached(c, S \cup {r}, e, 0)
<1>1. e \in Int /\ d <= e /\ r.clock <= e /\ c <= e
  BY DEF Reached
<1>2. \A q \in S \cup {r} : q.clock + 0 <= e
  BY <1>1 DEF Reached
<1>3. e = c \/ \E q \in S \cup {r} : e = q.clock + 0
  BY DEF Reached
<1> QED BY <1>1, <1>2, <1>3 DEF Reached

LEMMA ReachedOne ==
    ASSUME NEW c, NEW S, NEW T, NEW d, NEW e, NEW n \in Int, Reached(c, S, d, n), Reached(c, T, e, n),
           \A r : r \in S <=> r \in T, \A r \in S : r.clock \in Int
    PROVE  d = e
BY DEF Reached

LEMMA AdvanceIs ==
    ASSUME NEW v \in VectorSet, NEW r \in RowSet
    PROVE  /\ Advance(v, r) \in VectorSet
           /\ \A o : Seen(v, o) \in Int
           /\ Seen(Advance(v, r), r.owner) = IF Seen(v, r.owner) < r.clock THEN r.clock ELSE Seen(v, r.owner)
<1>1. PICK D \in SUBSET Owners : v \in [D -> Nat]
  BY DEF VectorSet
<1>2. r.owner \in Owners /\ r.clock \in Nat
  BY DEF RowSet
<1>3. PICK c : c = IF Seen(v, r.owner) < r.clock THEN r.clock ELSE v[r.owner]
  OBVIOUS
<1>4. PICK a : a = With(v, r.owner, c)
  OBVIOUS
<1>5. Advance(v, r) = a
  BY <1>3, <1>4 DEF Advance
<1>6. c \in Nat /\ (r.owner \notin D => c = r.clock)
  BY <1>1, <1>2, <1>3 DEF Seen
<1>7. a \in [D \cup {r.owner} -> Nat] /\ a[r.owner] = c
  BY <1>1, <1>4, <1>6 DEF With
<1>8. a \in VectorSet
  <2>1. D \cup {r.owner} \in SUBSET Owners
    BY <1>2
  <2> QED BY <1>7, <2>1 DEF VectorSet
<1>9. \A o : Seen(v, o) \in Int
  BY <1>1 DEF Seen
<1>10. Seen(a, r.owner) = c
  BY <1>7 DEF Seen
<1>11. c = IF Seen(v, r.owner) < r.clock THEN r.clock ELSE Seen(v, r.owner)
  BY <1>1, <1>2, <1>3 DEF Seen
<1> QED BY <1>5, <1>8, <1>9, <1>10, <1>11

\* One row put in a table and its vector.
Taking(t, u, v, w, r) ==
    /\ Sound(u) /\ w \in VectorSet
    /\ \A k : k \in Ids(u) <=> k \in Ids(t) \/ k = r.key
    /\ \A k \in Ids(t) : RowOf(u, k).clock >= RowOf(t, k).clock
    /\ \A q : Lies(u, q) => Lies(t, q) \/ q = r
    /\ u.clock = IF t.clock < r.clock + 1 THEN r.clock + 1 ELSE t.clock
    /\ t.clock \in Nat /\ u.clock >= t.clock
    /\ Seen(v, r.owner) \in Int
    /\ Seen(w, r.owner) = IF Seen(v, r.owner) < r.clock THEN r.clock ELSE Seen(v, r.owner)

LEMMA TakingIs ==
    ASSUME NEW t, Sound(t), NEW v \in VectorSet, NEW r \in RowSet
    PROVE  Taking(t, SetRow(t, r), v, Advance(v, r), r)
<1>1. PICK u : u = SetRow(t, r)
  OBVIOUS
<1>2. /\ Sound(u) /\ Ids(u) = Ids(t) \cup {r.key} /\ u.clock = Past(t.clock, r)
      /\ RowOf(u, r.key) = Taken(t, r) /\ \A j \in Ids(t) \ {r.key} : RowOf(u, j) = RowOf(t, j)
  BY <1>1, SetRowIs
<1>3. Shaped(t)
  BY DEF Sound
<1>4. /\ \A k \in Ids(t) : RowOf(t, k).clock \in Nat
      /\ Has(t, r.key) <=> r.key \in Ids(t)
      /\ t.clock \in Nat /\ r.clock \in Nat
  BY <1>3, RowsRead DEF RowSet
<1>5. \A k : k \in Ids(u) <=> k \in Ids(t) \/ k = r.key
  BY <1>2
<1>6. ASSUME NEW k \in Ids(t) PROVE RowOf(u, k).clock >= RowOf(t, k).clock
  <2>1. CASE k # r.key
    BY <1>2, <1>4, <2>1
  <2>2. CASE k = r.key
    <3>1. RowOf(u, k) = Taken(t, r) /\ Has(t, r.key)
      BY <1>2, <1>4, <2>2
    <3>2. CASE Newer(t, r.key, r.clock)
      BY <1>4, <2>2, <3>1, <3>2 DEF Taken
    <3>3. CASE ~Newer(t, r.key, r.clock)
      <4>1. RowOf(u, k) = r /\ ~(RowOf(t, k).clock > r.clock)
        BY <2>2, <3>1, <3>3 DEF Taken, Newer
      <4> QED BY <1>4, <4>1
    <3> QED BY <3>2, <3>3
  <2> QED BY <2>1, <2>2
<1>7. ASSUME NEW q, Lies(u, q) PROVE Lies(t, q) \/ q = r
  <2>1. q.key \in Ids(u) /\ RowOf(u, q.key) = q
    BY <1>7 DEF Lies
  <2>2. CASE q.key # r.key
    BY <1>2, <1>5, <2>1, <2>2 DEF Lies
  <2>3. CASE q.key = r.key
    <3>1. q = Taken(t, r)
      BY <1>2, <2>1, <2>3
    <3>2. CASE Newer(t, r.key, r.clock)
      BY <1>4, <2>3, <3>1, <3>2 DEF Taken, Newer, Lies
    <3>3. CASE ~Newer(t, r.key, r.clock)
      BY <3>1, <3>3 DEF Taken
    <3> QED BY <3>2, <3>3
  <2> QED BY <2>2, <2>3
<1>8. u.clock = (IF t.clock < r.clock + 1 THEN r.clock + 1 ELSE t.clock) /\ u.clock >= t.clock
  <2>1. u.clock = IF t.clock < r.clock + 1 THEN r.clock + 1 ELSE t.clock
    BY <1>2 DEF Past
  <2> QED BY <1>4, <2>1
<1>9. /\ Advance(v, r) \in VectorSet /\ Seen(v, r.owner) \in Int
      /\ Seen(Advance(v, r), r.owner) = IF Seen(v, r.owner) < r.clock THEN r.clock ELSE Seen(v, r.owner)
  BY AdvanceIs
<1> QED BY <1>1, <1>2, <1>4, <1>5, <1>6, <1>7, <1>8, <1>9 DEF Taking

\* PutRow by its fields: the engine's table after the unlearner's turn, or values.
TablePut(m, u, r, n, gone) ==
    /\ Good(u) /\ Taking(n.table, u.table, n.vc, u.vc, r)
    /\ u.values = n.values /\ u.vvc = n.vvc /\ u.orig = n.orig
    /\ u.lru = n.lru /\ u.sticky = n.sticky /\ u.train = n.train
    /\ Good(n)
    /\ user = "regression" => Touched(m, n, r.key, gone)
    /\ user # "regression" => n = m

LEMMA PutTableIs ==
    ASSUME NEW m, Good(m), NEW r \in RowSet, NEW u, u = PutRow(m, "table", r), max_size \in Nat
    PROVE  \E n, gone : TablePut(m, u, r, n, gone)
<1>1. PICK n : n = IF user = "regression" THEN touch(m, r.key) ELSE m
  OBVIOUS
<1>2. r.key \in Int
  BY DEF RowSet
<1>3. PICK gone : user = "regression" => Touched(m, n, r.key, gone)
  BY <1>1, <1>2, TouchIs
<1>4. Good(n)
  BY <1>1, <1>3 DEF Touched
<1>6. PICK t, v : t = SetRow(n.table, r) /\ v = Advance(n.vc, r)
  OBVIOUS
<1>7. n \in States /\ Sound(n.table) /\ n.vc \in VectorSet
  BY <1>4 DEF Good, States
<1>8. u = [n EXCEPT !.table = t, !.vc = v]
  BY <1>1, <1>6, <1>7 DEF PutRow, States
<1>9. Taking(n.table, t, n.vc, v, r)
  BY <1>6, <1>7, TakingIs
<1>10. /\ u.table = t /\ u.vc = v /\ u.values = n.values /\ u.vvc = n.vvc /\ u.orig = n.orig
       /\ u.lru = n.lru /\ u.sticky = n.sticky /\ u.train = n.train
  BY <1>7, <1>8 DEF States
<1>11. t \in TableSet /\ v \in VectorSet /\ Sound(t)
  BY <1>9 DEF Taking, Sound, Shaped, TableSet
<1>12. u \in States
  BY <1>7, <1>8, <1>11 DEF States
<1>13. Recalls(u)
  <2>1. Recalls(n)
    BY <1>4 DEF Good
  <2> QED BY <1>10, <2>1 DEF Recalls, CountOf
<1>14. Good(u)
  BY <1>4, <1>10, <1>11, <1>12, <1>13 DEF Good
<1>15. TablePut(m, u, r, n, gone)
  BY <1>1, <1>3, <1>4, <1>9, <1>10, <1>14 DEF TablePut
<1> QED BY <1>15

LEMMA PutValueIs ==
    ASSUME NEW m, Good(m), NEW r \in RowSet
    PROVE  LET u == PutRow(m, "values", r)
           IN  /\ Good(u) /\ Taking(m.values, u.values, m.vvc, u.vvc, r)
               /\ u.table = m.table /\ u.vc = m.vc /\ u.orig = m.orig
               /\ u.lru = m.lru /\ u.sticky = m.sticky /\ u.train = m.train
<1>5. PICK u : u = PutRow(m, "values", r)
  OBVIOUS
<1>6. PICK t, v : t = SetRow(m.values, r) /\ v = Advance(m.vvc, r)
  OBVIOUS
<1>7. m \in States /\ Sound(m.values) /\ m.vvc \in VectorSet
  BY DEF Good, States
<1>8. u = [m EXCEPT !.values = t, !.vvc = v]
  BY <1>5, <1>6, <1>7 DEF PutRow, States
<1>9. Taking(m.values, t, m.vvc, v, r)
  BY <1>6, <1>7, TakingIs
<1>10. /\ u.table = m.table /\ u.vc = m.vc /\ u.values = t /\ u.vvc = v /\ u.orig = m.orig
       /\ u.lru = m.lru /\ u.sticky = m.sticky /\ u.train = m.train
  BY <1>7, <1>8 DEF States
<1>11. t \in TableSet /\ v \in VectorSet /\ Sound(t)
  BY <1>9 DEF Taking, Sound, Shaped, TableSet
<1>12. u \in States
  BY <1>7, <1>8, <1>11 DEF States
<1>13. Recalls(u)
  <2>1. Recalls(m)
    BY DEF Good
  <2> QED BY <1>10, <2>1 DEF Recalls, CountOf
<1>14. Good(u)
  BY <1>10, <1>11, <1>12, <1>13 DEF Good
<1> QED BY <1>5, <1>9, <1>10, <1>14
---------------------------------------------------------------------------
(* What a put of a set S of rows makes of m, in parts.                     *)

Carries(m, u, S) ==
    /\ Good(u) /\ u.train = m.train /\ u.vvc = m.vvc
    /\ \A r : Lies(u.values, r) => Lies(m.values, r)
    /\ \A r : Lies(u.table, r) => Lies(m.table, r) \/ r \in S
    /\ \A x \in Known(u) : x \notin Ids(u.table) => x \in Known(m) /\ x \notin Ids(m.table)
    /\ \A x \in Known(u) : x \in Known(m) \/ \E r \in S : x = r.key

\* Nobody but the regression has an unlearner there.
Widens(m, u) ==
    /\ u.values = m.values /\ u.lru = m.lru /\ u.sticky = m.sticky /\ u.orig = m.orig
    /\ m.table.clock <= u.table.clock
    /\ \A k \in Ids(m.table) : k \in Ids(u.table) /\ RowOf(u.table, k).clock >= RowOf(m.table, k).clock

\* Without an unlearner.
Follows(m, u, S) ==
    /\ u.values = m.values /\ u.lru = m.lru /\ u.sticky = m.sticky /\ u.orig = m.orig
    /\ \A k : k \in Ids(u.table) <=> k \in Ids(m.table) \/ \E r \in S : r.key = k
    /\ Reached(m.table.clock, S, u.table.clock, 1)
    /\ (\A r \in S : r.owner = "") => Reached(Seen(m.vc, ""), S, Seen(u.vc, ""), 0)

\* With one that has nothing that it must keep.
Bounds(m, u, S) ==
    m.sticky = {} /\ (\A r \in S : r.key \notin Sticky) =>
        /\ u.sticky = {}
        /\ Ids(m.table) \subseteq Known(m) => Ids(u.table) \subseteq Known(u)

PutInTable(m, u, S) ==
    /\ Carries(m, u, S)
    /\ user # "regression" => Widens(m, u)
    /\ max_size = 0 => Follows(m, u, S)
    /\ user = "regression" /\ max_size > 0 => Bounds(m, u, S)

PutInValues(m, u, S) ==
    /\ Good(u) /\ u.table = m.table /\ u.vc = m.vc /\ u.orig = m.orig
    /\ u.lru = m.lru /\ u.sticky = m.sticky /\ u.train = m.train
    /\ \A r : Lies(u.values, r) => Lies(m.values, r) \/ r \in S
    /\ \A k : k \in Ids(u.values) <=> k \in Ids(m.values) \/ \E r \in S : r.key = k
    /\ Reached(m.values.clock, S, u.values.clock, 1)
    /\ (\A r \in S : r.owner = "") => Reached(Seen(m.vvc, ""), S, Seen(u.vvc, ""), 0)

LEMMA SeenInt == ASSUME NEW m, Good(m) PROVE \A o : Seen(m.vc, o) \in Int /\ Seen(m.vvc, o) \in Int
<1>1. m.vc \in VectorSet /\ m.vvc \in VectorSet
  BY DEF Good, States
<1>2. ASSUME NEW v \in VectorSet, NEW o PROVE Seen(v, o) \in Int
  <2>1. PICK D \in SUBSET Owners : v \in [D -> Nat]
    BY DEF VectorSet
  <2> QED BY <2>1 DEF Seen
<1> QED BY <1>1, <1>2

LEMMA GoodClocks ==
    ASSUME NEW m, Good(m)
    PROVE  m.table.clock \in Nat /\ m.values.clock \in Nat
BY DEF Good, Sound, Shaped

LEMMA PutNoneTable == ASSUME NEW m, Good(m) PROVE PutInTable(m, m, {})
<1>1. Carries(m, m, {})
  BY DEF Carries
<1>2. Widens(m, m)
  <2>1. /\ \A k \in Ids(m.table) : RowOf(m.table, k).clock \in Nat
        /\ m.table.clock \in Nat
    <3>1. Shaped(m.table)
      BY DEF Good, Sound
    <3> QED BY <3>1, RowsRead DEF RowSet
  <2> QED BY <2>1 DEF Widens
<1>3. Follows(m, m, {})
  <2>1. Reached(m.table.clock, {}, m.table.clock, 1)
    BY GoodClocks, ReachedNone
  <2>2. Reached(Seen(m.vc, ""), {}, Seen(m.vc, ""), 0)
    BY SeenInt, ReachedNone
  <2> QED BY <2>1, <2>2 DEF Follows
<1> QED BY <1>1, <1>2, <1>3 DEF PutInTable, Bounds

LEMMA PutNoneValues == ASSUME NEW m, Good(m) PROVE PutInValues(m, m, {})
<1>1. Reached(m.values.clock, {}, m.values.clock, 1)
  BY GoodClocks, ReachedNone
<1>2. Reached(Seen(m.vvc, ""), {}, Seen(m.vvc, ""), 0)
  BY SeenInt, ReachedNone
<1> QED BY <1>1, <1>2 DEF PutInValues

LEMMA PutOneTable ==
    ASSUME NEW m, Good(m), NEW S \in SUBSET RowSet, NEW p, PutInTable(m, p, S), NEW r \in RowSet, max_size \in Nat
    PROVE  PutInTable(m, PutRow(p, "table", r), S \cup {r})
<1>0. PICK u : u = PutRow(p, "table", r)
  OBVIOUS
<1>1. Good(p) /\ Carries(m, p, S)
  BY DEF PutInTable, Carries
<1>p. PICK n, gone : TablePut(p, u, r, n, gone)
  BY <1>0, <1>1, PutTableIs
<1>2. /\ Good(u) /\ Taking(n.table, u.table, n.vc, u.vc, r)
      /\ u.values = n.values /\ u.vvc = n.vvc /\ u.orig = n.orig
      /\ u.lru = n.lru /\ u.sticky = n.sticky /\ u.train = n.train
      /\ Good(n)
      /\ user = "regression" => Touched(p, n, r.key, gone)
      /\ user # "regression" => n = p
  BY <1>p DEF TablePut
<1>3. Known(u) = Known(n)
  BY <1>2 DEF Known
<1>4. /\ \A k : k \in Ids(u.table) <=> k \in Ids(n.table) \/ k = r.key
      /\ \A q : Lies(u.table, q) => Lies(n.table, q) \/ q = r
  BY <1>2 DEF Taking
<1>5. user = "regression" =>
         /\ Thins(p.table, n.table, gone) /\ Thins(p.values, n.values, gone)
         /\ n.vvc = p.vvc /\ n.train = p.train
         /\ \A x \in Known(n) : (x \in Known(p) /\ x \notin gone) \/ x = r.key
         /\ \A x \in Known(p) : x \notin gone => x \in Known(n)
  BY <1>2 DEF Touched, Loses
<1>6. Carries(m, u, S \cup {r})
  <2>1. u.train = m.train /\ u.vvc = m.vvc
    BY <1>1, <1>2, <1>5 DEF Carries
  <2>2. ASSUME NEW q, Lies(u.values, q) PROVE Lies(m.values, q)
    <3>1. Lies(n.values, q)
      BY <1>2, <2>2
    <3>2. Lies(p.values, q)
      <4>1. CASE user = "regression"
        BY <1>5, <3>1, <4>1 DEF Thins, Lies
      <4>2. CASE user # "regression"
        BY <1>2, <3>1, <4>2
      <4> QED BY <4>1, <4>2
    <3> QED BY <1>1, <3>2 DEF Carries
  <2>3. ASSUME NEW q, Lies(u.table, q) PROVE Lies(m.table, q) \/ q \in S \cup {r}
    <3>1. Lies(n.table, q) \/ q = r
      BY <1>4, <2>3
    <3>2. Lies(n.table, q) => Lies(p.table, q)
      <4>1. CASE user = "regression"
        BY <1>5, <4>1 DEF Thins, Lies
      <4>2. CASE user # "regression"
        BY <1>2, <4>2
      <4> QED BY <4>1, <4>2
    <3> QED BY <1>1, <3>1, <3>2 DEF Carries
  <2>4. ASSUME NEW x \in Known(u), x \notin Ids(u.table) PROVE x \in Known(m) /\ x \notin Ids(m.table)
    <3>1. x \in Known(n) /\ x \notin Ids(n.table) /\ x # r.key
      BY <1>3, <1>4, <2>4
    <3>2. x \in Known(p) /\ x \notin Ids(p.table)
      <4>1. CASE user = "regression"
        BY <1>5, <3>1, <4>1 DEF Thins
      <4>2. CASE user # "regression"
        BY <1>2, <3>1, <4>2
      <4> QED BY <4>1, <4>2
    <3> QED BY <1>1, <3>2 DEF Carries
  <2>5. ASSUME NEW x \in Known(u) PROVE x \in Known(m) \/ \E q \in S \cup {r} : x = q.key
    <3>1. x \in Known(p) \/ x = r.key
      BY <1>2, <1>3, <1>5
    <3> QED BY <1>1, <3>1 DEF Carries
  <2> QED BY <1>2, <2>1, <2>2, <2>3, <2>4, <2>5 DEF Carries
<1>7. ASSUME user # "regression" PROVE Widens(m, u)
  <2>1. Widens(m, p) /\ n = p
    BY <1>2, <1>7 DEF PutInTable
  <2>2. /\ p.table.clock <= u.table.clock
        /\ \A k \in Ids(p.table) : k \in Ids(u.table) /\ RowOf(u.table, k).clock >= RowOf(p.table, k).clock
    BY <1>2, <2>1 DEF Taking
  <2>3. m.table.clock <= p.table.clock
    BY <2>1 DEF Widens
  <2>4. Shaped(u.table) /\ Shaped(p.table) /\ Shaped(m.table)
    BY <1>1, <1>2 DEF Good, Sound
  <2>5. /\ p.table.clock \in Nat /\ u.table.clock \in Nat /\ m.table.clock \in Nat
        /\ \A k \in Ids(m.table) : RowOf(m.table, k).clock \in Nat
        /\ \A k \in Ids(p.table) : RowOf(p.table, k).clock \in Nat
        /\ \A k \in Ids(u.table) : RowOf(u.table, k).clock \in Nat
    BY <2>4, RowsRead DEF RowSet
  <2>m. m.table.clock <= u.table.clock
    BY <2>2, <2>3, <2>5
  <2>6. ASSUME NEW k \in Ids(m.table)
        PROVE  k \in Ids(u.table) /\ RowOf(u.table, k).clock >= RowOf(m.table, k).clock
    <3>1. k \in Ids(p.table) /\ RowOf(p.table, k).clock >= RowOf(m.table, k).clock
      BY <2>1, <2>6 DEF Widens
    <3>2. k \in Ids(u.table) /\ RowOf(u.table, k).clock >= RowOf(p.table, k).clock
      BY <2>2, <3>1
    <3> QED BY <2>5, <3>1, <3>2
  <2> QED BY <1>2, <2>1, <2>6, <2>m DEF Widens
<1>8. ASSUME max_size = 0 PROVE Follows(m, u, S \cup {r})
  <2>1. Follows(m, p, S) /\ n = p
    BY <1>2, <1>8 DEF PutInTable, Touched
  <2>2. \A k : k \in Ids(u.table) <=> k \in Ids(m.table) \/ \E q \in S \cup {r} : q.key = k
    BY <1>4, <2>1 DEF Follows
  <2>3. \A q \in S \cup {r} : q.clock \in Int
    BY DEF RowSet
  <2>4. Reached(m.table.clock, S \cup {r}, u.table.clock, 1)
    <3>1. u.table.clock = IF p.table.clock < r.clock + 1 THEN r.clock + 1 ELSE p.table.clock
      BY <1>2, <2>1 DEF Taking
    <3>2. Reached(m.table.clock, S, p.table.clock, 1)
      BY <2>1 DEF Follows
    <3>3. PICK c, d, e : c = m.table.clock /\ d = p.table.clock /\ e = u.table.clock
      OBVIOUS
    <3>4. e = IF d < r.clock + 1 THEN r.clock + 1 ELSE d
      BY <3>1, <3>3
    <3>5. Reached(c, S, d, 1)
      BY <3>2, <3>3
    <3>6. Reached(c, S \cup {r}, e, 1)
      BY <2>3, <3>4, <3>5, ReachedPast
    <3> QED BY <3>3, <3>6
  <2>5. ASSUME \A q \in S \cup {r} : q.owner = ""
        PROVE  Reached(Seen(m.vc, ""), S \cup {r}, Seen(u.vc, ""), 0)
    <3>0. r.owner = ""
      BY <2>5
    <3>1. Seen(u.vc, "") = IF Seen(p.vc, "") < r.clock THEN r.clock ELSE Seen(p.vc, "")
      BY <1>2, <2>1, <3>0 DEF Taking
    <3>2. Reached(Seen(m.vc, ""), S, Seen(p.vc, ""), 0)
      BY <2>1, <2>5 DEF Follows
    <3>3. PICK d, e, c : d = Seen(p.vc, "") /\ e = Seen(u.vc, "") /\ c = Seen(m.vc, "")
      OBVIOUS
    <3>4. (e = IF d < r.clock THEN r.clock ELSE d) /\ Reached(c, S, d, 0)
      BY <3>1, <3>2, <3>3
    <3>5. Reached(c, S \cup {r}, e, 0)
      BY <2>3, <3>4, ReachedSeen
    <3> QED BY <3>3, <3>5
  <2> QED BY <1>2, <2>1, <2>2, <2>4, <2>5 DEF Follows
<1>9. ASSUME user = "regression", max_size > 0 PROVE Bounds(m, u, S \cup {r})
  <2> SUFFICES ASSUME m.sticky = {}, \A q \in S \cup {r} : q.key \notin Sticky
               PROVE  /\ u.sticky = {}
                      /\ Ids(m.table) \subseteq Known(m) => Ids(u.table) \subseteq Known(u)
    BY DEF Bounds
  <2>1. /\ p.sticky = {}
        /\ Ids(m.table) \subseteq Known(m) => Ids(p.table) \subseteq Known(p)
    BY <1>9 DEF PutInTable, Bounds
  <2>2. Recalls(p) /\ Recalls(n) /\ p.lru \in Seq(Int)
    BY <1>1, <1>2 DEF Good, Recalls
  <2>3. n.sticky = {}
    <3>1. ASSUME NEW x \in n.sticky PROVE FALSE
      <4>1. x \in Sticky /\ x \in Known(n)
        BY <2>2, <3>1, KnownIs DEF Recalls
      <4>2. x \in Known(p)
        BY <1>5, <1>9, <4>1
      <4>3. ~Listed(p.lru, x)
        BY <2>2, <4>1 DEF Recalls
      <4> QED BY <2>1, <2>2, <4>2, <4>3, KnownIs
    <3> QED BY <3>1
  <2>4. can_touch(p, r.key)
    <3>1. /\ CountOf(p) = Len(p.lru) + Cardinality(p.sticky) /\ Len(p.lru) \in Nat
      BY <2>2, CountIs
    <3>2. Cardinality(p.sticky) = 0
      BY <2>1, FS_EmptySet
    <3>3. CASE p.lru = <<>>
      <4>1. Len(p.lru) = 0
        BY <3>3
      <4>2. CountOf(p) = 0
        BY <3>1, <3>2, <4>1
      <4> QED BY <1>9, <4>2 DEF can_touch, Full
    <3> QED BY <3>3 DEF can_touch
  <2>5. r.key \in Known(n)
    BY <1>2, <1>9, <2>4 DEF Touched
  <2>6. ASSUME Ids(m.table) \subseteq Known(m), NEW k \in Ids(u.table) PROVE k \in Known(u)
    <3>1. k \in Ids(n.table) \/ k = r.key
      BY <1>4, <2>6
    <3>2. k \in Ids(n.table) => k \in Ids(p.table) /\ k \notin gone
      BY <1>5, <1>9 DEF Thins
    <3> QED BY <1>3, <1>5, <1>9, <2>1, <2>5, <2>6, <3>1, <3>2
  <2> QED BY <1>2, <2>3, <2>6
<1> QED BY <1>0, <1>6, <1>7, <1>8, <1>9 DEF PutInTable

LEMMA PutOneValue ==
    ASSUME NEW m, NEW S \in SUBSET RowSet, NEW p, PutInValues(m, p, S), NEW r \in RowSet
    PROVE  PutInValues(m, PutRow(p, "values", r), S \cup {r})
<1>0. PICK u : u = PutRow(p, "values", r)
  OBVIOUS
<1>1. Good(p)
  BY DEF PutInValues
<1>2. /\ Good(u) /\ Taking(p.values, u.values, p.vvc, u.vvc, r)
      /\ u.table = p.table /\ u.vc = p.vc /\ u.orig = p.orig
      /\ u.lru = p.lru /\ u.sticky = p.sticky /\ u.train = p.train
  BY <1>0, <1>1, PutValueIs
<1>3. /\ \A k : k \in Ids(u.values) <=> k \in Ids(p.values) \/ k = r.key
      /\ \A q : Lies(u.values, q) => Lies(p.values, q) \/ q = r
  BY <1>2 DEF Taking
<1>4. \A q \in S \cup {r} : q.clock \in Int
  BY DEF RowSet
<1>5. Reached(m.values.clock, S \cup {r}, u.values.clock, 1)
  <2>1. u.values.clock = IF p.values.clock < r.clock + 1 THEN r.clock + 1 ELSE p.values.clock
    BY <1>2 DEF Taking
  <2>2. Reached(m.values.clock, S, p.values.clock, 1)
    BY DEF PutInValues
  <2> QED BY <1>4, <2>1, <2>2, ReachedPast
<1>6. ASSUME \A q \in S \cup {r} : q.owner = ""
      PROVE  Reached(Seen(m.vvc, ""), S \cup {r}, Seen(u.vvc, ""), 0)
  <2>0. r.owner = ""
    BY <1>6
  <2>1. Seen(u.vvc, "") = IF Seen(p.vvc, "") < r.clock THEN r.clock ELSE Seen(p.vvc, "")
    BY <1>2, <2>0 DEF Taking
  <2>2. Reached(Seen(m.vvc, ""), S, Seen(p.vvc, ""), 0)
    BY <1>6 DEF PutInValues
  <2>3. PICK d, e, c : d = Seen(p.vvc, "") /\ e = Seen(u.vvc, "") /\ c = Seen(m.vvc, "")
    OBVIOUS
  <2>4. (e = IF d < r.clock THEN r.clock ELSE d) /\ Reached(c, S, d, 0)
    BY <2>1, <2>2, <2>3
  <2>5. Reached(c, S \cup {r}, e, 0)
    BY <1>4, <2>4, ReachedSeen
  <2> QED BY <2>3, <2>5
<1>7. /\ \A q : Lies(u.values, q) => Lies(m.values, q) \/ q \in S \cup {r}
      /\ \A k : k \in Ids(u.values) <=> k \in Ids(m.values) \/ \E q \in S \cup {r} : q.key = k
  BY <1>3 DEF PutInValues
<1>8. /\ u.table = m.table /\ u.vc = m.vc /\ u.orig = m.orig
      /\ u.lru = m.lru /\ u.sticky = m.sticky /\ u.train = m.train
  BY <1>2 DEF PutInValues
<1>9. PutInValues(m, u, S \cup {r})
  BY <1>2, <1>5, <1>6, <1>7, <1>8 DEF PutInValues
<1> QED BY <1>0, <1>9
---------------------------------------------------------------------------
(* The recursive functions of the model.                                   *)

Fold(f, m, w, rows, n) ==
    f = [i \in 0..n |-> IF i = 0 THEN m ELSE PutRow(f[i - 1], w, rows[i])]

LEMMA FoldIs ==
    ASSUME NEW m, NEW w, NEW rows, Len(rows) \in Nat
    PROVE  \E f : Fold(f, m, w, rows, Len(rows)) /\ PutRows(m, w, rows) = f[Len(rows)]
<1> DEFINE Bad == {n \in Nat : ~ \E f : Fold(f, m, w, rows, n)}
<1>1. Bad = {}
  <2> SUFFICES ASSUME Bad # {} PROVE FALSE
    OBVIOUS
  <2>1. PICK n \in Bad : \A k \in Bad : n <= k
    <3>1. Bad \in SUBSET Nat /\ Bad # {}
      OBVIOUS
    <3> HIDE DEF Bad
    <3> QED BY ONLY <3>1, Least
  <2>2. n # 0
    <3>1. Fold([i \in 0..0 |-> m], m, w, rows, 0)
      BY DEF Fold
    <3> QED BY <3>1
  <2>3. n - 1 \in Nat /\ n - 1 \notin Bad
    BY <2>1, <2>2
  <2>4. PICK f : Fold(f, m, w, rows, n - 1)
    BY <2>3
  <2> DEFINE g == [i \in 0..n |-> IF i = n THEN PutRow(f[n - 1], w, rows[n]) ELSE f[i]]
  <2>5. Fold(g, m, w, rows, n)
    <3>1. n \in Nat \ {0} /\ n - 1 \in 0..n /\ g[n - 1] = f[n - 1]
      BY <2>1, <2>2
    <3>2. ASSUME NEW i \in 0..n
          PROVE g[i] = IF i = 0 THEN m ELSE PutRow(g[i - 1], w, rows[i])
      <4>1. CASE i = n
        BY <3>1, <4>1
      <4>2. CASE i # n
        <5>1. i \in 0..(n - 1) /\ g[i] = f[i] /\ (i # 0 => i - 1 \in 0..(n - 1) /\ g[i - 1] = f[i - 1])
          BY <3>1, <4>2
        <5> HIDE DEF g
        <5> QED BY <2>4, <5>1 DEF Fold
      <4> QED BY <4>1, <4>2
    <3> QED BY <3>2 DEF Fold
  <2> QED BY <2>1, <2>5
<1>2. \E f : Fold(f, m, w, rows, Len(rows))
  BY <1>1
<1> QED BY <1>2 DEF Fold, PutRows

First(rows, n) == {rows[i] : i \in 1..n}

LEMMA FirstIs ==
    ASSUME NEW rows \in Seq(RowSet)
    PROVE  /\ First(rows, 0) = {}
           /\ First(rows, Len(rows)) = Range(rows)
           /\ \A n \in 1..Len(rows) : /\ First(rows, n) = First(rows, n - 1) \cup {rows[n]}
                                      /\ rows[n] \in RowSet /\ First(rows, n - 1) \in SUBSET RowSet
<1>1. ASSUME NEW n \in 1..Len(rows) PROVE First(rows, n) = First(rows, n - 1) \cup {rows[n]}
  <2>1. \A i : i \in 1..n <=> i \in 1..(n - 1) \/ i = n
    OBVIOUS
  <2> QED BY <2>1 DEF First
<1>2. First(rows, 0) = {} /\ First(rows, Len(rows)) = Range(rows)
  BY DEF First, Range
<1>3. \A n \in 1..Len(rows) : rows[n] \in RowSet /\ First(rows, n - 1) \in SUBSET RowSet
  BY DEF First
<1> QED BY <1>1, <1>2, <1>3

LEMMA PutRowsInTable ==
    ASSUME NEW m, Good(m), NEW rows \in Seq(RowSet), max_size \in Nat
    PROVE  PutInTable(m, PutRows(m, "table", rows), Range(rows))
<1>1. Len(rows) \in Nat
  OBVIOUS
<1>2. PICK f : Fold(f, m, "table", rows, Len(rows)) /\ PutRows(m, "table", rows) = f[Len(rows)]
  BY <1>1, FoldIs
<1>3. f[0] = m /\ \A n \in 1..Len(rows) : f[n] = PutRow(f[n - 1], "table", rows[n])
  BY <1>1, <1>2 DEF Fold
<1> DEFINE Bad == {n \in 0..Len(rows) : ~PutInTable(m, f[n], First(rows, n))}
<1>4. Bad = {}
  <2> SUFFICES ASSUME Bad # {} PROVE FALSE
    OBVIOUS
  <2>1. PICK n \in Bad : \A k \in Bad : n <= k
    <3>1. Bad \in SUBSET Nat /\ Bad # {}
      BY <1>1
    <3> HIDE DEF Bad
    <3> QED BY ONLY <3>1, Least
  <2>2. n # 0
    <3>1. PutInTable(m, f[0], First(rows, 0))
      BY <1>3, FirstIs, PutNoneTable
    <3> QED BY <2>1, <3>1
  <2>3. n \in 1..Len(rows) /\ n - 1 \in 0..Len(rows) /\ n - 1 \notin Bad
    BY <1>1, <2>1, <2>2
  <2>4. PICK p, S, r : p = f[n - 1] /\ S = First(rows, n - 1) /\ r = rows[n]
    OBVIOUS
  <2>5. PutInTable(m, p, S)
    BY <2>3, <2>4
  <2>6. S \in SUBSET RowSet /\ r \in RowSet /\ First(rows, n) = S \cup {r}
    BY <2>3, <2>4, FirstIs
  <2>7. PutInTable(m, PutRow(p, "table", r), S \cup {r})
    BY <2>5, <2>6, PutOneTable
  <2>8. PutInTable(m, f[n], First(rows, n))
    BY <1>3, <2>3, <2>4, <2>6, <2>7
  <2> QED BY <2>1, <2>8
<1>5. PutInTable(m, f[Len(rows)], First(rows, Len(rows)))
  BY <1>1, <1>4
<1> QED BY <1>2, <1>5, FirstIs

LEMMA PutRowsInValues ==
    ASSUME NEW m, Good(m), NEW rows \in Seq(RowSet)
    PROVE  PutInValues(m, PutRows(m, "values", rows), Range(rows))
<1>1. Len(rows) \in Nat
  OBVIOUS
<1>2. PICK f : Fold(f, m, "values", rows, Len(rows)) /\ PutRows(m, "values", rows) = f[Len(rows)]
  BY <1>1, FoldIs
<1>3. f[0] = m /\ \A n \in 1..Len(rows) : f[n] = PutRow(f[n - 1], "values", rows[n])
  BY <1>1, <1>2 DEF Fold
<1> DEFINE Bad == {n \in 0..Len(rows) : ~PutInValues(m, f[n], First(rows, n))}
<1>4. Bad = {}
  <2> SUFFICES ASSUME Bad # {} PROVE FALSE
    OBVIOUS
  <2>1. PICK n \in Bad : \A k \in Bad : n <= k
    <3>1. Bad \in SUBSET Nat /\ Bad # {}
      BY <1>1
    <3> HIDE DEF Bad
    <3> QED BY ONLY <3>1, Least
  <2>2. n # 0
    <3>1. PutInValues(m, f[0], First(rows, 0))
      BY <1>3, FirstIs, PutNoneValues
    <3> QED BY <2>1, <3>1
  <2>3. n \in 1..Len(rows) /\ n - 1 \in 0..Len(rows) /\ n - 1 \notin Bad
    BY <1>1, <2>1, <2>2
  <2>4. PICK p, S, r : p = f[n - 1] /\ S = First(rows, n - 1) /\ r = rows[n]
    OBVIOUS
  <2>5. PutInValues(m, p, S)
    BY <2>3, <2>4
  <2>6. S \in SUBSET RowSet /\ r \in RowSet /\ First(rows, n) = S \cup {r}
    BY <2>3, <2>4, FirstIs
  <2>7. PutInValues(m, PutRow(p, "values", r), S \cup {r})
    BY <2>5, <2>6, PutOneValue
  <2>8. PutInValues(m, f[n], First(rows, n))
    BY <1>3, <2>3, <2>4, <2>6, <2>7
  <2> QED BY <2>1, <2>8
<1>5. PutInValues(m, f[Len(rows)], First(rows, Len(rows)))
  BY <1>1, <1>4
<1> QED BY <1>2, <1>5, FirstIs

Sieve(f, t, v, n) ==
    f = [i \in 0..n |->
            IF i = 0 THEN <<>>
            ELSE IF Seen(v, t.rows[i].owner) < t.rows[i].clock THEN Append(f[i - 1], t.rows[i])
            ELSE f[i - 1]]

LEMMA SieveIs ==
    ASSUME NEW t, NEW v, Size(t) \in Nat
    PROVE  \E f : Sieve(f, t, v, Size(t)) /\ PullRows(t, v) = f[Size(t)]
<1> DEFINE Bad == {n \in Nat : ~ \E f : Sieve(f, t, v, n)}
<1>1. Bad = {}
  <2> SUFFICES ASSUME Bad # {} PROVE FALSE
    OBVIOUS
  <2>1. PICK n \in Bad : \A k \in Bad : n <= k
    <3>1. Bad \in SUBSET Nat /\ Bad # {}
      OBVIOUS
    <3> HIDE DEF Bad
    <3> QED BY ONLY <3>1, Least
  <2>2. n # 0
    <3>1. Sieve([i \in 0..0 |-> <<>>], t, v, 0)
      BY DEF Sieve
    <3> QED BY <3>1
  <2>3. n - 1 \in Nat /\ n - 1 \notin Bad
    BY <2>1, <2>2
  <2>4. PICK f : Sieve(f, t, v, n - 1)
    BY <2>3
  <2>x. PICK x : x = IF Seen(v, t.rows[n].owner) < t.rows[n].clock THEN Append(f[n - 1], t.rows[n])
                     ELSE f[n - 1]
    OBVIOUS
  <2> DEFINE g == [i \in 0..n |-> IF i = n THEN x ELSE f[i]]
  <2>5. Sieve(g, t, v, n)
    <3>1. n \in Nat \ {0} /\ n - 1 \in 0..n /\ g[n - 1] = f[n - 1] /\ n \in 0..n /\ g[n] = x
      BY <2>1, <2>2
    <3>2. ASSUME NEW i \in 0..n
          PROVE g[i] = IF i = 0 THEN <<>>
                       ELSE IF Seen(v, t.rows[i].owner) < t.rows[i].clock THEN Append(g[i - 1], t.rows[i])
                       ELSE g[i - 1]
      <4>1. CASE i = n
        <5> HIDE DEF g
        <5> QED BY <2>2, <2>x, <3>1, <4>1
      <4>2. CASE i # n
        <5>1. i \in 0..(n - 1) /\ g[i] = f[i] /\ (i # 0 => i - 1 \in 0..(n - 1) /\ g[i - 1] = f[i - 1])
          BY <3>1, <4>2
        <5> HIDE DEF g
        <5> QED BY <2>4, <5>1 DEF Sieve
      <4> QED BY <4>1, <4>2
    <3> QED BY <3>2 DEF Sieve
  <2> QED BY <2>1, <2>5
<1>2. \E f : Sieve(f, t, v, Size(t))
  BY <1>1
<1> QED BY <1>2 DEF Sieve, PullRows

LEMMA RangeAppend ==
    ASSUME NEW S, NEW s \in Seq(S), NEW r \in S
    PROVE  Append(s, r) \in Seq(S) /\ \A q : q \in Range(Append(s, r)) <=> q \in Range(s) \/ q = r
<1>1. PICK a, n : a = Append(s, r) /\ n = Len(s)
  OBVIOUS
<1>2. a \in Seq(S) /\ n \in Nat /\ DOMAIN a = 1..n + 1 /\ DOMAIN s = 1..n /\ a[n + 1] = r
      /\ \A i \in 1..n : a[i] = s[i]
  BY <1>1
<1>3. \A i : i \in 1..n + 1 <=> i \in 1..n \/ i = n + 1
  BY <1>2
<1>4. \A q : q \in Range(a) <=> q \in Range(s) \/ q = r
  BY <1>2, <1>3 DEF Range
<1> QED BY <1>1, <1>2, <1>4

LEMMA PullRowsIs ==
    ASSUME NEW t, Sound(t), NEW v
    PROVE  /\ PullRows(t, v) \in Seq(RowSet)
           /\ \A r : r \in Range(PullRows(t, v)) <=> Lies(t, r) /\ Seen(v, r.owner) < r.clock
<1>0. Shaped(t)
  BY DEF Sound
<1>1. /\ Size(t) \in Nat
      /\ \A i \in 1..Size(t) : t.rows[i] \in RowSet /\ t.rows[i].key \in Ids(t) /\ t.rows[i] = RowOf(t, t.rows[i].key)
  <2>1. Size(t) \in Nat /\ \A i \in 1..Size(t) : t.rows[i] \in RowSet
    BY <1>0 DEF Shaped, Size
  <2> QED BY <1>0, <2>1, RowsRead
<1>2. PICK f : Sieve(f, t, v, Size(t)) /\ PullRows(t, v) = f[Size(t)]
  BY <1>1, SieveIs
<1> DEFINE Fits(i) == Seen(v, t.rows[i].owner) < t.rows[i].clock
           Through(s, n) == /\ s \in Seq(RowSet)
                            /\ \A r : r \in Range(s) <=> \E i \in 1..n : r = t.rows[i] /\ Fits(i)
<1>3. /\ f[0] = <<>>
      /\ \A n \in 1..Size(t) : f[n] = IF Fits(n) THEN Append(f[n - 1], t.rows[n]) ELSE f[n - 1]
  <2>1. PICK z : z = Size(t) /\ z \in Nat
    BY <1>1
  <2>2. Sieve(f, t, v, z)
    BY <1>2, <2>1
  <2>3. f[0] = <<>>
    BY <2>1, <2>2 DEF Sieve
  <2>4. ASSUME NEW n \in 1..z PROVE f[n] = IF Fits(n) THEN Append(f[n - 1], t.rows[n]) ELSE f[n - 1]
    <3>1. n \in 0..z /\ n # 0
      BY <2>1
    <3> QED BY <2>2, <3>1 DEF Sieve
  <2> QED BY <2>1, <2>3, <2>4
<1> HIDE DEF Fits
<1> DEFINE Bad == {n \in 0..Size(t) : ~Through(f[n], n)}
<1>4. Bad = {}
  <2> SUFFICES ASSUME Bad # {} PROVE FALSE
    OBVIOUS
  <2>1. PICK n \in Bad : \A k \in Bad : n <= k
    <3> HIDE DEF Through
    <3>1. Bad \in SUBSET Nat /\ Bad # {}
      BY <1>1
    <3> HIDE DEF Bad
    <3> QED BY ONLY <3>1, Least
  <2>2. n # 0
    <3>1. Range(<<>>) = {} /\ <<>> \in Seq(RowSet)
      BY DEF Range
    <3>2. Through(f[0], 0)
      BY <1>3, <3>1
    <3> QED BY <2>1, <3>2
  <2>3. n \in 1..Size(t) /\ n - 1 \in 0..Size(t) /\ n - 1 \notin Bad
    BY <1>1, <2>1, <2>2
  <2>4. PICK s, r : s = f[n - 1] /\ r = t.rows[n]
    OBVIOUS
  <2>5. s \in Seq(RowSet) /\ r \in RowSet /\ \A q : q \in Range(s) <=> \E i \in 1..(n - 1) : q = t.rows[i] /\ Fits(i)
    BY <1>1, <2>3, <2>4
  <2>6. Append(s, r) \in Seq(RowSet) /\ \A q : q \in Range(Append(s, r)) <=> q \in Range(s) \/ q = r
    BY <2>5, RangeAppend
  <2>7. \A i : i \in 1..n <=> i \in 1..(n - 1) \/ i = n
    BY <2>3
  <2>8. CASE Fits(n)
    <3>1. f[n] = Append(s, r)
      BY <1>3, <2>3, <2>4, <2>8
    <3>2. \A q : q \in Range(f[n]) <=> \E i \in 1..n : q = t.rows[i] /\ Fits(i)
      BY <2>4, <2>5, <2>6, <2>7, <2>8, <3>1
    <3> QED BY <2>1, <2>6, <3>1, <3>2
  <2>9. CASE ~Fits(n)
    <3>1. f[n] = s
      BY <1>3, <2>3, <2>4, <2>9
    <3>2. \A q : q \in Range(f[n]) <=> \E i \in 1..n : q = t.rows[i] /\ Fits(i)
      BY <2>5, <2>7, <2>9, <3>1
    <3> QED BY <2>1, <2>5, <3>1, <3>2
  <2> QED BY <2>8, <2>9
<1>5. Through(f[Size(t)], Size(t))
  <2> HIDE DEF Through
  <2>1. Size(t) \in 0..Size(t)
    BY <1>1
  <2> QED BY <1>4, <2>1
<1>6. ASSUME NEW r PROVE (\E i \in 1..Size(t) : r = t.rows[i] /\ Fits(i)) <=> Lies(t, r) /\ Seen(v, r.owner) < r.clock
  <2>1. ASSUME NEW i \in 1..Size(t), r = t.rows[i], Fits(i) PROVE Lies(t, r) /\ Seen(v, r.owner) < r.clock
    BY <1>1, <2>1 DEF Lies, Fits
  <2>2. ASSUME Lies(t, r), Seen(v, r.owner) < r.clock PROVE \E i \in 1..Size(t) : r = t.rows[i] /\ Fits(i)
    <3>1. t.index[r.key] \in 1..Size(t) /\ r = t.rows[t.index[r.key]]
      BY <1>0, <2>2 DEF Lies, RowOf, Ids, Shaped, IndexConsistent
    <3> QED BY <2>2, <3>1 DEF Fits
  <2> QED BY <2>1, <2>2
<1> QED BY <1>2, <1>5, <1>6
---------------------------------------------------------------------------
(* The invariant.                                                          *)

HasRows(m) ==
    \A x \in Known(m) : x \notin Ids(m.table) => m.train.step = "row" /\ x = m.train.id
AllKnown(m) ==
    /\ \A k \in Ids(m.table) : k \in Known(m)
    /\ m.train.step = "row" => m.train.id \in Known(m)

\* What holds of the state of each server.
Local(m) ==
    /\ Good(m) /\ HasRows(m)
    /\ user # "regression" => m.train = Idle
    /\ user = "recommender" => \A k \in DOMAIN m.orig : k \in Ids(m.table)
    /\ user = "regression" => /\ \A x \in Known(m) : x \in 1..calls
                              /\ m.train # Idle => m.train.id \in 1..calls
    /\ user = "regression" /\ max_size > 0 /\ ~Happened("split") => AllKnown(m)
    /\ user # "regression" /\ max_size > 0 /\ rounds = 0 /\ ~Happened("refused") =>
          \A k \in Ids(m.table) : k \in Known(m)

\* The mixer.
Framed ==
    /\ mixed \in [table : Seq(RowSet), values : Seq(RowSet)]
    /\ asked \in SUBSET (Server \X Tables)
    /\ phase \in {"idle", "get", "put"} /\ (rounds = 0 => phase = "idle")
    /\ phase = "idle" => asked = {}
    /\ user = "regression" => \A s \in Server : <<s, "table">> \in asked => <<s, "values">> \in asked

Steady ==
    /\ max_size \in Nat /\ calls \in Nat /\ rounds \in Nat
    /\ Framed
    /\ srv \in [Server -> States] /\ \A s \in Server : Local(srv[s])

\* A row lies somewhere: on a server or among what MIX gathered.
Abroad(r) ==
    \/ \E s \in Server : Lies(srv[s].table, r) \/ Lies(srv[s].values, r)
    \/ r \in Range(mixed.table) \/ r \in Range(mixed.values)

\* A version of this server is below its clock, and no row it made is newer than
\* the one put together here, wherever it lies.
Latest(s, id) ==
    \E c \in Nat :
        /\ RowOf(srv[s].table, id).clock >= c
        /\ \A r : Abroad(r) /\ r.owner = s /\ r.key = id =>
              r.clock <= c /\ (r.clock = c => r.value = srv[s].orig[id])
OrigRecent ==
    user = "recommender" /\ ~Happened("cleared") =>
        /\ \A r : Abroad(r) => \A s \in Server : r.owner = s => r.clock < srv[s].table.clock
        /\ \A s \in Server : \A id \in DOMAIN srv[s].orig : Latest(s, id)

\* Ids of the regression are numbers of calls, and a row is made of its id.
ByCall(r) == r.key \in 1..calls /\ r.owner = "" /\ r.value = r.key
RowsByCall == user = "regression" => \A r : Abroad(r) => ByCall(r)

Level(m) ==
    /\ \A k : k \in Ids(m.table) <=> k \in Ids(m.values)
    /\ m.table.clock = m.values.clock
    /\ Seen(m.vc, "") = Seen(m.vvc, "")
Ahead(m) ==
    /\ \A k : k \in Ids(m.table) <=> k \in Ids(m.values) \/ k = m.train.id
    /\ m.table.clock = m.values.clock + 1
    /\ RowOf(m.table, m.train.id).clock = m.values.clock
    /\ Seen(m.vc, "") = Seen(m.vvc, "")
Behind(m) ==
    /\ \A k : k \in Ids(m.table) <=>
                 k \in Ids(m.values) \/ \E r \in Range(mixed.values) : r.key = k
    /\ Reached(m.values.clock, Range(mixed.values), m.table.clock, 1)
    /\ Reached(Seen(m.vvc, ""), Range(mixed.values), Seen(m.vc, ""), 0)

ToPull(m, r) == Lies(m.table, r) /\ Seen(m.vc, "") < r.clock

OneRow == \A p, q : Abroad(p) /\ Abroad(q) /\ p.key = q.key => p = q
Apart ==
    \A s, o \in Server : s # o /\ srv[s].train # Idle => srv[s].train.id # srv[o].train.id
Paired(s) ==
    /\ srv[s].train.step = "row" => \A r : Abroad(r) => r.key # srv[s].train.id
    /\ srv[s].train.step = "value" => Ahead(srv[s]) /\ ~Between(s)
    /\ srv[s].train.step # "value" =>
          IF phase = "put" /\ Between(s) THEN Behind(srv[s]) ELSE Level(srv[s])
SameGathered ==
    /\ phase = "get" =>
          \A r : r \in Range(mixed.table) <=>
                    r \in Range(mixed.values) \/ \E s \in Server : Between(s) /\ ToPull(srv[s], r)
    /\ phase = "put" => \A r : r \in Range(mixed.table) <=> r \in Range(mixed.values)
InStep ==
    user = "regression" /\ max_size = 0 /\ ~Happened("split") =>
        OneRow /\ Apart /\ SameGathered /\ \A s \in Server : Paired(s)

ServedInv == Steady /\ OrigRecent /\ RowsByCall /\ InStep

---------------------------------------------------------------------------
(* What all steps have in common.                                          *)

Settled ==
    /\ user' = user /\ max_size' = max_size
    /\ calls' \in Nat /\ calls <= calls' /\ rounds' \in Nat
    /\ rounds' = 0 => rounds = 0
    /\ disturbed \subseteq disturbed'

LEMMA GoodStays == ASSUME max_size' = max_size, NEW m PROVE Good(m)' <=> Good(m)
BY DEF Good, Recalls, CountOf

LEMMA LocalStays ==
    ASSUME Settled, calls \in Nat, NEW m, Local(m)
    PROVE  Local(m)'
<1>1. Good(m)' <=> Good(m)
  BY GoodStays DEF Settled
<1>2. \A x : Happened(x) => Happened(x)'
  BY DEF Settled, Happened
<1>3. \A x : x \in 1..calls => x \in (1..calls)'
  BY DEF Settled
<1>4. HasRows(m)' <=> HasRows(m)
  BY DEF HasRows, Known, Ids
<1>5. AllKnown(m)' <=> AllKnown(m)
  BY DEF AllKnown, Known, Ids
<1> QED BY <1>1, <1>2, <1>3, <1>4, <1>5 DEF Settled, Local, Known, Ids, Idle

\* The state of one server changes.
Turned(s, u) == srv' = [srv EXCEPT ![s] = u]

LEMMA TurnedIs ==
    ASSUME Steady, NEW s \in Server, NEW u, Turned(s, u)
    PROVE  srv'[s] = u /\ (\A o \in Server : o # s => srv'[o] = srv[o])
BY DEF Steady, Turned

LEMMA SteadyTurn ==
    ASSUME Steady, Settled, NEW s \in Server, NEW u, Turned(s, u), Local(u)', Framed'
    PROVE  Steady'
<1>1. srv'[s] = u /\ (\A o \in Server : o # s => srv'[o] = srv[o])
  BY TurnedIs
<1>2. u \in States
  BY DEF Local, Good
<1>3. srv' \in [Server -> States]
  BY <1>2 DEF Steady, Turned
<1>4. ASSUME NEW o \in Server PROVE Local(srv[o])'
  <2>1. CASE o = s
    <3>1. (srv[o])' = u
      BY <1>1, <2>1
    <3> QED BY <3>1 DEF Local, Good, HasRows, AllKnown, Recalls, Known
  <2>2. CASE o # s
    <3>1. PICK m : m = srv[o]
      OBVIOUS
    <3>2. Local(m)'
      BY <3>1, LocalStays DEF Steady
    <3>3. (srv[o])' = m
      BY <1>1, <2>2, <3>1
    <3> QED BY <3>2, <3>3 DEF Local, Good, HasRows, AllKnown, Recalls, Known
  <2> QED BY <2>1, <2>2
<1> QED BY <1>3, <1>4 DEF Steady, Settled

LEMMA SteadyCall ==
    ASSUME Steady, Settled, NEW s \in Server, NEW u, Turned(s, u), Local(u)',
           UNCHANGED <<rounds, phase, asked, mixed>>
    PROVE  Steady'
<1>1. Framed'
  BY DEF Steady, Settled, Framed, Tables
<1> QED BY <1>1, SteadyTurn

\* The mixer alone steps.
LEMMA SteadySame ==
    ASSUME Steady, Settled, srv' = srv, Framed'
    PROVE  Steady'
<1>1. ASSUME NEW o \in Server PROVE Local(srv[o])'
  <2>1. PICK m : m = srv[o]
    OBVIOUS
  <2>2. Local(m)'
    BY <2>1, LocalStays DEF Steady
  <2>3. (srv[o])' = m
    BY <2>1
  <2> QED BY <2>2, <2>3 DEF Local, Good, HasRows, AllKnown, Recalls, Known
<1> QED BY <1>1 DEF Steady, Settled

LEMMA AbroadCall ==
    ASSUME Steady, NEW s \in Server, NEW u, Turned(s, u), mixed' = mixed, NEW new,
           \A r : Lies(u.table, r) \/ Lies(u.values, r) => Abroad(r) \/ r = new
    PROVE  \A r : Abroad(r)' => Abroad(r) \/ r = new
<1>1. srv'[s] = u /\ (\A o \in Server : o # s => srv'[o] = srv[o])
  BY TurnedIs
<1> TAKE r
<1> HAVE Abroad(r)'
<1>2. CASE r \in Range(mixed.table) \/ r \in Range(mixed.values)
  BY <1>2 DEF Abroad
<1>3. CASE \E o \in Server : Lies(srv'[o].table, r) \/ Lies(srv'[o].values, r)
  <2>1. PICK o \in Server : Lies(srv'[o].table, r) \/ Lies(srv'[o].values, r)
    BY <1>3
  <2>2. CASE o = s
    BY <1>1, <2>1, <2>2
  <2>3. CASE o # s
    BY <1>1, <2>1, <2>3 DEF Abroad
  <2> QED BY <2>2, <2>3
<1> QED BY <1>2, <1>3 DEF Abroad, Lies

LEMMA AbroadLess ==
    ASSUME Steady, NEW s \in Server, NEW u, Turned(s, u), mixed' = mixed,
           \A r : Lies(u.table, r) \/ Lies(u.values, r) => Abroad(r)
    PROVE  \A r : Abroad(r)' => Abroad(r)
<1> TAKE r
<1>1. PICK new : new = IF r = 0 THEN 1 ELSE 0
  OBVIOUS
<1>2. new # r
  BY <1>1
<1> QED BY <1>2, AbroadCall
---------------------------------------------------------------------------
(* The driver's and the recommender's calls.                               *)

SetsRow(n, u, g, id, o, v) == u = [n EXCEPT !.orig = g, !.table = Add(@, id, o, v)]

\* What that does.
Placed(n, u, g, id, r) ==
    /\ Good(u) /\ u.orig = g
    /\ u.values = n.values /\ u.vc = n.vc /\ u.vvc = n.vvc
    /\ u.lru = n.lru /\ u.sticky = n.sticky /\ u.train = n.train
    /\ \A k : k \in Ids(u.table) <=> k \in Ids(n.table) \/ k = id
    /\ u.table.clock = n.table.clock + 1
    /\ RowOf(u.table, id) = r
    /\ \A k \in Ids(n.table) : k # id => RowOf(u.table, k) = RowOf(n.table, k)
    /\ \A q : Lies(u.table, q) => Lies(n.table, q) \/ q = r

LEMMA RowSetIs ==
    ASSUME NEW n, Good(n), NEW id \in Int, NEW o \in Owners, NEW v \in Contents, NEW g \in OrigSet,
           NEW u, SetsRow(n, u, g, id, o, v), NEW r, r = Row(id, o, n.table.clock, v)
    PROVE  Placed(n, u, g, id, r)
<1>1. n \in States /\ Sound(n.table) /\ Sound(n.values)
  BY DEF Good
<1>2. PICK t : t = Add(n.table, id, o, v)
  OBVIOUS
<1>3. /\ Sound(t) /\ Ids(t) = Ids(n.table) \cup {id} /\ t.clock = n.table.clock + 1
      /\ RowOf(t, id) = Row(id, o, n.table.clock, v)
      /\ \A j \in Ids(n.table) \ {id} : RowOf(t, j) = RowOf(n.table, j)
  BY <1>1, <1>2, AddIs
<1>4. u = [n EXCEPT !.orig = g, !.table = t]
  BY <1>1, <1>2 DEF SetsRow, States
<1>5. /\ u.table = t /\ u.orig = g /\ u.values = n.values /\ u.vc = n.vc /\ u.vvc = n.vvc
      /\ u.lru = n.lru /\ u.sticky = n.sticky /\ u.train = n.train
  BY <1>1, <1>4 DEF States
<1>6. t \in TableSet
  BY <1>3 DEF Sound, Shaped, TableSet
<1>7. u \in States
  BY <1>1, <1>4, <1>6 DEF States
<1>8. Recalls(u)
  <2>1. Recalls(n)
    BY DEF Good
  <2> QED BY <1>5, <2>1 DEF Recalls, CountOf
<1>9. Good(u)
  BY <1>1, <1>3, <1>5, <1>7, <1>8 DEF Good
<1>10. \A k : k \in Ids(t) <=> k \in Ids(n.table) \/ k = id
  BY <1>3
<1>11. ASSUME NEW q, Lies(t, q) PROVE Lies(n.table, q) \/ q = Row(id, o, n.table.clock, v)
  <2>1. q.key \in Ids(t) /\ RowOf(t, q.key) = q
    BY <1>11 DEF Lies
  <2>2. CASE q.key = id
    BY <1>3, <2>1, <2>2
  <2>3. CASE q.key # id
    BY <1>3, <1>10, <2>1, <2>3 DEF Lies
  <2> QED BY <2>2, <2>3
<1> QED BY <1>3, <1>5, <1>9, <1>10, <1>11 DEF Placed

LEMMA WithIs ==
    ASSUME NEW f, NEW k, NEW v
    PROVE  /\ DOMAIN With(f, k, v) = DOMAIN f \cup {k}
           /\ With(f, k, v)[k] = v
           /\ \A x \in DOMAIN f : x # k => With(f, k, v)[x] = f[x]
BY DEF With

LEMMA PartsWith ==
    ASSUME NEW p \in OrigRows, NEW c \in Column, NEW n \in Nat
    PROVE  With(p, c, n) \in OrigRows
<1>1. PICK D \in SUBSET Column : p \in [D -> Nat]
  BY DEF OrigRows
<1>2. With(p, c, n) \in [D \cup {c} -> Nat]
  BY <1>1 DEF With
<1>3. D \cup {c} \in SUBSET Column
  BY <1>1
<1> QED BY <1>2, <1>3 DEF OrigRows

LEMMA OrigWith ==
    ASSUME NEW g \in OrigSet, NEW i \in Id, NEW p \in OrigRows
    PROVE  With(g, i, p) \in OrigSet
<1>1. PICK D \in SUBSET Id : g \in [D -> OrigRows]
  BY DEF OrigSet
<1>2. With(g, i, p) \in [D \cup {i} -> OrigRows]
  BY <1>1 DEF With
<1>3. D \cup {i} \in SUBSET Id
  BY <1>1
<1> QED BY <1>2, <1>3 DEF OrigSet

LEMMA OrigPart ==
    ASSUME NEW g \in OrigSet, NEW i
    PROVE  (IF i \in DOMAIN g THEN g[i] ELSE None) \in OrigRows
<1>1. PICK D \in SUBSET Id : g \in [D -> OrigRows]
  BY DEF OrigSet
<1>2. None \in [{} -> Nat]
  BY DEF None
<1>3. None \in OrigRows
  BY <1>2 DEF OrigRows
<1> QED BY <1>1, <1>3

\* A row is set under an id that touch has seen.
RowPut(m, n, u, g, id, r, gone) ==
    /\ Good(u) /\ HasRows(u) /\ u.train = Idle /\ u.orig = g
    /\ m.table.clock <= n.table.clock /\ u.table.clock = n.table.clock + 1
    /\ RowOf(u.table, id) = r
    /\ \A k \in Ids(m.table) : k \notin gone /\ k # id =>
              k \in Ids(u.table) /\ RowOf(u.table, k) = RowOf(m.table, k)
    /\ id \in Ids(u.table)
    /\ max_size > 0 /\ can_touch(m, id) /\ (\A k \in Ids(m.table) : k \in Known(m)) =>
              \A k \in Ids(u.table) : k \in Known(u)
    /\ user # "regression" => u.values = m.values
    /\ \A q : Lies(u.table, q) => Lies(m.table, q) \/ q = r

LEMMA SetCall ==
    ASSUME NEW m, Good(m), HasRows(m), m.train = Idle, NEW id \in Int, max_size \in Nat,
           NEW n, NEW gone, Touched(m, n, id, gone),
           NEW g \in OrigSet, NEW o \in Owners, NEW v \in Contents, NEW u, SetsRow(n, u, g, id, o, v),
           NEW r, r = Row(id, o, n.table.clock, v)
    PROVE  RowPut(m, n, u, g, id, r, gone)
<1>1. /\ Good(n) /\ Thins(m.table, n.table, gone) /\ n.train = m.train
      /\ user # "regression" => n.values = m.values
      /\ \A x \in Known(n) : (x \in Known(m) /\ x \notin gone) \/ x = id
      /\ \A x \in Known(m) : x \notin gone => x \in Known(n)
      /\ max_size > 0 /\ can_touch(m, id) => id \in Known(n)
  BY DEF Touched, Loses
<1>p. Placed(n, u, g, id, r)
  <2>1. Good(n)
    BY <1>1
  <2> QED BY <2>1, RowSetIs
<1>2. /\ Good(u) /\ u.orig = g /\ u.values = n.values
      /\ u.lru = n.lru /\ u.sticky = n.sticky /\ u.train = n.train
      /\ \A k : k \in Ids(u.table) <=> k \in Ids(n.table) \/ k = id
      /\ u.table.clock = n.table.clock + 1
      /\ RowOf(u.table, id) = r
      /\ \A k \in Ids(n.table) : k # id => RowOf(u.table, k) = RowOf(n.table, k)
      /\ \A q : Lies(u.table, q) => Lies(n.table, q) \/ q = r
  BY <1>p DEF Placed
<1>3. Known(u) = Known(n)
  BY <1>2 DEF Known
<1>4. /\ \A k : k \in Ids(n.table) <=> k \in Ids(m.table) /\ k \notin gone
      /\ \A k \in Ids(n.table) : RowOf(n.table, k) = RowOf(m.table, k)
      /\ m.table.clock <= n.table.clock
  BY <1>1 DEF Thins
<1>5. \A x \in Known(m) : x \in Ids(m.table)
  BY DEF HasRows, Idle
<1>6. HasRows(u)
  BY <1>1, <1>2, <1>3, <1>4, <1>5 DEF HasRows
<1>7. \A q : Lies(n.table, q) => Lies(m.table, q)
  BY <1>4 DEF Lies
<1>8. max_size > 0 /\ can_touch(m, id) /\ (\A k \in Ids(m.table) : k \in Known(m)) =>
          \A k \in Ids(u.table) : k \in Known(u)
  BY <1>1, <1>2, <1>3, <1>4
<1> QED BY <1>1, <1>2, <1>4, <1>6, <1>7, <1>8 DEF RowPut

\* The local part for users other than the regression.
LEMMA LocalCall ==
    ASSUME Settled, user # "regression", NEW u, Good(u), HasRows(u), u.train = Idle,
           user = "recommender" => \A k \in DOMAIN u.orig : k \in Ids(u.table),
           max_size > 0 /\ rounds' = 0 /\ ~Happened("refused")' => \A k \in Ids(u.table) : k \in Known(u)
    PROVE  Local(u)'
<1>1. Good(u)'
  BY GoodStays DEF Settled
<1>2. HasRows(u)'
  BY DEF HasRows, Known, Ids
<1> QED BY <1>1, <1>2 DEF Settled, Local, Known, Ids, Idle

LEMMA NotRegression ==
    ASSUME user # "regression", user' = user
    PROVE  RowsByCall' /\ InStep'
BY DEF RowsByCall, InStep

\* driver_set_row
LEMMA DriverStep ==
    ASSUME NeighborAssumption, ServedInv, NEW s \in Server, NEW id \in Id, driver_set_row(s, id)
    PROVE  ServedInv'
<1>1. PICK m, n, u : /\ m = srv[s] /\ n = touch(m, id)
                     /\ u = [n EXCEPT !.table = Add(@, id, owner(s), calls + 1)]
  OBVIOUS
<1>2. /\ user = "driver" /\ calls' = calls + 1 /\ Turned(s, u)
      /\ UNCHANGED <<user, max_size, rounds, phase, asked, mixed>>
      /\ disturbed' = IF can_touch(m, id) THEN disturbed ELSE disturbed \cup {<<"refused", s>>}
  BY <1>1 DEF driver_set_row, Call, Turned
<1>3. Steady /\ Local(m)
  BY <1>1 DEF ServedInv, Steady
<1>4. Settled
  BY <1>2, <1>3 DEF Settled, Steady
<1>5. /\ Good(m) /\ HasRows(m) /\ m.train = Idle /\ id \in Int /\ max_size \in Nat
      /\ owner(s) \in Owners /\ calls + 1 \in Contents
      /\ max_size > 0 /\ rounds = 0 /\ ~Happened("refused") => \A k \in Ids(m.table) : k \in Known(m)
  <2>1. Good(m) /\ HasRows(m) /\ m.train = Idle
    BY <1>2, <1>3 DEF Local
  <2>2. id \in Int
    BY DEF NeighborAssumption
  <2>3. max_size \in Nat /\ calls \in Nat
    BY <1>3 DEF Steady
  <2>4. owner(s) \in Owners
    BY DEF owner, Owners
  <2>5. calls + 1 \in Contents
    BY <2>3 DEF Contents
  <2>6. max_size > 0 /\ rounds = 0 /\ ~Happened("refused") => \A k \in Ids(m.table) : k \in Known(m)
    BY <1>2, <1>3 DEF Local
  <2> QED BY <2>1, <2>2, <2>3, <2>4, <2>5, <2>6
<1>6. PICK gone : Touched(m, n, id, gone)
  BY <1>1, <1>5, TouchIs
<1>7. Good(n)
  BY <1>6 DEF Touched
<1>8. PICK g, o, v, r : g = n.orig /\ o = owner(s) /\ v = calls + 1 /\ r = Row(id, o, n.table.clock, v)
  OBVIOUS
<1>9. g \in OrigSet /\ o \in Owners /\ v \in Contents /\ n \in States
  BY <1>5, <1>7, <1>8 DEF Good, States
<1>10. SetsRow(n, u, g, id, o, v)
  BY <1>1, <1>8, <1>9 DEF SetsRow, States
<1>p. RowPut(m, n, u, g, id, r, gone)
  BY <1>5, <1>6, <1>8, <1>9, <1>10, SetCall
<1>11. /\ Good(u) /\ HasRows(u) /\ u.train = Idle
       /\ max_size > 0 /\ can_touch(m, id) /\ (\A k \in Ids(m.table) : k \in Known(m)) =>
             \A k \in Ids(u.table) : k \in Known(u)
  BY <1>p DEF RowPut
<1>12. ASSUME max_size > 0, rounds' = 0, ~Happened("refused")' PROVE \A k \in Ids(u.table) : k \in Known(u)
  <2>1. can_touch(m, id)
    BY <1>2, <1>12 DEF Happened
  <2>2. ~Happened("refused") /\ rounds = 0
    BY <1>2, <1>12 DEF Happened
  <2> QED BY <1>5, <1>11, <1>12, <2>1, <2>2
<1>13. Local(u)'
  BY <1>2, <1>4, <1>11, <1>12, LocalCall
<1>14. Steady'
  BY <1>2, <1>3, <1>4, <1>13, SteadyCall
<1>15. OrigRecent'
  BY <1>2 DEF OrigRecent
<1> QED BY <1>2, <1>14, <1>15, NotRegression DEF ServedInv
LEMMA AbroadIs ==
    ASSUME Steady, NEW r, Abroad(r)
    PROVE  r \in RowSet /\ r.clock \in Nat /\ r.key \in Int
<1>1. CASE \E s \in Server : Lies(srv[s].table, r) \/ Lies(srv[s].values, r)
  <2>1. PICK s \in Server : Lies(srv[s].table, r) \/ Lies(srv[s].values, r)
    BY <1>1
  <2>2. Shaped(srv[s].table) /\ Shaped(srv[s].values)
    BY DEF Steady, Local, Good, Sound
  <2>3. r \in RowSet
    BY <2>1, <2>2, RowsRead DEF Lies
  <2> QED BY <2>3 DEF RowSet
<1>2. CASE r \in Range(mixed.table) \/ r \in Range(mixed.values)
  <2>1. r \in RowSet
    BY <1>2 DEF Steady, Framed, Range
  <2> QED BY <2>1 DEF RowSet
<1> QED BY <1>1, <1>2 DEF Abroad

\* No row is new, and what was put together here stays in its row or is replaced
\* by a newer one.
LEMMA OrigKept ==
    ASSUME Steady, OrigRecent, user' = user, disturbed \subseteq disturbed',
           NEW s \in Server, NEW u, Turned(s, u), Good(u),
           \A r : Abroad(r)' => Abroad(r),
           srv[s].table.clock <= u.table.clock,
           \A k \in DOMAIN u.orig : /\ k \in DOMAIN srv[s].orig /\ u.orig[k] = srv[s].orig[k]
                                    /\ k \in Ids(u.table)
                                    /\ RowOf(u.table, k).clock >= RowOf(srv[s].table, k).clock
    PROVE  OrigRecent'
<1>1. srv'[s] = u /\ (\A o \in Server : o # s => srv'[o] = srv[o])
  BY TurnedIs
<1> SUFFICES ASSUME user = "recommender", ~Happened("cleared")
             PROVE  /\ \A r : Abroad(r)' => \A o \in Server : r.owner = o => r.clock < srv'[o].table.clock
                    /\ \A o \in Server : \A id \in DOMAIN srv'[o].orig : Latest(o, id)'
  BY DEF OrigRecent, Happened
<1>2. /\ \A r : Abroad(r) => \A o \in Server : r.owner = o => r.clock < srv[o].table.clock
      /\ \A o \in Server : \A id \in DOMAIN srv[o].orig : Latest(o, id)
  BY DEF OrigRecent
<1>3. PICK m : m = srv[s]
  OBVIOUS
<1>4. Good(m) /\ \A k \in DOMAIN m.orig : k \in Ids(m.table)
  BY <1>3 DEF Steady, Local
<1>5. m.table.clock \in Nat /\ u.table.clock \in Nat
  BY <1>4, GoodClocks
<1>6. ASSUME NEW r, Abroad(r)', NEW o \in Server, r.owner = o PROVE r.clock < srv'[o].table.clock
  <2>1. Abroad(r) /\ r.clock \in Nat /\ r.clock < srv[o].table.clock
    BY <1>2, <1>6, AbroadIs
  <2>2. CASE o = s
    BY <1>1, <1>3, <1>5, <2>1, <2>2
  <2>3. CASE o # s
    BY <1>1, <2>1, <2>3
  <2> QED BY <2>2, <2>3
<1>7. ASSUME NEW o \in Server, NEW id \in DOMAIN srv'[o].orig PROVE Latest(o, id)'
  <2>1. CASE o # s
    <3>1. PICK c \in Nat :
             /\ RowOf(srv[o].table, id).clock >= c
             /\ \A r : Abroad(r) /\ r.owner = o /\ r.key = id => r.clock <= c /\ (r.clock = c => r.value = srv[o].orig[id])
      BY <1>1, <1>2, <1>7, <2>1 DEF Latest
    <3>2. (srv[o])' = srv[o]
      BY <1>1, <2>1
    <3>3. RowOf((srv[o])'.table, id) = RowOf(srv[o].table, id)
      BY <3>2
    <3> QED BY <3>1, <3>2, <3>3 DEF Latest, RowOf
  <2>2. CASE o = s
    <3>1. id \in DOMAIN u.orig
      BY <1>1, <1>7, <2>2
    <3>2. PICK c \in Nat :
             /\ RowOf(m.table, id).clock >= c
             /\ \A r : Abroad(r) /\ r.owner = s /\ r.key = id => r.clock <= c /\ (r.clock = c => r.value = m.orig[id])
      BY <1>2, <1>3, <3>1 DEF Latest
    <3>3. RowOf(u.table, id).clock >= c
      <4>1. id \in Ids(m.table) /\ id \in Ids(u.table) /\ RowOf(u.table, id).clock >= RowOf(m.table, id).clock
        BY <1>3, <1>4, <3>1
      <4>2. Shaped(m.table) /\ Shaped(u.table)
        BY <1>4 DEF Good, Sound
      <4>3. RowOf(m.table, id).clock \in Nat /\ RowOf(u.table, id).clock \in Nat
        BY <4>1, <4>2, RowsRead DEF RowSet
      <4> QED BY <3>2, <4>1, <4>3
    <3>4. (srv[o])' = u
      BY <1>1, <2>2
    <3>5. u.orig[id] = m.orig[id]
      BY <1>3, <3>1
    <3> QED BY <2>2, <3>2, <3>3, <3>4, <3>5 DEF Latest, RowOf
  <2> QED BY <2>1, <2>2
<1> QED BY <1>6, <1>7

\* One new row, put together here.
LEMMA OrigPut ==
    ASSUME Steady, OrigRecent, user' = user, disturbed \subseteq disturbed',
           NEW s \in Server, NEW u, Turned(s, u), NEW new, NEW id,
           \A r : Abroad(r)' => Abroad(r) \/ r = new,
           u.table.clock \in Nat, new.clock \in Nat,
           srv[s].table.clock <= new.clock, new.clock < u.table.clock,
           new.owner = s, new.key = id, RowOf(u.table, id) = new, new.value = u.orig[id],
           \A k \in DOMAIN u.orig : k # id =>
              k \in DOMAIN srv[s].orig /\ u.orig[k] = srv[s].orig[k] /\ RowOf(u.table, k) = RowOf(srv[s].table, k)
    PROVE  OrigRecent'
<1>1. srv'[s] = u /\ (\A o \in Server : o # s => srv'[o] = srv[o])
  BY TurnedIs
<1> SUFFICES ASSUME user = "recommender", ~Happened("cleared")
             PROVE  /\ \A r : Abroad(r)' => \A o \in Server : r.owner = o => r.clock < srv'[o].table.clock
                    /\ \A o \in Server : \A k \in DOMAIN srv'[o].orig : Latest(o, k)'
  BY DEF OrigRecent, Happened
<1>2. /\ \A r : Abroad(r) => \A o \in Server : r.owner = o => r.clock < srv[o].table.clock
      /\ \A o \in Server : \A k \in DOMAIN srv[o].orig : Latest(o, k)
  BY DEF OrigRecent
<1>3. PICK m : m = srv[s]
  OBVIOUS
<1>4. Good(m)
  BY <1>3 DEF Steady, Local
<1>5. m.table.clock \in Nat
  BY <1>4, GoodClocks
<1>6. ASSUME NEW r, Abroad(r)', NEW o \in Server, r.owner = o PROVE r.clock < srv'[o].table.clock
  <2>1. CASE r = new
    BY <1>1, <1>6, <2>1
  <2>2. CASE Abroad(r)
    <3>1. r.clock \in Nat /\ r.clock < srv[o].table.clock
      BY <1>2, <1>6, <2>2, AbroadIs
    <3>2. CASE o = s
      BY <1>1, <1>3, <1>5, <3>1, <3>2
    <3>3. CASE o # s
      BY <1>1, <3>1, <3>3
    <3> QED BY <3>2, <3>3
  <2> QED BY <1>6, <2>1, <2>2
<1>7. ASSUME NEW o \in Server, NEW k \in DOMAIN srv'[o].orig PROVE Latest(o, k)'
  <2>1. CASE o # s
    <3>1. PICK c \in Nat :
             /\ RowOf(srv[o].table, k).clock >= c
             /\ \A r : Abroad(r) /\ r.owner = o /\ r.key = k => r.clock <= c /\ (r.clock = c => r.value = srv[o].orig[k])
      BY <1>1, <1>2, <1>7, <2>1 DEF Latest
    <3>2. (srv[o])' = srv[o]
      BY <1>1, <2>1
    <3>3. RowOf((srv[o])'.table, k) = RowOf(srv[o].table, k)
      BY <3>2
    <3>4. \A r : Abroad(r)' /\ r.owner = o /\ r.key = k => Abroad(r)
      BY <2>1
    <3> QED BY <3>1, <3>2, <3>3, <3>4 DEF Latest, RowOf
  <2>2. CASE o = s /\ k # id
    <3>1. k \in DOMAIN u.orig
      BY <1>1, <1>7, <2>2
    <3>2. PICK c \in Nat :
             /\ RowOf(m.table, k).clock >= c
             /\ \A r : Abroad(r) /\ r.owner = s /\ r.key = k => r.clock <= c /\ (r.clock = c => r.value = m.orig[k])
      BY <1>2, <1>3, <2>2, <3>1 DEF Latest
    <3>3. RowOf(u.table, k).clock >= c
      BY <1>3, <2>2, <3>1, <3>2
    <3>4. (srv[o])' = u
      BY <1>1, <2>2
    <3>5. u.orig[k] = m.orig[k]
      BY <1>3, <2>2, <3>1
    <3>6. \A r : Abroad(r)' /\ r.owner = s /\ r.key = k => Abroad(r)
      BY <2>2
    <3> QED BY <2>2, <3>2, <3>3, <3>4, <3>5, <3>6 DEF Latest, RowOf
  <2>3. CASE o = s /\ k = id
    <3>1. PICK c : c = new.clock
      OBVIOUS
    <3>2. c \in Nat /\ RowOf(u.table, k).clock >= c
      BY <2>3, <3>1
    <3>3. ASSUME NEW r, Abroad(r)', r.owner = s, r.key = k
          PROVE  r.clock <= c /\ (r.clock = c => r.value = u.orig[k])
      <4>1. CASE r = new
        BY <2>3, <3>1, <4>1
      <4>2. CASE Abroad(r)
        <5>1. r.clock \in Nat /\ r.clock < m.table.clock
          BY <1>2, <1>3, <3>3, <4>2, AbroadIs
        <5> QED BY <1>3, <1>5, <3>1, <3>2, <5>1
      <4> QED BY <3>3, <4>1, <4>2
    <3>4. (srv[o])' = u
      BY <1>1, <2>3
    <3> QED BY <2>3, <3>2, <3>3, <3>4 DEF Latest, RowOf
  <2> QED BY <2>1, <2>2, <2>3
<1> QED BY <1>6, <1>7
\* update_row
LEMMA UpdateRowStep ==
    ASSUME NeighborAssumption, ServedInv, NEW s \in Server, NEW id \in Id, NEW c \in Column, update_row(s, id, c)
    PROVE  ServedInv'
<1>1. PICK m, n : m = srv[s] /\ n = touch(m, id)
  OBVIOUS
<1>2. PICK v, g : /\ v = With(IF id \in DOMAIN n.orig THEN n.orig[id] ELSE None, c, calls + 1)
                  /\ g = With(n.orig, id, v)
  OBVIOUS
<1>3. PICK u : u = [n EXCEPT !.orig = With(@, id, v), !.table = Add(@, id, owner(s), v)]
  OBVIOUS
<1>4. /\ user = "recommender" /\ can_touch(m, id) /\ calls' = calls + 1 /\ Turned(s, u)
      /\ UNCHANGED <<user, max_size, rounds, phase, asked, mixed, disturbed>>
  BY <1>1, <1>2, <1>3 DEF update_row, Call, Turned
<1>5. Steady /\ Local(m) /\ OrigRecent
  BY <1>1 DEF ServedInv, Steady
<1>6. Settled
  BY <1>4, <1>5 DEF Settled, Steady
<1>7. /\ Good(m) /\ HasRows(m) /\ m.train = Idle /\ id \in Int /\ max_size \in Nat
      /\ \A k \in DOMAIN m.orig : k \in Ids(m.table)
      /\ max_size > 0 /\ rounds = 0 /\ ~Happened("refused") => \A k \in Ids(m.table) : k \in Known(m)
  <2>1. Good(m) /\ HasRows(m) /\ m.train = Idle /\ \A k \in DOMAIN m.orig : k \in Ids(m.table)
    BY <1>4, <1>5 DEF Local
  <2>2. id \in Int
    BY DEF NeighborAssumption
  <2>3. max_size \in Nat
    BY <1>5 DEF Steady
  <2>4. max_size > 0 /\ rounds = 0 /\ ~Happened("refused") => \A k \in Ids(m.table) : k \in Known(m)
    BY <1>4, <1>5 DEF Local
  <2> QED BY <2>1, <2>2, <2>3, <2>4
<1>8. PICK gone : Touched(m, n, id, gone)
  BY <1>1, <1>7, TouchIs
<1>9. Good(n) /\ n \in States /\ n.orig \in OrigSet /\ n.table.clock \in Nat
  BY <1>8, GoodClocks DEF Touched, Good, States
<1>10. v \in OrigRows
  <2>1. PICK p, k : p = (IF id \in DOMAIN n.orig THEN n.orig[id] ELSE None) /\ k = calls + 1
    OBVIOUS
  <2>2. p \in OrigRows
    BY <1>9, <2>1, OrigPart
  <2>3. k \in Nat
    BY <1>5, <2>1 DEF Steady
  <2>4. v = With(p, c, k)
    BY <1>2, <2>1
  <2> QED BY <2>2, <2>3, <2>4, PartsWith
<1>11. g \in OrigSet /\ v \in Contents
  BY <1>2, <1>9, <1>10, OrigWith DEF Contents, OrigRows
<1>12. PICK o, r : o = s /\ r = Row(id, o, n.table.clock, v)
  OBVIOUS
<1>13. o \in Owners /\ owner(s) = o
  BY <1>4, <1>12 DEF Owners, owner
<1>14. SetsRow(n, u, g, id, o, v)
  BY <1>2, <1>3, <1>9, <1>13 DEF SetsRow, States
<1>p. RowPut(m, n, u, g, id, r, gone)
  BY <1>7, <1>8, <1>11, <1>12, <1>13, <1>14, SetCall
<1>15. /\ Good(u) /\ HasRows(u) /\ u.train = Idle /\ u.orig = g
       /\ m.table.clock <= n.table.clock /\ u.table.clock = n.table.clock + 1
       /\ RowOf(u.table, id) = r /\ id \in Ids(u.table)
       /\ \A k \in Ids(m.table) : k \notin gone /\ k # id =>
             k \in Ids(u.table) /\ RowOf(u.table, k) = RowOf(m.table, k)
       /\ max_size > 0 /\ can_touch(m, id) /\ (\A k \in Ids(m.table) : k \in Known(m)) =>
             \A k \in Ids(u.table) : k \in Known(u)
       /\ user # "regression" => u.values = m.values
       /\ \A q : Lies(u.table, q) => Lies(m.table, q) \/ q = r
  BY <1>p DEF RowPut
<1>16. /\ DOMAIN g = DOMAIN n.orig \cup {id} /\ g[id] = v
       /\ \A k \in DOMAIN n.orig : k # id => g[k] = n.orig[k]
  BY <1>2, WithIs
<1>17. \A k \in DOMAIN n.orig : k \in DOMAIN m.orig /\ k \notin gone /\ n.orig[k] = m.orig[k]
  BY <1>4, <1>8 DEF Touched, Loses
<1>18. \A k \in DOMAIN u.orig : k \in Ids(u.table)
  BY <1>7, <1>15, <1>16, <1>17
<1>19. ASSUME max_size > 0, rounds' = 0, ~Happened("refused")' PROVE \A k \in Ids(u.table) : k \in Known(u)
  <2>1. ~Happened("refused") /\ rounds = 0
    BY <1>4, <1>19 DEF Happened
  <2> QED BY <1>4, <1>7, <1>15, <1>19, <2>1
<1>20. user # "regression"
  BY <1>4
<1>21. Local(u)'
  BY <1>6, <1>15, <1>18, <1>19, <1>20, LocalCall
<1>22. Steady'
  BY <1>4, <1>5, <1>6, <1>21, SteadyCall
<1>23. \A q : Abroad(q)' => Abroad(q) \/ q = r
  <2>1. \A q : Lies(u.table, q) \/ Lies(u.values, q) => Abroad(q) \/ q = r
    BY <1>1, <1>15, <1>20 DEF Abroad
  <2> QED BY <1>4, <1>5, <2>1, AbroadCall
<1>24. /\ r.owner = s /\ r.key = id /\ r.clock = n.table.clock /\ r.value = v
  BY <1>12 DEF Row
<1>25. OrigRecent'
  <2>1. srv[s].table.clock <= r.clock /\ r.clock < u.table.clock /\ u.table.clock \in Nat /\ r.clock \in Nat
    BY <1>1, <1>9, <1>15, <1>24
  <2>2. \A k \in DOMAIN u.orig : k # id =>
           k \in DOMAIN srv[s].orig /\ u.orig[k] = srv[s].orig[k] /\ RowOf(u.table, k) = RowOf(srv[s].table, k)
    BY <1>1, <1>7, <1>15, <1>16, <1>17
  <2>3. user' = user /\ disturbed \subseteq disturbed' /\ Turned(s, u)
    BY <1>4
  <2>4. RowOf(u.table, id) = r /\ r.value = u.orig[id]
    BY <1>15, <1>16, <1>24
  <2> QED BY <1>5, <1>23, <1>24, <2>1, <2>2, <2>3, <2>4, OrigPut
<1> QED BY <1>4, <1>20, <1>22, <1>25, NotRegression DEF ServedInv

\* clear_row
LEMMA ClearRowStep ==
    ASSUME NeighborAssumption, ServedInv, NEW s \in Server, NEW id \in Id, clear_row(s, id)
    PROVE  ServedInv'
<1>1. PICK m, n, u : m = srv[s] /\ n = unlearn(m, id) /\ u = forget(n, id)
  OBVIOUS
<1>2. /\ user = "recommender" /\ calls' = calls + 1 /\ Turned(s, u) /\ user # "regression"
      /\ UNCHANGED <<user, max_size, rounds, phase, asked, mixed, disturbed>>
  BY <1>1 DEF clear_row, Call, Turned
<1>3. Steady /\ Local(m) /\ OrigRecent
  BY <1>1 DEF ServedInv, Steady
<1>4. Settled
  BY <1>2, <1>3 DEF Settled, Steady
<1>5. /\ Good(m) /\ HasRows(m) /\ m.train = Idle /\ max_size \in Nat
      /\ \A k \in DOMAIN m.orig : k \in Ids(m.table)
      /\ max_size > 0 /\ rounds = 0 /\ ~Happened("refused") => \A k \in Ids(m.table) : k \in Known(m)
  BY <1>2, <1>3 DEF Local, Steady
<1>6. Good(n) /\ Loses(m, n, {id}) /\ n.lru = m.lru /\ n.sticky = m.sticky
  BY <1>1, <1>5, UnlearnIs
<1>7. Known(n) = Known(m)
  BY <1>6 DEF Known
<1>8. /\ Good(u) /\ Loses(m, u, {id})
      /\ \A x : x \in Known(u) <=> x \in Known(m) /\ x # id
  BY <1>1, <1>5, <1>6, <1>7, ForgetIs
<1>9. /\ Thins(m.table, u.table, {id}) /\ u.values = m.values /\ u.train = m.train
      /\ \A k \in DOMAIN u.orig : k \in DOMAIN m.orig /\ k # id /\ u.orig[k] = m.orig[k]
  BY <1>2, <1>8 DEF Loses
<1>10. /\ m.table.clock <= u.table.clock
       /\ \A k : k \in Ids(u.table) <=> k \in Ids(m.table) /\ k # id
       /\ \A k \in Ids(u.table) : RowOf(u.table, k) = RowOf(m.table, k)
  BY <1>9 DEF Thins
<1>11. HasRows(u) /\ u.train = Idle
  BY <1>5, <1>8, <1>9, <1>10 DEF HasRows, Idle
<1>12. \A k \in DOMAIN u.orig : k \in Ids(u.table)
  BY <1>5, <1>9, <1>10
<1>13. ASSUME max_size > 0, rounds' = 0, ~Happened("refused")' PROVE \A k \in Ids(u.table) : k \in Known(u)
  <2>1. ~Happened("refused") /\ rounds = 0
    BY <1>2, <1>13 DEF Happened
  <2> QED BY <1>5, <1>8, <1>10, <1>13, <2>1
<1>14. Local(u)'
  BY <1>2, <1>4, <1>8, <1>11, <1>12, <1>13, LocalCall
<1>15. Steady'
  BY <1>2, <1>3, <1>4, <1>14, SteadyCall
<1>16. \A q : Abroad(q)' => Abroad(q)
  <2>1. \A q : Lies(u.table, q) \/ Lies(u.values, q) => Abroad(q)
    BY <1>1, <1>9, <1>10 DEF Abroad, Lies
  <2> QED BY <1>2, <1>3, <2>1, AbroadLess
<1>17. OrigRecent'
  <2>1. ASSUME NEW k \in DOMAIN u.orig
        PROVE  /\ k \in DOMAIN srv[s].orig /\ u.orig[k] = srv[s].orig[k] /\ k \in Ids(u.table)
               /\ RowOf(u.table, k).clock >= RowOf(srv[s].table, k).clock
    <3>1. k \in Ids(u.table) /\ RowOf(u.table, k) = RowOf(m.table, k) /\ Shaped(u.table)
      BY <1>8, <1>10, <1>12 DEF Good, Sound
    <3>2. RowOf(u.table, k).clock \in Nat
      BY <3>1, RowsRead DEF RowSet
    <3> QED BY <1>1, <1>9, <3>1, <3>2
  <2>2. user' = user /\ disturbed \subseteq disturbed' /\ srv[s].table.clock <= u.table.clock
    BY <1>1, <1>2, <1>10
  <2> QED BY <1>2, <1>3, <1>8, <1>16, <2>1, <2>2, OrigKept
<1> QED BY <1>2, <1>15, <1>17, NotRegression DEF ServedInv
---------------------------------------------------------------------------
(* The regression's train.                                                 *)

\* A server and the mixer that do not change stay paired, if no row is new
\* under the id that is trained there.
LEMMA PairedStays ==
    ASSUME NEW o \in Server, Paired(o), (srv[o])' = srv[o], mixed' = mixed,
           Between(o)' <=> Between(o), phase = "put" <=> phase' = "put",
           \A r : Abroad(r)' => Abroad(r) \/ r.key # srv[o].train.id
    PROVE  Paired(o)'
<1>1. PICK m : m = srv[o] /\ (srv[o])' = m
  OBVIOUS
<1>2. /\ m.train.step = "row" => \A r : Abroad(r) => r.key # m.train.id
      /\ m.train.step = "value" => Ahead(m) /\ ~Between(o)
      /\ m.train.step # "value" => IF phase = "put" /\ Between(o) THEN Behind(m) ELSE Level(m)
  BY <1>1 DEF Paired
<1>3. m.train.step = "row" => \A r : Abroad(r)' => r.key # m.train.id
  BY <1>1, <1>2
<1>4. Behind(m) => Behind(m)'
  BY DEF Behind, Reached, Ids, Seen
<1>5. (Level(m) => Level(m)') /\ (Ahead(m) => Ahead(m)')
  BY DEF Level, Ahead
<1>6. Paired(o)' <=>
        /\ m.train.step = "row" => \A r : Abroad(r)' => r.key # m.train.id
        /\ m.train.step = "value" => Ahead(m)' /\ ~Between(o)'
        /\ m.train.step # "value" => IF phase' = "put" /\ Between(o)' THEN Behind(m)' ELSE Level(m)'
  BY <1>1 DEF Paired, Behind, Ahead, Level
<1> QED BY <1>2, <1>3, <1>4, <1>5, <1>6

\* The regression's ids are no others.
LEMMA NoneSticky ==
    ASSUME NeighborAssumption, NEW m, Local(m), user = "regression"
    PROVE  m.sticky = {} /\ (\A x \in Sticky : x \notin 1..calls)
<1>1. \A x \in Sticky : x \notin 1..calls
  BY DEF NeighborAssumption
<1>2. \A x \in m.sticky : x \in Sticky /\ x \in 1..calls
  BY DEF Local, Good, Recalls, Known
<1> QED BY <1>1, <1>2

LEMMA CanTouch ==
    ASSUME NEW m, Good(m), m.sticky = {}, max_size \in Nat, NEW id
    PROVE  can_touch(m, id)
<1>0. Recalls(m) /\ m.lru \in Seq(Int)
  BY DEF Good, Recalls
<1>1. CountOf(m) = Len(m.lru) + Cardinality(m.sticky) /\ Len(m.lru) \in Nat
  BY <1>0, CountIs
<1>2. Cardinality(m.sticky) = 0
  BY FS_EmptySet
<1>3. CASE m.lru = <<>> /\ max_size # 0
  <2>1. Len(m.lru) = 0
    BY <1>3
  <2>2. CountOf(m) = 0
    BY <1>1, <1>2, <2>1
  <2> QED BY <1>3, <2>2 DEF can_touch, Full
<1> QED BY <1>3 DEF can_touch

\* The local part for the regression.
LEMMA LocalTrain ==
    ASSUME Settled, user = "regression", NEW u, Good(u), HasRows(u),
           \A x \in Known(u) : x \in 1..calls',
           u.train # Idle => u.train.id \in 1..calls',
           max_size > 0 /\ ~Happened("split")' => AllKnown(u)
    PROVE  Local(u)'
<1>1. Good(u)'
  BY GoodStays DEF Settled
<1>2. HasRows(u)' /\ (AllKnown(u)' <=> AllKnown(u))
  BY DEF HasRows, AllKnown, Known, Ids
<1> QED BY <1>1, <1>2 DEF Settled, Local, Known, Idle

LEMMA ByCallStays ==
    ASSUME Settled, calls \in Nat
    PROVE  \A r : ByCall(r) => ByCall(r)'
<1>1. \A k : k \in 1..calls => k \in 1..calls'
  BY DEF Settled
<1> QED BY <1>1 DEF ByCall

LEMMA NotRecommender ==
    ASSUME user # "recommender", user' = user
    PROVE  OrigRecent'
BY DEF OrigRecent

LEMMA TrainTouchStep ==
    ASSUME NeighborAssumption, ServedInv, NEW s \in Server, TrainTouch(s)
    PROVE  ServedInv'
<1>1. PICK m, n, id : m = srv[s] /\ id = calls + 1 /\ n = touch(m, id)
  OBVIOUS
<1>2. PICK t, u : t = [step |-> "row", id |-> id] /\ u = [n EXCEPT !.train = t]
  OBVIOUS
<1>3. /\ user = "regression" /\ calls' = id /\ Turned(s, u) /\ m.train = Idle
      /\ UNCHANGED <<user, max_size, rounds, phase, asked, mixed, disturbed>>
  BY <1>1, <1>2 DEF TrainTouch, Call, Turned
<1>4. Steady /\ Local(m) /\ RowsByCall /\ InStep /\ calls \in Nat
  BY <1>1 DEF ServedInv, Steady
<1>5. Settled
  BY <1>1, <1>3, <1>4 DEF Settled, Steady
<1>6. /\ Good(m) /\ HasRows(m) /\ max_size \in Nat /\ id \in Int
      /\ \A x \in Known(m) : x \in 1..calls
      /\ max_size > 0 /\ ~Happened("split") => AllKnown(m)
  BY <1>1, <1>3, <1>4 DEF Local, Steady
<1>7. PICK gone : Touched(m, n, id, gone)
  BY <1>1, <1>6, TouchIs
<1>8. /\ Good(n) /\ Loses(m, n, gone)
      /\ \A x \in Known(n) : (x \in Known(m) /\ x \notin gone) \/ x = id
      /\ \A x \in Known(m) : x \notin gone => x \in Known(n)
      /\ max_size > 0 /\ can_touch(m, id) => id \in Known(n)
      /\ max_size = 0 => n = m
  BY <1>7 DEF Touched
<1>9. n \in States
  BY <1>8 DEF Good
<1>10. /\ u.table = n.table /\ u.values = n.values /\ u.orig = n.orig /\ u.vc = n.vc /\ u.vvc = n.vvc
       /\ u.lru = n.lru /\ u.sticky = n.sticky /\ u.train = t /\ t.step = "row" /\ t.id = id
  BY <1>2, <1>9 DEF States
<1>11. Good(u)
  <2>1. t \in TrainSet
    BY <1>1, <1>2, <1>4 DEF TrainSet
  <2>2. u \in States
    BY <1>2, <1>9, <2>1 DEF States
  <2>3. Recalls(u)
    <3>1. Recalls(n)
      BY <1>8 DEF Good
    <3> QED BY <1>10, <3>1 DEF Recalls, CountOf
  <2> QED BY <1>8, <1>10, <2>2, <2>3 DEF Good
<1>12. Known(u) = Known(n)
  BY <1>10 DEF Known
<1>13. /\ Thins(m.table, n.table, gone) /\ Thins(m.values, n.values, gone)
  BY <1>3, <1>8 DEF Loses
<1>14. \A x \in Known(m) : x \in Ids(m.table)
  BY <1>3, <1>6 DEF HasRows, Idle
<1>15. HasRows(u)
  BY <1>8, <1>10, <1>12, <1>13, <1>14 DEF HasRows, Thins
<1>16. \A x \in Known(u) : x \in 1..calls'
  BY <1>1, <1>3, <1>4, <1>6, <1>8, <1>12
<1>17. ASSUME max_size > 0, ~Happened("split")' PROVE AllKnown(u)
  <2>1. AllKnown(m)
    BY <1>3, <1>6, <1>17 DEF Happened
  <2>2. id \in Known(n)
    <3>1. m.sticky = {}
      BY <1>3, <1>4, NoneSticky
    <3>2. can_touch(m, id)
      BY <1>6, <3>1, CanTouch
    <3> QED BY <1>8, <1>17, <3>2
  <2>3. \A k \in Ids(n.table) : k \in Known(n)
    BY <1>8, <1>13, <2>1 DEF AllKnown, Thins
  <2> QED BY <1>10, <1>12, <2>2, <2>3 DEF AllKnown
<1>18. Local(u)'
  <2>1. u.train # Idle => u.train.id \in 1..calls'
    BY <1>1, <1>3, <1>4, <1>10
  <2> QED BY <1>3, <1>5, <1>11, <1>15, <1>16, <1>17, <2>1, LocalTrain
<1>19. Steady'
  BY <1>3, <1>4, <1>5, <1>18, SteadyCall
<1>20. \A q : Abroad(q)' => Abroad(q)
  <2>1. \A q : Lies(u.table, q) \/ Lies(u.values, q) => Abroad(q)
    BY <1>1, <1>10, <1>13 DEF Abroad, Lies, Thins
  <2> QED BY <1>3, <1>4, <2>1, AbroadLess
<1>c. \A r : Abroad(r) => ByCall(r)
  BY <1>3, <1>4 DEF RowsByCall
<1>21. RowsByCall'
  <2>1. \A r : ByCall(r) => ByCall(r)'
    BY <1>4, <1>5, ByCallStays
  <2> QED BY <1>20, <1>c, <2>1 DEF RowsByCall
<1>22. InStep'
  <2> SUFFICES ASSUME max_size = 0, ~Happened("split") PROVE (OneRow /\ Apart /\ SameGathered /\ \A o \in Server : Paired(o))'
    BY <1>3 DEF InStep, Happened
  <2>1. OneRow /\ Apart /\ SameGathered /\ \A o \in Server : Paired(o)
    BY <1>3, <1>4 DEF InStep
  <2>2. srv'[s] = u /\ (\A o \in Server : o # s => srv'[o] = srv[o])
    BY <1>3, <1>4, TurnedIs
  <2>3. /\ u.table = m.table /\ u.values = m.values /\ u.vc = m.vc /\ u.vvc = m.vvc
    BY <1>8, <1>10
  <2>4. OneRow'
    BY <1>20, <2>1 DEF OneRow
  <2>5. Apart'
    <3>1. \A o \in Server : srv[o].train # Idle => srv[o].train.id \in 1..calls
      BY <1>3, <1>4 DEF Steady, Local
    <3>2. \A o \in Server : o # s /\ srv[o].train # Idle => srv[o].train.id # u.train.id
      BY <1>1, <1>4, <1>10, <3>1
    <3>3. ASSUME NEW p \in Server, NEW o \in Server, p # o, srv'[p].train # Idle, srv'[o].train # Idle
          PROVE  srv'[p].train.id # srv'[o].train.id
      BY <2>1, <2>2, <3>2, <3>3 DEF Apart
    <3>4. ASSUME NEW p \in Server, NEW o \in Server, p # o, srv'[p].train # Idle, srv'[o].train = Idle
          PROVE  srv'[p].train.id # srv'[o].train.id
      <4>1. srv'[p].train.id \in 1..calls'
        BY <1>3, <1>19, <3>4 DEF Steady, Local, Idle
      <4>2. srv'[o].train.id = 0
        BY <3>4 DEF Idle, NoId
      <4> QED BY <4>1, <4>2
    <3> QED BY <3>3, <3>4 DEF Apart, Idle
  <2>6. \A o \in Server : Between(o)' <=> Between(o)
    BY <1>3 DEF Between
  <2>7. SameGathered'
    <3>1. \A r : \A o \in Server : ToPull(srv[o], r)' <=> ToPull(srv[o], r)
      BY <1>1, <2>2, <2>3 DEF ToPull, Lies, Ids, RowOf, Seen
    <3> QED BY <1>3, <2>1, <2>6, <3>1 DEF SameGathered
  <2>8. ASSUME NEW o \in Server PROVE Paired(o)'
    <3>1. CASE o # s
      <4>1. (srv[o])' = srv[o]
        BY <2>2, <3>1
      <4> QED BY <1>3, <1>20, <2>1, <2>6, <4>1, PairedStays
    <3>2. CASE o = s
      <4>1. (srv[o])' = u
        BY <2>2, <3>2
      <4>2. IF phase = "put" /\ Between(s) THEN Behind(m) ELSE Level(m)
        BY <1>1, <1>3, <2>1 DEF Paired, Idle
      <4>3. \A r : Abroad(r)' => r.key # u.train.id
        <5>1. \A r : Abroad(r)' => r.key \in 1..calls
          BY <1>20, <1>c DEF ByCall
        <5> QED BY <1>1, <1>4, <1>10, <5>1
      <4>4. Behind(m) => Behind(u)'
        BY <1>3, <2>3 DEF Behind, Reached, Ids, Seen
      <4>5. Level(m) => Level(u)'
        BY <1>3, <2>3 DEF Level, Ids, Seen
      <4>6. IF phase' = "put" /\ Between(o)' THEN Behind(u)' ELSE Level(u)'
        BY <1>3, <2>6, <3>2, <4>2, <4>4, <4>5
      <4>7. u.train.step # "value"
        BY <1>10
      <4> QED BY <1>10, <4>1, <4>3, <4>6, <4>7 DEF Paired, Behind, Level
    <3> QED BY <3>1, <3>2
  <2> QED BY <2>4, <2>5, <2>7, <2>8
<1> QED BY <1>3, <1>19, <1>21, <1>22, NotRecommender DEF ServedInv
Matched == OneRow /\ Apart /\ SameGathered /\ \A s \in Server : Paired(s)

\* The two tables of all servers, when one server's state changes by a call.
LEMMA MatchedTurn ==
    ASSUME Steady, Settled, user = "regression", NEW s \in Server, NEW u, Turned(s, u),
           UNCHANGED <<phase, asked, mixed>>, Matched, OneRow', Paired(s)',
           u.train = Idle \/ (u.train.id = srv[s].train.id /\ srv[s].train # Idle),
           \A r : Abroad(r)' => Abroad(r) \/ (r.key = srv[s].train.id /\ srv[s].train # Idle),
           ~Between(s)
    PROVE  Matched'
<1>1. srv'[s] = u /\ (\A o \in Server : o # s => srv'[o] = srv[o])
  BY TurnedIs
<1>2. OneRow /\ Apart /\ SameGathered /\ \A o \in Server : Paired(o)
  BY DEF Matched
<1>3. \A o \in Server : Between(o)' <=> Between(o)
  BY DEF Between
<1>4. \A o \in Server : srv[o].train # Idle => srv[o].train.id # NoId
  <2>1. \A o \in Server : srv[o].train # Idle => srv[o].train.id \in 1..calls
    BY DEF Steady, Local
  <2>2. \A k \in 1..calls : k # NoId
    BY DEF NoId
  <2> QED BY <2>1, <2>2
<1>5. \A o \in Server : o # s /\ (u.train # Idle \/ srv[o].train # Idle) => srv[o].train.id # u.train.id
  <2>1. CASE u.train = Idle
    BY <1>4, <2>1 DEF Idle
  <2>2. CASE u.train.id = srv[s].train.id /\ srv[s].train # Idle
    BY <1>2, <2>2 DEF Apart
  <2> QED BY <2>1, <2>2
<1>6. Apart'
  <2>1. ASSUME NEW p \in Server, NEW o \in Server, p # o, srv'[p].train # Idle
        PROVE  srv'[p].train.id # srv'[o].train.id
    <3>1. CASE p # s /\ o # s
      BY <1>1, <1>2, <2>1, <3>1 DEF Apart
    <3>2. CASE p = s \/ o = s
      BY <1>1, <1>5, <2>1, <3>2
    <3> QED BY <3>1, <3>2
  <2> QED BY <2>1 DEF Apart, Idle
<1>7. SameGathered'
  <2>1. \A r : \A o \in Server : Between(o) => (ToPull(srv[o], r)' <=> ToPull(srv[o], r))
    BY <1>1 DEF ToPull, Lies, Ids, RowOf, Seen
  <2> QED BY <1>2, <1>3, <2>1 DEF SameGathered
<1>8. ASSUME NEW o \in Server PROVE Paired(o)'
  <2>1. CASE o = s
    BY <2>1
  <2>2. CASE o # s
    <3>1. (srv[o])' = srv[o] /\ (phase = "put" <=> phase' = "put") /\ mixed' = mixed
      BY <1>1, <2>2
    <3>2. \A r : Abroad(r)' => Abroad(r) \/ r.key # srv[o].train.id
      BY <1>2, <2>2 DEF Apart
    <3> QED BY <1>2, <1>3, <3>1, <3>2, PairedStays
  <2> QED BY <2>1, <2>2
<1> QED BY <1>6, <1>7, <1>8 DEF Matched

LEMMA TrainRowStep ==
    ASSUME NeighborAssumption, ServedInv, NEW s \in Server, TrainRow(s)
    PROVE  ServedInv'
<1>1. PICK m, id, t : m = srv[s] /\ id = m.train.id /\ t = [m.train EXCEPT !.step = "value"]
  OBVIOUS
<1>2. PICK n, u : n = [m EXCEPT !.train = t] /\ u = [n EXCEPT !.orig = m.orig, !.table = Add(@, id, owner(s), id)]
  OBVIOUS
<1>3. Steady /\ Local(m) /\ RowsByCall /\ InStep /\ calls \in Nat /\ m.train.step = "row" /\ max_size \in Nat
  BY <1>1 DEF ServedInv, Steady, TrainRow
<1>4. user = "regression"
  BY <1>3 DEF Local, Idle
<1>5. Good(m) /\ m \in States /\ m.train \in TrainSet /\ id \in Nat /\ m.train # Idle
  BY <1>1, <1>3 DEF Local, Good, States, TrainSet, Idle
<1>6. /\ Turned(s, u)
      /\ disturbed' = disturbed \cup (IF Between(s) THEN {<<"split", s>>} ELSE {})
      /\ UNCHANGED <<user, max_size, calls, rounds, phase, asked, mixed>>
  <2>1. TrainRow(s) => srv' = [srv EXCEPT ![s] = [m EXCEPT !.table = Add(@, id, owner(s), id), !.train.step = "value"]]
    BY <1>1 DEF TrainRow, Train
  <2>2. [m EXCEPT !.table = Add(@, id, owner(s), id), !.train.step = "value"] = u
    BY <1>1, <1>2, <1>5 DEF States
  <2>3. Turned(s, u)
    BY <2>1, <2>2 DEF Turned
  <2> QED BY <1>1, <2>3 DEF TrainRow, Train
<1>7. Settled
  BY <1>3, <1>6 DEF Settled, Steady
<1>8. t \in TrainSet /\ t.step = "value" /\ t.id = id
  BY <1>1, <1>5 DEF TrainSet
<1>9. /\ n \in States /\ n.table = m.table /\ n.values = m.values /\ n.orig = m.orig /\ n.vc = m.vc /\ n.vvc = m.vvc
      /\ n.lru = m.lru /\ n.sticky = m.sticky /\ n.train = t
  BY <1>2, <1>5, <1>8 DEF States
<1>10. Good(n)
  <2>1. Recalls(m)
    BY <1>5 DEF Good
  <2>2. Recalls(n)
    BY <1>9, <2>1 DEF Recalls, CountOf
  <2> QED BY <1>5, <1>8, <1>9, <2>2 DEF Good
<1>11. PICK o, g, r : o = "" /\ g = m.orig /\ r = Row(id, o, m.table.clock, id)
  OBVIOUS
<1>12. /\ o \in Owners /\ owner(s) = o /\ g \in OrigSet /\ id \in Contents /\ id \in Int
       /\ r = Row(id, o, n.table.clock, id)
  <2>1. o \in Owners /\ owner(s) = o
    BY <1>4, <1>11 DEF Owners, owner
  <2>2. g \in OrigSet
    BY <1>5, <1>11 DEF States
  <2>3. id \in Contents /\ id \in Int
    BY <1>5 DEF Contents
  <2>4. n.table = m.table
    BY <1>9
  <2>5. r = Row(id, o, n.table.clock, id)
    BY <1>11, <2>4
  <2> QED BY <2>1, <2>2, <2>3, <2>5
<1>13. SetsRow(n, u, g, id, o, id)
  BY <1>2, <1>11, <1>12 DEF SetsRow
<1>p. Placed(n, u, g, id, r)
  BY <1>10, <1>12, <1>13, RowSetIs
<1>14. /\ Good(u) /\ u.values = m.values /\ u.vc = m.vc /\ u.vvc = m.vvc
       /\ u.lru = m.lru /\ u.sticky = m.sticky /\ u.train = t
       /\ \A k : k \in Ids(u.table) <=> k \in Ids(m.table) \/ k = id
       /\ u.table.clock = m.table.clock + 1
       /\ RowOf(u.table, id) = r
       /\ \A q : Lies(u.table, q) => Lies(m.table, q) \/ q = r
  BY <1>9, <1>p DEF Placed
<1>15. Known(u) = Known(m)
  BY <1>14 DEF Known
<1>16. /\ HasRows(m) /\ id \in 1..calls
       /\ \A x \in Known(m) : x \in 1..calls
       /\ max_size > 0 /\ ~Happened("split") => AllKnown(m)
  BY <1>1, <1>3, <1>4, <1>5 DEF Local
<1>17. HasRows(u)
  BY <1>1, <1>14, <1>15, <1>16 DEF HasRows
<1>18. ~Happened("split")' => ~Happened("split") /\ ~Between(s)
  BY <1>6 DEF Happened
<1>19. ASSUME max_size > 0, ~Happened("split")' PROVE AllKnown(u)
  <2>1. AllKnown(m)
    BY <1>16, <1>18, <1>19
  <2> QED BY <1>1, <1>3, <1>8, <1>14, <1>15, <2>1 DEF AllKnown
<1>20. Local(u)'
  <2>1. u.train # Idle => u.train.id \in 1..calls'
    BY <1>6, <1>8, <1>14, <1>16
  <2>2. \A x \in Known(u) : x \in 1..calls'
    BY <1>6, <1>15, <1>16
  <2> QED BY <1>4, <1>7, <1>14, <1>17, <1>19, <2>1, <2>2, LocalTrain
<1>21. Steady'
  BY <1>3, <1>6, <1>7, <1>20, SteadyCall
<1>22. \A q : Abroad(q)' => Abroad(q) \/ q = r
  <2>1. \A q : Lies(u.table, q) \/ Lies(u.values, q) => Abroad(q) \/ q = r
    BY <1>1, <1>14 DEF Abroad
  <2> QED BY <1>3, <1>6, <2>1, AbroadCall
<1>23. r.key = id /\ r.owner = "" /\ r.value = id /\ r.clock = m.table.clock
  BY <1>11 DEF Row
<1>24. RowsByCall'
  <2>1. \A q : Abroad(q) => ByCall(q)
    BY <1>3, <1>4 DEF RowsByCall
  <2>2. ByCall(r)
    BY <1>16, <1>23 DEF ByCall
  <2>3. \A q : ByCall(q) => ByCall(q)'
    BY <1>3, <1>7, ByCallStays
  <2> QED BY <1>22, <2>1, <2>2, <2>3 DEF RowsByCall
<1>25. ASSUME max_size = 0, ~Happened("split")' PROVE Matched'
  <2>1. Matched /\ ~Between(s)
    BY <1>3, <1>4, <1>18, <1>25 DEF InStep, Matched
  <2>2. Paired(s) /\ OneRow
    BY <2>1 DEF Matched
  <2>3. \A q : Abroad(q) => q.key # id
    BY <1>1, <1>3, <2>2 DEF Paired
  <2>4. OneRow'
    BY <1>22, <1>23, <2>2, <2>3 DEF OneRow
  <2>5. Level(m)
    BY <1>1, <1>3, <2>1, <2>2 DEF Paired
  <2>6. Ahead(u)
    BY <1>8, <1>14, <1>23, <2>5 DEF Level, Ahead
  <2>7. (srv[s])' = u
    BY <1>3, <1>6, TurnedIs
  <2>8. ~Between(s)'
    BY <1>6, <2>1 DEF Between
  <2>9. Paired(s)'
    BY <1>8, <1>14, <2>6, <2>7, <2>8 DEF Paired, Ahead, Ids, Seen, RowOf
  <2>10. u.train.id = srv[s].train.id /\ srv[s].train # Idle
    BY <1>1, <1>5, <1>8, <1>14
  <2>11. \A q : Abroad(q)' => Abroad(q) \/ (q.key = srv[s].train.id /\ srv[s].train # Idle)
    BY <1>1, <1>5, <1>22, <1>23
  <2>12. UNCHANGED <<phase, asked, mixed>>
    BY <1>6
  <2> QED BY <1>3, <1>4, <1>6, <1>7, <2>1, <2>4, <2>9, <2>10, <2>11, <2>12, MatchedTurn
<1>26. InStep'
  <2>1. max_size' = max_size
    BY <1>6
  <2> QED BY <1>25, <2>1 DEF InStep, Matched
<1> QED BY <1>4, <1>6, <1>21, <1>24, <1>26, NotRecommender DEF ServedInv
LEMMA TrainValueStep ==
    ASSUME NeighborAssumption, ServedInv, NEW s \in Server, TrainValue(s)
    PROVE  ServedInv'
<1>1. PICK m, id, o : m = srv[s] /\ id = m.train.id /\ o = ""
  OBVIOUS
<1>2. Steady /\ Local(m) /\ RowsByCall /\ InStep /\ calls \in Nat /\ m.train.step = "value" /\ max_size \in Nat
  BY <1>1 DEF ServedInv, Steady, TrainValue
<1>3. user = "regression"
  BY <1>2 DEF Local, Idle
<1>4. Good(m) /\ m \in States /\ id \in Nat /\ m.train # Idle /\ Sound(m.values)
  <2>1. Good(m) /\ m \in States /\ Sound(m.values)
    BY <1>2 DEF Local, Good
  <2>2. id \in Nat
    BY <1>1, <2>1 DEF States, TrainSet
  <2>3. m.train # Idle
    BY <1>2 DEF Idle
  <2> QED BY <2>1, <2>2, <2>3
<1>5. id \in Contents /\ id \in Int /\ o \in Owners /\ owner(s) = o
  <2>1. o \in Owners /\ owner(s) = o
    BY <1>1, <1>3 DEF Owners, owner
  <2> QED BY <1>4, <2>1 DEF Contents
<1>6. PICK v, r : v = Add(m.values, id, o, id) /\ r = Row(id, o, m.values.clock, id)
  OBVIOUS
<1>7. /\ Sound(v) /\ Ids(v) = Ids(m.values) \cup {id} /\ v.clock = m.values.clock + 1
      /\ RowOf(v, id) = r
      /\ \A k \in Ids(m.values) \ {id} : RowOf(v, k) = RowOf(m.values, k)
  BY <1>4, <1>5, <1>6, AddIs
<1>8. PICK u : u = [m EXCEPT !.values = v, !.train = Idle]
  OBVIOUS
<1>9. /\ Turned(s, u)
      /\ disturbed' = disturbed \cup (IF Between(s) THEN {<<"split", s>>} ELSE {})
      /\ UNCHANGED <<user, max_size, calls, rounds, phase, asked, mixed>>
  <2>1. u = [m EXCEPT !.values = Add(@, id, owner(s), id), !.train = Idle]
    BY <1>4, <1>5, <1>6, <1>8 DEF States
  <2>2. Turned(s, u)
    BY <1>1, <2>1 DEF Turned, TrainValue, Train
  <2> QED BY <1>1, <2>2 DEF TrainValue, Train
<1>10. Settled
  BY <1>2, <1>9 DEF Settled, Steady
<1>11. /\ u.table = m.table /\ u.values = v /\ u.orig = m.orig /\ u.vc = m.vc /\ u.vvc = m.vvc
       /\ u.lru = m.lru /\ u.sticky = m.sticky /\ u.train = Idle
  BY <1>4, <1>8 DEF States
<1>12. Good(u)
  <2>1. v \in TableSet
    BY <1>7 DEF Sound, Shaped, TableSet
  <2>2. Idle \in TrainSet
    BY DEF Idle, TrainSet, NoId
  <2>3. u \in States
    BY <1>4, <1>8, <2>1, <2>2 DEF States
  <2>4. Recalls(m)
    BY <1>4 DEF Good
  <2>5. Recalls(u)
    BY <1>11, <2>4 DEF Recalls, CountOf
  <2>6. Sound(m.table)
    BY <1>4 DEF Good
  <2> QED BY <1>7, <1>11, <2>3, <2>5, <2>6 DEF Good
<1>13. /\ HasRows(m) /\ id \in 1..calls
       /\ \A x \in Known(m) : x \in 1..calls
       /\ max_size > 0 /\ ~Happened("split") => AllKnown(m)
  BY <1>1, <1>2, <1>3, <1>4 DEF Local
<1>14. Known(u) = Known(m)
  BY <1>11 DEF Known
<1>15. HasRows(u)
  BY <1>2, <1>11, <1>13, <1>14 DEF HasRows
<1>16. ~Happened("split")' => ~Happened("split") /\ ~Between(s)
  BY <1>9 DEF Happened
<1>17. ASSUME max_size > 0, ~Happened("split")' PROVE AllKnown(u)
  <2>1. AllKnown(m)
    BY <1>13, <1>16, <1>17
  <2> QED BY <1>11, <1>14, <2>1 DEF AllKnown, Idle
<1>18. Local(u)'
  <2>2. \A x \in Known(u) : x \in 1..calls'
    BY <1>9, <1>13, <1>14
  <2> QED BY <1>3, <1>10, <1>11, <1>12, <1>15, <1>17, <2>2, LocalTrain
<1>19. Steady'
  BY <1>2, <1>9, <1>10, <1>18, SteadyCall
<1>20. \A q : Abroad(q)' => Abroad(q) \/ q = r
  <2>1. ASSUME NEW q, Lies(v, q) PROVE Lies(m.values, q) \/ q = r
    <3>1. CASE q.key = id
      BY <1>7, <2>1, <3>1 DEF Lies
    <3>2. CASE q.key # id
      BY <1>7, <2>1, <3>2 DEF Lies
    <3> QED BY <3>1, <3>2
  <2>2. \A q : Lies(u.table, q) \/ Lies(u.values, q) => Abroad(q) \/ q = r
    BY <1>1, <1>11, <2>1 DEF Abroad
  <2> QED BY <1>2, <1>9, <2>2, AbroadCall
<1>21. r.key = id /\ r.owner = "" /\ r.value = id /\ r.clock = m.values.clock
  BY <1>1, <1>6 DEF Row
<1>c. \A q : Abroad(q) => ByCall(q)
  BY <1>2, <1>3 DEF RowsByCall
<1>22. RowsByCall'
  <2>2. ByCall(r)
    BY <1>13, <1>21 DEF ByCall
  <2>3. \A q : ByCall(q) => ByCall(q)'
    BY <1>2, <1>10, ByCallStays
  <2> QED BY <1>20, <1>c, <2>2, <2>3 DEF RowsByCall
<1>23. ASSUME max_size = 0, ~Happened("split")' PROVE Matched'
  <2>1. Matched /\ ~Between(s)
    BY <1>2, <1>3, <1>16, <1>23 DEF InStep, Matched
  <2>2. Paired(s) /\ OneRow
    BY <2>1 DEF Matched
  <2>3. Ahead(m)
    BY <1>1, <1>2, <2>2 DEF Paired
  <2>4. id \in Ids(m.table) /\ RowOf(m.table, id).clock = m.values.clock
    BY <1>1, <2>3 DEF Ahead
  <2>5. Abroad(r)
    <3>1. PICK q : q = RowOf(m.table, id)
      OBVIOUS
    <3>2. Shaped(m.table)
      BY <1>4 DEF Good, Sound
    <3>3. q \in RowSet /\ q.key = id
      BY <2>4, <3>1, <3>2, RowsRead
    <3>4. Lies(m.table, q)
      BY <2>4, <3>1, <3>3 DEF Lies
    <3>5. Abroad(q)
      BY <1>1, <3>4 DEF Abroad
    <3>6. q.owner = "" /\ q.value = id /\ q.clock = m.values.clock
      BY <1>c, <2>4, <3>1, <3>3, <3>5 DEF ByCall
    <3>7. q = r
      BY <1>1, <1>6, <3>3, <3>6 DEF Row, RowSet
    <3> QED BY <3>5, <3>7
  <2>6. \A q : Abroad(q)' => Abroad(q)
    BY <1>20, <2>5
  <2>7. OneRow'
    BY <2>2, <2>6 DEF OneRow
  <2>8. Level(u)
    BY <1>1, <1>7, <1>11, <2>3 DEF Ahead, Level
  <2>9. (srv[s])' = u
    BY <1>2, <1>9, TurnedIs
  <2>10. ~Between(s)'
    BY <1>9, <2>1 DEF Between
  <2>11. Paired(s)'
    <3>1. u.train.step # "row" /\ u.train.step # "value"
      BY <1>11 DEF Idle
    <3> QED BY <2>8, <2>9, <2>10, <3>1 DEF Paired, Level, Ids, Seen
  <2>12. UNCHANGED <<phase, asked, mixed>>
    BY <1>9
  <2> QED BY <1>2, <1>3, <1>9, <1>10, <1>11, <2>1, <2>6, <2>7, <2>11, <2>12, MatchedTurn
<1>24. InStep'
  <2>1. max_size' = max_size
    BY <1>9
  <2> QED BY <1>23, <2>1 DEF InStep, Matched
<1> QED BY <1>3, <1>9, <1>19, <1>22, <1>24, NotRecommender DEF ServedInv

---------------------------------------------------------------------------
(* clear and unpack.                                                       *)

LEMMA EmptyIs ==
    /\ Sound(EmptyTable) /\ EmptyTable \in TableSet
    /\ Ids(EmptyTable) = {} /\ EmptyTable.clock = 0
<1>1. PICK x : x = [k \in {} |-> 0]
  OBVIOUS
<1>2. x \in [{} -> Nat]
  BY <1>1
<1>3. x \in Indexes /\ DOMAIN x = {}
  <2>1. {} \in SUBSET Int
    OBVIOUS
  <2> QED BY <1>2, <2>1 DEF Indexes
<1>4. EmptyTable = [rows |-> <<>>, index |-> x, clock |-> 0]
  BY <1>1 DEF EmptyTable
<1>5. EmptyTable.rows = <<>> /\ EmptyTable.index = x /\ EmptyTable.clock = 0
  BY <1>4
<1>6. <<>> \in Seq(RowSet) /\ Len(<<>>) = 0
  OBVIOUS
<1>7. EmptyTable \in TableSet
  BY <1>3, <1>4, <1>6 DEF TableSet
<1>8. IndexConsistent(EmptyTable)
  BY <1>3, <1>5, <1>6 DEF IndexConsistent, Size
<1> QED BY <1>3, <1>5, <1>7, <1>8 DEF Sound, Shaped, TableSet, Ids

\* All that is left of m.
Emptied(m, u) ==
    /\ Good(u) /\ u.train = m.train /\ u.vc = m.vc /\ u.vvc = m.vvc
    /\ Ids(u.table) = {} /\ Ids(u.values) = {} /\ u.table.clock = 0 /\ u.values.clock = 0
    /\ DOMAIN u.orig = {} /\ \A x : x \notin Known(u)

LEMMA ClearedIs ==
    ASSUME NEW m, Good(m), max_size \in Nat
    PROVE  Emptied(m, Cleared(m))
<1>1. PICK u, t : u = Cleared(m) /\ t = EmptyTable
  OBVIOUS
<1>2. m \in States
  BY DEF Good
<1>3. /\ u.table = t /\ u.values = t /\ u.orig = None /\ u.vc = m.vc /\ u.vvc = m.vvc
      /\ u.lru = <<>> /\ u.sticky = {} /\ u.train = m.train
  BY <1>1, <1>2 DEF Cleared, ClearTable, States
<1>4. Sound(t) /\ t \in TableSet /\ Ids(t) = {} /\ t.clock = 0
  BY <1>1, EmptyIs
<1>5. None \in OrigSet /\ DOMAIN None = {}
  <2>1. PICK x : x = None
    OBVIOUS
  <2>2. x \in [{} -> OrigRows]
    BY <2>1 DEF None
  <2>3. {} \in SUBSET Id
    OBVIOUS
  <2> QED BY <2>1, <2>2, <2>3 DEF OrigSet
<1>6. <<>> \in Seq(Int) /\ Len(<<>>) = 0
  OBVIOUS
<1>7. u \in States
  BY <1>1, <1>2, <1>4, <1>5, <1>6 DEF Cleared, ClearTable, States
<1>8. Cardinality({}) = 0 /\ IsFiniteSet({})
  BY FS_EmptySet
<1>9. Recalls(u)
  <2>1. CountOf(u) = 0
    BY <1>3, <1>6, <1>8 DEF CountOf
  <2> QED BY <1>3, <1>6, <1>8, <2>1 DEF Recalls, Lined, Listed
<1>10. Good(u)
  BY <1>3, <1>4, <1>7, <1>9 DEF Good
<1>11. \A x : x \notin Known(u)
  BY <1>3, <1>6 DEF Known, Range
<1> QED BY <1>1, <1>3, <1>4, <1>5, <1>10, <1>11 DEF Emptied
\* After a call of no train, on a server MIX is not within, that adds no row.
LEMMA MatchedCall ==
    ASSUME Steady, Settled, user = "regression", NEW s \in Server, NEW u, Turned(s, u),
           UNCHANGED <<phase, asked, mixed>>, Matched, \A r : Abroad(r)' => Abroad(r),
           ~Between(s), u.train = Idle, Level(u)
    PROVE  Matched'
<1>1. OneRow'
  BY DEF Matched, OneRow
<1>2. (srv[s])' = u
  BY TurnedIs
<1>3. ~Between(s)'
  BY DEF Between
<1>4. Paired(s)'
  <2>1. u.train.step # "row" /\ u.train.step # "value"
    BY DEF Idle
  <2> QED BY <1>2, <1>3, <2>1 DEF Paired, Level, Ids, Seen
<1> QED BY <1>1, <1>4, MatchedTurn

LEMMA ClearStep ==
    ASSUME NeighborAssumption, ServedInv, NEW s \in Server, clear(s)
    PROVE  ServedInv'
<1>1. PICK m, u : m = srv[s] /\ u = Cleared(m)
  OBVIOUS
<1>2. /\ calls' = calls + 1 /\ Turned(s, u) /\ m.train = Idle /\ ~Between(s)
      /\ disturbed' = disturbed \cup {<<"cleared", s>>}
      /\ UNCHANGED <<user, max_size, rounds, phase, asked, mixed>>
  BY <1>1 DEF clear, Call, Turned
<1>3. Steady /\ Local(m) /\ RowsByCall /\ InStep /\ calls \in Nat /\ max_size \in Nat
  BY <1>1 DEF ServedInv, Steady
<1>4. Settled
  BY <1>2, <1>3 DEF Settled, Steady
<1>5. Good(m)
  BY <1>3 DEF Local
<1>6. Emptied(m, u)
  BY <1>1, <1>3, <1>5, ClearedIs
<1>7. /\ Good(u) /\ u.train = Idle /\ u.vc = m.vc /\ u.vvc = m.vvc
      /\ Ids(u.table) = {} /\ Ids(u.values) = {} /\ u.table.clock = 0 /\ u.values.clock = 0
      /\ DOMAIN u.orig = {} /\ \A x : x \notin Known(u)
  BY <1>2, <1>6 DEF Emptied
<1>8. HasRows(u) /\ AllKnown(u)
  BY <1>7 DEF HasRows, AllKnown, Idle
<1>9. Local(u)'
  <2>1. CASE user = "regression"
    BY <1>4, <1>7, <1>8, <2>1, LocalTrain
  <2>2. CASE user # "regression"
    BY <1>4, <1>7, <1>8, <2>2, LocalCall
  <2> QED BY <2>1, <2>2
<1>10. Steady'
  BY <1>2, <1>3, <1>4, <1>9, SteadyCall
<1>11. \A q : Abroad(q)' => Abroad(q)
  <2>1. \A q : Lies(u.table, q) \/ Lies(u.values, q) => Abroad(q)
    BY <1>7 DEF Lies
  <2> QED BY <1>2, <1>3, <2>1, AbroadLess
<1>12. OrigRecent'
  <2>1. Happened("cleared")'
    BY <1>2 DEF Happened
  <2> QED BY <2>1 DEF OrigRecent
<1>13. RowsByCall'
  <2>1. \A q : ByCall(q) => ByCall(q)'
    BY <1>3, <1>4, ByCallStays
  <2> QED BY <1>2, <1>3, <1>11, <2>1 DEF RowsByCall
<1>14. ASSUME user = "regression", max_size = 0, ~Happened("split")' PROVE Matched'
  <2>1. Matched
    BY <1>2, <1>3, <1>14 DEF InStep, Matched, Happened
  <2>2. Level(m)
    BY <1>1, <1>2, <2>1 DEF Matched, Paired, Idle
  <2>3. Level(u)
    BY <1>7, <2>2 DEF Level
  <2>4. UNCHANGED <<phase, asked, mixed>>
    BY <1>2
  <2> QED BY <1>2, <1>3, <1>4, <1>7, <1>11, <1>14, <2>1, <2>3, <2>4, MatchedCall
<1>15. InStep'
  <2>1. max_size' = max_size /\ user' = user
    BY <1>2
  <2> QED BY <1>14, <2>1 DEF InStep, Matched
<1> QED BY <1>10, <1>12, <1>13, <1>15 DEF ServedInv

\* A server's state with the version vectors of another.
Unpacked(n, m, u) == u = [n EXCEPT !.vc = m.vc, !.vvc = m.vvc]

LEMMA UnpackedIs ==
    ASSUME NEW n, NEW m, Good(n), Good(m), NEW u, Unpacked(n, m, u)
    PROVE  /\ Good(u) /\ u.train = n.train /\ u.vc = m.vc /\ u.vvc = m.vvc
           /\ u.table = n.table /\ u.values = n.values /\ u.orig = n.orig
           /\ u.lru = n.lru /\ u.sticky = n.sticky
<1>1. n \in States /\ m.vc \in VectorSet /\ m.vvc \in VectorSet
  BY DEF Good, States
<1>2. u \in States
  BY <1>1 DEF States, Unpacked
<1>3. /\ u.train = n.train /\ u.vc = m.vc /\ u.vvc = m.vvc
      /\ u.table = n.table /\ u.values = n.values /\ u.orig = n.orig
      /\ u.lru = n.lru /\ u.sticky = n.sticky
  BY <1>1 DEF States, Unpacked
<1>4. Recalls(n)
  BY DEF Good
<1>5. Recalls(u)
  BY <1>3, <1>4 DEF Recalls, CountOf
<1> QED BY <1>2, <1>3, <1>5 DEF Good

LEMMA UnpackStep ==
    ASSUME NeighborAssumption, ServedInv, NEW s \in Server, NEW o \in Server, unpack(s, o)
    PROVE  ServedInv'
<1>1. PICK m, n, u : m = srv[s] /\ n = srv[o] /\ u = [n EXCEPT !.vc = m.vc, !.vvc = m.vvc]
  OBVIOUS
<1>2. /\ calls' = calls + 1 /\ Turned(s, u) /\ m.train = Idle /\ n.train = Idle /\ ~Between(s) /\ ~Between(o)
      /\ disturbed' = disturbed \cup {<<"cleared", s>>}
      /\ UNCHANGED <<user, max_size, rounds, phase, asked, mixed>>
  BY <1>1 DEF unpack, Call, Turned
<1>3. Steady /\ Local(m) /\ Local(n) /\ RowsByCall /\ InStep /\ calls \in Nat /\ max_size \in Nat
  BY <1>1 DEF ServedInv, Steady
<1>4. Settled
  BY <1>2, <1>3 DEF Settled, Steady
<1>5. Good(m) /\ Good(n)
  BY <1>3 DEF Local
<1>6. /\ Good(u) /\ u.train = Idle /\ u.vc = m.vc /\ u.vvc = m.vvc
      /\ u.table = n.table /\ u.values = n.values /\ u.orig = n.orig
      /\ u.lru = n.lru /\ u.sticky = n.sticky
  <2>1. Unpacked(n, m, u)
    BY <1>1 DEF Unpacked
  <2> QED BY <1>2, <1>5, <2>1, UnpackedIs
<1>7. Known(u) = Known(n)
  BY <1>6 DEF Known
<1>8. HasRows(u) /\ (AllKnown(n) => AllKnown(u))
  <2>1. HasRows(n)
    BY <1>3 DEF Local
  <2> QED BY <1>2, <1>6, <1>7, <2>1 DEF HasRows, AllKnown, Idle
<1>f. \A x : Happened(x) => Happened(x)'
  BY <1>2 DEF Happened
<1>9. Local(u)'
  <2>1. CASE user = "regression"
    <3>1. \A x \in Known(u) : x \in 1..calls'
      BY <1>2, <1>3, <1>7, <2>1 DEF Local
    <3>2. max_size > 0 /\ ~Happened("split")' => AllKnown(u)
      BY <1>3, <1>8, <1>f, <2>1 DEF Local
    <3> QED BY <1>4, <1>6, <1>8, <2>1, <3>1, <3>2, LocalTrain
  <2>2. CASE user # "regression"
    <3>1. user = "recommender" => \A k \in DOMAIN u.orig : k \in Ids(u.table)
      BY <1>3, <1>6 DEF Local
    <3>2. max_size > 0 /\ rounds' = 0 /\ ~Happened("refused")' => \A k \in Ids(u.table) : k \in Known(u)
      BY <1>2, <1>3, <1>6, <1>7, <1>f, <2>2 DEF Local
    <3> QED BY <1>4, <1>6, <1>8, <2>2, <3>1, <3>2, LocalCall
  <2> QED BY <2>1, <2>2
<1>10. Steady'
  BY <1>2, <1>3, <1>4, <1>9, SteadyCall
<1>11. \A q : Abroad(q)' => Abroad(q)
  <2>1. \A q : Lies(u.table, q) \/ Lies(u.values, q) => Abroad(q)
    BY <1>1, <1>6 DEF Abroad
  <2> QED BY <1>2, <1>3, <2>1, AbroadLess
<1>12. OrigRecent'
  <2>1. Happened("cleared")'
    BY <1>2 DEF Happened
  <2> QED BY <2>1 DEF OrigRecent
<1>13. RowsByCall'
  <2>1. \A q : ByCall(q) => ByCall(q)'
    BY <1>3, <1>4, ByCallStays
  <2> QED BY <1>2, <1>3, <1>11, <2>1 DEF RowsByCall
<1>14. ASSUME user = "regression", max_size = 0, ~Happened("split")' PROVE Matched'
  <2>1. Matched
    BY <1>3, <1>f, <1>14 DEF InStep, Matched
  <2>2. Level(m) /\ Level(n)
    BY <1>1, <1>2, <2>1 DEF Matched, Paired, Idle
  <2>3. Level(u)
    BY <1>6, <2>2 DEF Level
  <2>4. UNCHANGED <<phase, asked, mixed>>
    BY <1>2
  <2> QED BY <1>2, <1>3, <1>4, <1>6, <1>11, <1>14, <2>1, <2>3, <2>4, MatchedCall
<1>15. InStep'
  <2>1. max_size' = max_size /\ user' = user
    BY <1>2
  <2> QED BY <1>14, <2>1 DEF InStep, Matched
<1> QED BY <1>10, <1>12, <1>13, <1>15 DEF ServedInv
---------------------------------------------------------------------------
(* MIX: the mixer's steps and get_diff.                                    *)

LEMMA OrigSame ==
    ASSUME OrigRecent, user' = user, disturbed \subseteq disturbed', srv' = srv,
           \A r : Abroad(r)' => Abroad(r)
    PROVE  OrigRecent'
<1> SUFFICES ASSUME user = "recommender", ~Happened("cleared")
             PROVE  /\ \A r : Abroad(r)' => \A o \in Server : r.owner = o => r.clock < srv'[o].table.clock
                    /\ \A o \in Server : \A id \in DOMAIN srv'[o].orig : Latest(o, id)'
  BY DEF OrigRecent, Happened
<1>1. /\ \A r : Abroad(r) => \A o \in Server : r.owner = o => r.clock < srv[o].table.clock
      /\ \A o \in Server : \A id \in DOMAIN srv[o].orig : Latest(o, id)
  BY DEF OrigRecent
<1>2. ASSUME NEW o \in Server, NEW id, Latest(o, id) PROVE Latest(o, id)'
  <2>1. PICK c \in Nat :
           /\ RowOf(srv[o].table, id).clock >= c
           /\ \A r : Abroad(r) /\ r.owner = o /\ r.key = id => r.clock <= c /\ (r.clock = c => r.value = srv[o].orig[id])
    BY <1>2 DEF Latest
  <2> QED BY <2>1 DEF Latest, RowOf
<1> QED BY <1>1, <1>2

LEMMA MixerStep ==
    ASSUME ServedInv, Settled, calls' = calls, srv' = srv, Framed', \A r : Abroad(r)' => Abroad(r),
           user = "regression" /\ max_size = 0 /\ ~Happened("split")' /\ Matched =>
               SameGathered' /\ \A o \in Server : Paired(o)'
    PROVE  ServedInv'
<1>1. Steady' /\ calls \in Nat
  BY SteadySame DEF ServedInv, Steady
<1>2. OrigRecent'
  BY OrigSame DEF ServedInv, Settled
<1>3. RowsByCall'
  <2>1. \A q : ByCall(q) => ByCall(q)'
    BY <1>1, ByCallStays
  <2> QED BY <2>1 DEF ServedInv, RowsByCall, Settled
<1>4. ASSUME user = "regression", max_size = 0, ~Happened("split")' PROVE Matched'
  <2>1. Matched
    BY <1>4 DEF ServedInv, InStep, Matched, Settled, Happened
  <2>2. OneRow' /\ Apart'
    BY <2>1 DEF Matched, OneRow, Apart
  <2> QED BY <1>4, <2>1, <2>2 DEF Matched
<1>5. InStep'
  BY <1>4 DEF InStep, Matched, Settled
<1> QED BY <1>1, <1>2, <1>3, <1>5 DEF ServedInv

LEMMA PairedLevel ==
    ASSUME NEW o \in Server, Paired(o), srv' = srv, \A r : Abroad(r)' => Abroad(r),
           phase' # "put" \/ ~Between(o)',
           srv[o].train.step = "value" => ~Between(o)',
           srv[o].train.step # "value" => Level(srv[o])
    PROVE  Paired(o)'
<1>1. PICK m : m = srv[o] /\ (srv[o])' = m
  OBVIOUS
<1>2. (Level(m)' <=> Level(m)) /\ (Ahead(m)' <=> Ahead(m))
  BY DEF Level, Ahead
<1>3. /\ m.train.step = "row" => \A r : Abroad(r)' => r.key # m.train.id
      /\ m.train.step = "value" => Ahead(m)' /\ ~Between(o)'
      /\ m.train.step # "value" => Level(m)'
  BY <1>1, <1>2 DEF Paired
<1>4. (m.train.step # "value" => (IF phase = "put" /\ Between(o) THEN Behind(m) ELSE Level(m))') <=>
      (m.train.step # "value" => Level(m)')
  OBVIOUS
<1> QED BY <1>1, <1>3, <1>4 DEF Paired, Ahead, Level

LEMMA StartRoundStep ==
    ASSUME NeighborAssumption, ServedInv, StartRound
    PROVE  ServedInv'
<1>1. /\ phase = "idle" /\ rounds' = rounds + 1 /\ phase' = "get" /\ asked' = Server \X Tables
      /\ mixed' = [table |-> <<>>, values |-> <<>>] /\ srv' = srv /\ disturbed' = disturbed
      /\ user' = user /\ max_size' = max_size /\ calls' = calls
  BY DEF StartRound, Mixer
<1>2. Steady /\ rounds \in Nat /\ calls \in Nat /\ asked = {}
  BY <1>1 DEF ServedInv, Steady, Framed
<1>3. Settled
  BY <1>1, <1>2 DEF Settled
<1>4. mixed'.table = <<>> /\ mixed'.values = <<>> /\ Range(<<>>) = {}
  BY <1>1 DEF Range
<1>5. Framed'
  <2>1. Tables' = Tables
    BY <1>1 DEF Tables
  <2>2. mixed' \in [table : Seq(RowSet), values : Seq(RowSet)]
    BY <1>1
  <2>3. user = "regression" => \A s \in Server : <<s, "values">> \in asked'
    BY <1>1 DEF Tables
  <2>4. rounds' # 0
    BY <1>1, <1>2
  <2> QED BY <1>1, <2>1, <2>2, <2>3, <2>4 DEF Framed
<1>6. \A r : Abroad(r)' => Abroad(r)
  BY <1>1, <1>4 DEF Abroad, Lies
<1>7. ASSUME user = "regression", Matched PROVE SameGathered' /\ \A o \in Server : Paired(o)'
  <2>1. \A o \in Server : ~Between(o)' /\ ~Between(o)
    BY <1>1, <1>2, <1>7 DEF Between, Tables
  <2>2. SameGathered'
    BY <1>1, <1>4, <2>1 DEF SameGathered
  <2>3. ASSUME NEW o \in Server PROVE Paired(o)'
    <3>1. Paired(o) /\ (srv[o].train.step # "value" => Level(srv[o]))
      BY <1>7, <2>1 DEF Matched, Paired
    <3> QED BY <1>1, <1>6, <2>1, <3>1, PairedLevel
  <2> QED BY <2>2, <2>3
<1> QED BY <1>1, <1>3, <1>5, <1>6, <1>7, MixerStep

LEMMA StartPutStep ==
    ASSUME NeighborAssumption, ServedInv, StartPut
    PROVE  ServedInv'
<1>1. /\ phase = "get" /\ asked = {} /\ phase' = "put" /\ asked' = Server \X Tables
      /\ mixed' = mixed /\ srv' = srv /\ disturbed' = disturbed /\ rounds' = rounds
      /\ user' = user /\ max_size' = max_size /\ calls' = calls
  BY DEF StartPut, Mixer
<1>2. Steady /\ rounds \in Nat /\ calls \in Nat /\ rounds # 0 /\ Framed
  BY <1>1 DEF ServedInv, Steady, Framed
<1>3. Settled
  BY <1>1, <1>2 DEF Settled
<1>5. Framed'
  <2>1. Tables' = Tables
    BY <1>1 DEF Tables
  <2>3. user = "regression" => \A s \in Server : <<s, "values">> \in asked'
    BY <1>1 DEF Tables
  <2> QED BY <1>1, <1>2, <2>1, <2>3 DEF Framed
<1>6. \A r : Abroad(r)' => Abroad(r)
  BY <1>1 DEF Abroad, Lies
<1>7. ASSUME user = "regression", Matched PROVE SameGathered' /\ \A o \in Server : Paired(o)'
  <2>1. \A o \in Server : ~Between(o)' /\ ~Between(o)
    BY <1>1, <1>2, <1>7 DEF Between, Tables
  <2>2. SameGathered'
    BY <1>1, <1>7, <2>1 DEF Matched, SameGathered
  <2>3. ASSUME NEW o \in Server PROVE Paired(o)'
    <3>1. Paired(o) /\ (srv[o].train.step # "value" => Level(srv[o]))
      BY <1>7, <2>1 DEF Matched, Paired
    <3> QED BY <1>1, <1>6, <2>1, <3>1, PairedLevel
  <2> QED BY <2>2, <2>3
<1> QED BY <1>1, <1>3, <1>5, <1>6, <1>7, MixerStep

LEMMA EndRoundStep ==
    ASSUME NeighborAssumption, ServedInv, EndRound
    PROVE  ServedInv'
<1>1. /\ phase = "put" /\ asked = {} /\ phase' = "idle" /\ asked' = asked
      /\ mixed' = mixed /\ srv' = srv /\ disturbed' = disturbed /\ rounds' = rounds
      /\ user' = user /\ max_size' = max_size /\ calls' = calls
  BY DEF EndRound, Mixer
<1>2. Steady /\ rounds \in Nat /\ calls \in Nat /\ Framed
  BY <1>1 DEF ServedInv, Steady
<1>3. Settled
  BY <1>1, <1>2 DEF Settled
<1>5. Framed'
  <2>1. Tables' = Tables
    BY <1>1 DEF Tables
  <2> QED BY <1>1, <1>2, <2>1 DEF Framed
<1>6. \A r : Abroad(r)' => Abroad(r)
  BY <1>1 DEF Abroad, Lies
<1>7. ASSUME user = "regression", Matched PROVE SameGathered' /\ \A o \in Server : Paired(o)'
  <2>1. \A o \in Server : ~Between(o)' /\ ~Between(o)
    BY <1>1 DEF Between
  <2>2. SameGathered'
    BY <1>1 DEF SameGathered
  <2>3. ASSUME NEW o \in Server PROVE Paired(o)'
    <3>1. Paired(o) /\ (srv[o].train.step # "value" => Level(srv[o]))
      BY <1>7, <2>1 DEF Matched, Paired
    <3> QED BY <1>1, <1>6, <2>1, <3>1, PairedLevel
  <2> QED BY <2>2, <2>3
<1> QED BY <1>1, <1>3, <1>5, <1>6, <1>7, MixerStep
LEMMA RangeJoined ==
    ASSUME NEW S, NEW a \in Seq(S), NEW b \in Seq(S)
    PROVE  a \o b \in Seq(S) /\ \A q : q \in Range(a \o b) <=> q \in Range(a) \/ q \in Range(b)
<1>1. PICK c, n, k : c = a \o b /\ n = Len(a) /\ k = Len(b)
  OBVIOUS
<1>2. /\ c \in Seq(S) /\ n \in Nat /\ k \in Nat /\ DOMAIN c = 1..(n + k) /\ DOMAIN a = 1..n /\ DOMAIN b = 1..k
      /\ \A i \in 1..(n + k) : c[i] = IF i <= n THEN a[i] ELSE b[i - n]
  BY <1>1
<1>3. ASSUME NEW q, q \in Range(a) PROVE q \in Range(c)
  <2>1. PICK i \in 1..n : q = a[i]
    BY <1>2, <1>3 DEF Range
  <2>2. i \in 1..(n + k) /\ c[i] = a[i]
    BY <1>2
  <2> QED BY <1>2, <2>1, <2>2 DEF Range
<1>4. ASSUME NEW q, q \in Range(b) PROVE q \in Range(c)
  <2>1. PICK i \in 1..k : q = b[i]
    BY <1>2, <1>4 DEF Range
  <2>2. n + i \in 1..(n + k) /\ ~(n + i <= n) /\ (n + i) - n = i
    BY <1>2
  <2>3. c[n + i] = b[i]
    BY <1>2, <2>2
  <2> QED BY <1>2, <2>1, <2>2, <2>3 DEF Range
<1>5. ASSUME NEW q, q \in Range(c) PROVE q \in Range(a) \/ q \in Range(b)
  <2>1. PICK i \in 1..(n + k) : q = c[i]
    BY <1>2, <1>5 DEF Range
  <2>2. CASE i <= n
    <3>1. i \in 1..n /\ q = a[i]
      BY <1>2, <2>1, <2>2
    <3> QED BY <1>2, <3>1 DEF Range
  <2>3. CASE ~(i <= n)
    <3>1. i - n \in 1..k
      BY <1>2, <2>3
    <3>2. q = b[i - n]
      BY <1>2, <2>1, <2>3
    <3> QED BY <1>2, <3>1, <3>2 DEF Range
  <2> QED BY <2>2, <2>3
<1> QED BY <1>1, <1>2, <1>3, <1>4, <1>5

\* The mixer has asked this server.
Asked(s, w) ==
    /\ <<s, w>> \in asked /\ asked' = asked \ {<<s, w>>}
    /\ phase' = phase /\ rounds' = rounds /\ phase # "idle"
    /\ user' = user /\ max_size' = max_size /\ calls' = calls
    /\ disturbed' = disturbed \cup (IF srv[s].train = Idle THEN {} ELSE {<<"split", s>>})

LEMMA AskedIs ==
    ASSUME Steady, NEW s \in Server, NEW w, Asked(s, w), InOrder(s, w),
           mixed' \in [table : Seq(RowSet), values : Seq(RowSet)]
    PROVE  /\ Settled /\ Framed'
           /\ w \in {"table", "values"} /\ (w = "values" => user = "regression")
           /\ ~Happened("split")' => ~Happened("split") /\ srv[s].train = Idle
           /\ \A o \in Server : o # s => (Between(o)' <=> Between(o))
           /\ w = "table" => ~Between(s) /\ (user = "regression" => Between(s)')
           /\ w = "values" => Between(s) /\ ~Between(s)'
<1>1. Framed /\ calls \in Nat /\ rounds \in Nat
  BY DEF Steady
<1>2. Settled
  BY <1>1 DEF Settled, Asked
<1>3. w \in Tables /\ Tables' = Tables
  BY <1>1 DEF Framed, Tables, Asked
<1>4. w \in {"table", "values"} /\ (w = "values" => user = "regression")
  BY <1>3 DEF Tables
<1>5. w = "values" => <<s, "table">> \notin asked
  BY DEF InOrder
<1>6. user = "regression" => \A o \in Server : <<o, "table">> \in asked' => <<o, "values">> \in asked'
  <2>1. ASSUME user = "regression", NEW o \in Server, <<o, "table">> \in asked' PROVE <<o, "values">> \in asked'
    <3>1. <<o, "table">> \in asked /\ <<o, "table">> # <<s, w>>
      BY <2>1 DEF Asked
    <3>2. <<o, "values">> \in asked
      BY <1>1, <2>1, <3>1 DEF Framed
    <3>3. <<o, "values">> # <<s, w>>
      BY <1>5, <3>1
    <3> QED BY <3>2, <3>3 DEF Asked
  <2> QED BY <2>1
<1>7. Framed'
  <2>1. asked' \in SUBSET (Server \X Tables)
    BY <1>1 DEF Framed, Asked
  <2> QED BY <1>1, <1>3, <1>6, <2>1 DEF Framed, Asked
<1>8. ~Happened("split")' => ~Happened("split") /\ srv[s].train = Idle
  BY DEF Asked, Happened
<1>9. \A o \in Server : o # s => (Between(o)' <=> Between(o))
  BY DEF Asked, Between
<1>10. w = "table" => ~Between(s) /\ (user = "regression" => Between(s)')
  <2>1. w = "table" /\ user = "regression" => <<s, "values">> \in asked
    BY <1>1 DEF Asked, Framed
  <2> QED BY <2>1 DEF Asked, Between
<1>11. w = "values" => Between(s) /\ ~Between(s)'
  BY <1>5 DEF Asked, Between
<1> QED BY <1>2, <1>4, <1>7, <1>8, <1>9, <1>10, <1>11

LEMMA GetTableStep ==
    ASSUME NeighborAssumption, ServedInv, NEW s \in Server, get_diff(s, "table")
    PROVE  ServedInv'
<1>1. PICK m, a, b : m = srv[s] /\ a = mixed.table /\ b = PullRows(m.table, m.vc)
  OBVIOUS
<1>2. /\ Asked(s, "table") /\ InOrder(s, "table") /\ phase = "get" /\ srv' = srv
      /\ mixed' = [mixed EXCEPT !.table = a \o b]
  BY <1>1 DEF get_diff, Asked, Mixer, Gathered, Pulled
<1>3. Steady /\ Local(m) /\ a \in Seq(RowSet) /\ mixed \in [table : Seq(RowSet), values : Seq(RowSet)]
  BY <1>1 DEF ServedInv, Steady, Framed
<1>4. Good(m) /\ Sound(m.table)
  BY <1>3 DEF Local, Good
<1>5. /\ b \in Seq(RowSet)
      /\ \A r : r \in Range(b) <=> Lies(m.table, r) /\ Seen(m.vc, r.owner) < r.clock
  BY <1>1, <1>4, PullRowsIs
<1>6. a \o b \in Seq(RowSet) /\ \A q : q \in Range(a \o b) <=> q \in Range(a) \/ q \in Range(b)
  BY <1>3, <1>5, RangeJoined
<1>7. mixed'.table = a \o b /\ mixed'.values = mixed.values
      /\ mixed' \in [table : Seq(RowSet), values : Seq(RowSet)]
  BY <1>2, <1>3, <1>6
<1>8. /\ Settled /\ Framed'
      /\ ~Happened("split")' => ~Happened("split") /\ srv[s].train = Idle
      /\ \A o \in Server : o # s => (Between(o)' <=> Between(o))
      /\ ~Between(s) /\ (user = "regression" => Between(s)')
  BY <1>2, <1>3, <1>7, AskedIs
<1>9. \A r : Abroad(r)' => Abroad(r)
  BY <1>1, <1>2, <1>5, <1>6, <1>7 DEF Abroad, Lies
<1>10. ASSUME user = "regression", ~Happened("split")', Matched
       PROVE  SameGathered' /\ \A o \in Server : Paired(o)'
  <2>1. m.train = Idle
    BY <1>1, <1>8, <1>10
  <2>2. \A r : Lies(m.table, r) => r.owner = ""
    BY <1>1, <1>10 DEF ServedInv, RowsByCall, ByCall, Abroad
  <2>3. \A r : r \in Range(mixed'.table) <=> r \in Range(mixed.table) \/ ToPull(m, r)
    <3>1. \A r : r \in Range(b) <=> ToPull(m, r)
      BY <1>5, <2>2 DEF ToPull
    <3> QED BY <1>1, <1>6, <1>7, <3>1
  <2>4. SameGathered'
    <3>1. \A r : r \in Range(mixed.table) <=>
                 r \in Range(mixed.values) \/ \E o \in Server : Between(o) /\ ToPull(srv[o], r)
      BY <1>2, <1>10 DEF Matched, SameGathered
    <3>2. \A r : (\E o \in Server : Between(o)' /\ ToPull(srv[o], r)) <=>
                 (\E o \in Server : Between(o) /\ ToPull(srv[o], r)) \/ ToPull(m, r)
      BY <1>1, <1>8, <1>10
    <3>3. \A r : \A o \in Server : ToPull(srv[o], r)' <=> ToPull(srv[o], r)
      BY <1>2 DEF ToPull, Lies
    <3>4. phase' = "get"
      BY <1>2 DEF Asked
    <3> QED BY <1>7, <2>3, <3>1, <3>2, <3>3, <3>4 DEF SameGathered
  <2>5. ASSUME NEW o \in Server PROVE Paired(o)'
    <3>1. Paired(o)
      BY <1>10 DEF Matched
    <3>2. srv[o].train.step # "value" => Level(srv[o])
      BY <1>2, <3>1 DEF Paired
    <3>3. srv[o].train.step = "value" => ~Between(o)'
      <4>1. CASE o = s
        BY <1>1, <2>1, <4>1 DEF Idle
      <4>2. CASE o # s
        BY <1>8, <3>1, <4>2 DEF Paired
      <4> QED BY <4>1, <4>2
    <3>4. phase' # "put"
      BY <1>2 DEF Asked
    <3> QED BY <1>2, <1>9, <3>1, <3>2, <3>3, <3>4, PairedLevel
  <2> QED BY <2>4, <2>5
<1>11. calls' = calls
  BY <1>2 DEF Asked
<1> QED BY <1>2, <1>8, <1>9, <1>10, <1>11, MixerStep

LEMMA GetValuesStep ==
    ASSUME NeighborAssumption, ServedInv, NEW s \in Server, get_diff(s, "values")
    PROVE  ServedInv'
<1>1. PICK m, a, b : m = srv[s] /\ a = mixed.values /\ b = PullRows(m.values, m.vvc)
  OBVIOUS
<1>2. /\ Asked(s, "values") /\ InOrder(s, "values") /\ phase = "get" /\ srv' = srv
      /\ mixed' = [mixed EXCEPT !.values = a \o b]
  BY <1>1 DEF get_diff, Asked, Mixer, Gathered, Pulled
<1>3. Steady /\ Local(m) /\ a \in Seq(RowSet) /\ mixed \in [table : Seq(RowSet), values : Seq(RowSet)]
  BY <1>1 DEF ServedInv, Steady, Framed
<1>4. Good(m) /\ Sound(m.values)
  BY <1>3 DEF Local, Good
<1>5. /\ b \in Seq(RowSet)
      /\ \A r : r \in Range(b) <=> Lies(m.values, r) /\ Seen(m.vvc, r.owner) < r.clock
  BY <1>1, <1>4, PullRowsIs
<1>6. a \o b \in Seq(RowSet) /\ \A q : q \in Range(a \o b) <=> q \in Range(a) \/ q \in Range(b)
  BY <1>3, <1>5, RangeJoined
<1>7. mixed'.values = a \o b /\ mixed'.table = mixed.table
      /\ mixed' \in [table : Seq(RowSet), values : Seq(RowSet)]
  BY <1>2, <1>3, <1>6
<1>8. /\ Settled /\ Framed' /\ user = "regression"
      /\ ~Happened("split")' => ~Happened("split") /\ srv[s].train = Idle
      /\ \A o \in Server : o # s => (Between(o)' <=> Between(o))
      /\ Between(s) /\ ~Between(s)'
  BY <1>2, <1>3, <1>7, AskedIs
<1>9. \A r : Abroad(r)' => Abroad(r)
  BY <1>1, <1>2, <1>5, <1>6, <1>7 DEF Abroad, Lies
<1>10. ASSUME ~Happened("split")', Matched
       PROVE  SameGathered' /\ \A o \in Server : Paired(o)'
  <2>1. m.train = Idle
    BY <1>1, <1>8, <1>10
  <2>2. \A r : Lies(m.values, r) => r.owner = ""
    BY <1>1, <1>8 DEF ServedInv, RowsByCall, ByCall, Abroad
  <2>3. Level(m)
    BY <1>1, <1>2, <1>10, <2>1 DEF Matched, Paired, Idle
  <2>4. \A r : Lies(m.values, r) <=> Lies(m.table, r)
    <3>1. Shaped(m.table) /\ Shaped(m.values)
      BY <1>4 DEF Good, Sound
    <3>2. \A p, q : Abroad(p) /\ Abroad(q) /\ p.key = q.key => p = q
      BY <1>10 DEF Matched, OneRow
    <3>3. \A k : k \in Ids(m.table) <=> k \in Ids(m.values)
      BY <2>3 DEF Level
    <3>4. ASSUME NEW t, Shaped(t), NEW k \in Ids(t) PROVE Lies(t, RowOf(t, k)) /\ RowOf(t, k).key = k
      BY <3>4, RowsRead DEF Lies
    <3>5. \A k \in Ids(m.table) : /\ Lies(m.table, RowOf(m.table, k)) /\ RowOf(m.table, k).key = k
                                  /\ Lies(m.values, RowOf(m.values, k)) /\ RowOf(m.values, k).key = k
      BY <3>1, <3>3, <3>4
    <3>6. \A k \in Ids(m.table) : RowOf(m.table, k) = RowOf(m.values, k)
      BY <1>1, <3>2, <3>5 DEF Abroad
    <3> QED BY <3>3, <3>6 DEF Lies
  <2>5. \A r : r \in Range(mixed'.values) <=> r \in Range(mixed.values) \/ ToPull(m, r)
    <3>1. \A r : r \in Range(b) <=> Lies(m.values, r) /\ Seen(m.vvc, "") < r.clock
      BY <1>5, <2>2
    <3>2. Seen(m.vvc, "") = Seen(m.vc, "")
      BY <2>3 DEF Level
    <3> QED BY <1>1, <1>6, <1>7, <2>4, <3>1, <3>2 DEF ToPull
  <2>6. SameGathered'
    <3>1. \A r : r \in Range(mixed.table) <=>
                 r \in Range(mixed.values) \/ \E o \in Server : Between(o) /\ ToPull(srv[o], r)
      BY <1>2, <1>10 DEF Matched, SameGathered
    <3>2. \A r : (\E o \in Server : Between(o) /\ ToPull(srv[o], r)) <=>
                 (\E o \in Server : Between(o)' /\ ToPull(srv[o], r)) \/ ToPull(m, r)
      BY <1>1, <1>8
    <3>3. \A r : \A o \in Server : ToPull(srv[o], r)' <=> ToPull(srv[o], r)
      BY <1>2 DEF ToPull, Lies
    <3>4. phase' = "get"
      BY <1>2 DEF Asked
    <3> QED BY <1>7, <2>5, <3>1, <3>2, <3>3, <3>4 DEF SameGathered
  <2>7. ASSUME NEW o \in Server PROVE Paired(o)'
    <3>1. Paired(o)
      BY <1>10 DEF Matched
    <3>2. srv[o].train.step # "value" => Level(srv[o])
      BY <1>2, <3>1 DEF Paired
    <3>3. srv[o].train.step = "value" => ~Between(o)'
      BY <1>8, <3>1 DEF Paired
    <3>4. phase' # "put"
      BY <1>2 DEF Asked
    <3> QED BY <1>2, <1>9, <3>1, <3>2, <3>3, <3>4, PairedLevel
  <2> QED BY <2>6, <2>7
<1>11. calls' = calls
  BY <1>2 DEF Asked
<1> QED BY <1>2, <1>8, <1>9, <1>10, <1>11, MixerStep
---------------------------------------------------------------------------
(* put_diff.                                                               *)

\* Of a server MIX put rows to, once both its tables are paired again.
LEMMA MatchedPut ==
    ASSUME Steady, NEW s \in Server, NEW u, Turned(s, u), NEW w, Asked(s, w), mixed' = mixed,
           phase = "put", Matched, srv[s].train = Idle, u.train = Idle,
           \A r : Abroad(r)' => Abroad(r),
           \A o \in Server : o # s => (Between(o)' <=> Between(o)),
           IF Between(s)' THEN Behind(u) ELSE Level(u)
    PROVE  Matched'
<1>1. (srv[s])' = u /\ (\A o \in Server : o # s => (srv[o])' = srv[o]) /\ phase' = "put"
  BY TurnedIs DEF Asked
<1>2. OneRow /\ Apart /\ SameGathered /\ \A o \in Server : Paired(o)
  BY DEF Matched
<1>3. OneRow'
  BY <1>2 DEF OneRow
<1>4. Apart'
  <2>1. \A o \in Server : (srv[o])'.train = srv[o].train
    BY <1>1
  <2> QED BY <1>2, <2>1 DEF Apart, Idle
<1>5. SameGathered'
  BY <1>1, <1>2 DEF SameGathered
<1>6. ASSUME NEW o \in Server PROVE Paired(o)'
  <2>1. CASE o # s
    BY <1>1, <1>2, <2>1, PairedStays
  <2>2. CASE o = s
    <3>1. u.train.step # "row" /\ u.train.step # "value"
      BY DEF Idle
    <3>2. Behind(u) => Behind(u)'
      BY DEF Behind, Reached, Ids, Seen
    <3>3. Level(u) => Level(u)'
      BY DEF Level, Ids, Seen
    <3>4. IF Between(s)' THEN Behind(u)' ELSE Level(u)'
      BY <3>2, <3>3
    <3> QED BY <1>1, <2>2, <3>1, <3>4 DEF Paired, Behind, Level
  <2> QED BY <2>1, <2>2
<1> QED BY <1>3, <1>4, <1>5, <1>6 DEF Matched

LEMMA PutTableStep ==
    ASSUME NeighborAssumption, ServedInv, NEW s \in Server, put_diff(s, "table")
    PROVE  ServedInv'
<1>1. PICK m, a, S, u : m = srv[s] /\ a = mixed.table /\ S = Range(a) /\ u = PutRows(m, "table", a)
  OBVIOUS
<1>2. /\ Asked(s, "table") /\ InOrder(s, "table") /\ phase = "put" /\ Turned(s, u) /\ mixed' = mixed
  BY <1>1 DEF put_diff, Asked, Mixer, Gathered, Turned
<1>3. /\ Steady /\ Local(m) /\ a \in Seq(RowSet) /\ mixed \in [table : Seq(RowSet), values : Seq(RowSet)]
      /\ max_size \in Nat /\ calls \in Nat /\ RowsByCall /\ InStep /\ rounds # 0 /\ OrigRecent
  BY <1>1, <1>2 DEF ServedInv, Steady, Framed
<1>4. Good(m) /\ HasRows(m)
  BY <1>3 DEF Local
<1>5. PutInTable(m, u, S)
  BY <1>1, <1>3, <1>4, PutRowsInTable
<1>6. /\ Good(u) /\ u.train = m.train /\ u.vvc = m.vvc
      /\ \A r : Lies(u.values, r) => Lies(m.values, r)
      /\ \A r : Lies(u.table, r) => Lies(m.table, r) \/ r \in S
      /\ \A x \in Known(u) : x \notin Ids(u.table) => x \in Known(m) /\ x \notin Ids(m.table)
      /\ \A x \in Known(u) : x \in Known(m) \/ \E r \in S : x = r.key
  BY <1>5 DEF PutInTable, Carries
<1>7. /\ Settled /\ Framed'
      /\ ~Happened("split")' => ~Happened("split") /\ m.train = Idle
      /\ \A o \in Server : o # s => (Between(o)' <=> Between(o))
      /\ ~Between(s) /\ (user = "regression" => Between(s)')
  BY <1>1, <1>2, <1>3, AskedIs
<1>8. \A q : q \in S => Abroad(q)
  BY <1>1 DEF Abroad
<1>9. \A r : Abroad(r)' => Abroad(r)
  <2>1. \A q : Lies(u.table, q) \/ Lies(u.values, q) => Abroad(q)
    BY <1>1, <1>6, <1>8 DEF Abroad
  <2> QED BY <1>2, <1>3, <2>1, AbroadLess
<1>c. user = "regression" => \A q : Abroad(q) => ByCall(q)
  BY <1>3 DEF RowsByCall
<1>10. HasRows(u)
  BY <1>4, <1>6 DEF HasRows
<1>11. calls' = calls /\ user' = user /\ rounds' = rounds /\ max_size' = max_size
       /\ disturbed \subseteq disturbed'
  BY <1>2 DEF Asked
<1>12. Local(u)'
  <2>1. CASE user = "regression"
    <3>1. \A x \in Known(m) : x \in 1..calls
      BY <1>3, <2>1 DEF Local
    <3>2. \A r \in S : r.key \in 1..calls
      BY <1>8, <1>c, <2>1 DEF ByCall
    <3>3. \A x \in Known(u) : x \in 1..calls'
      BY <1>6, <1>11, <3>1, <3>2
    <3>4. u.train # Idle => u.train.id \in 1..calls'
      BY <1>3, <1>6, <1>11, <2>1 DEF Local
    <3>5. ASSUME max_size > 0, ~Happened("split")' PROVE AllKnown(u)
      <4>1. AllKnown(m) /\ m.train = Idle
        BY <1>3, <1>7, <2>1, <3>5 DEF Local
      <4>2. m.sticky = {} /\ \A x \in Sticky : x \notin 1..calls
        BY <1>3, <2>1, NoneSticky
      <4>3. \A r \in S : r.key \notin Sticky
        BY <3>2, <4>2
      <4>4. Bounds(m, u, S)
        BY <1>5, <2>1, <3>5 DEF PutInTable
      <4>5. Ids(u.table) \subseteq Known(u)
        BY <4>1, <4>2, <4>3, <4>4 DEF Bounds, AllKnown
      <4>6. u.train.step # "row"
        BY <1>6, <4>1 DEF Idle
      <4> QED BY <4>5, <4>6 DEF AllKnown
    <3> QED BY <1>6, <1>7, <1>10, <2>1, <3>3, <3>4, <3>5, LocalTrain
  <2>2. CASE user # "regression"
    <3>1. Widens(m, u)
      BY <1>5, <2>2 DEF PutInTable
    <3>2. user = "recommender" => \A k \in DOMAIN u.orig : k \in Ids(u.table)
      BY <1>3, <3>1 DEF Local, Widens
    <3>3. u.train = Idle
      BY <1>3, <1>6, <2>2 DEF Local
    <3> QED BY <1>3, <1>6, <1>7, <1>10, <1>11, <2>2, <3>2, <3>3, LocalCall
  <2> QED BY <2>1, <2>2
<1>13. Steady'
  BY <1>2, <1>3, <1>7, <1>12, SteadyTurn
<1>14. OrigRecent'
  <2>1. CASE user # "recommender"
    BY <1>11, <2>1, NotRecommender
  <2>2. CASE user = "recommender"
    <3>1. Widens(m, u)
      BY <1>5, <2>2 DEF PutInTable
    <3>2. \A k \in DOMAIN u.orig : /\ k \in DOMAIN m.orig /\ u.orig[k] = m.orig[k]
                                   /\ k \in Ids(u.table)
                                   /\ RowOf(u.table, k).clock >= RowOf(m.table, k).clock
      BY <1>3, <2>2, <3>1 DEF Local, Widens
    <3>3. m.table.clock <= u.table.clock
      BY <3>1 DEF Widens
    <3> QED BY <1>1, <1>2, <1>3, <1>6, <1>9, <1>11, <3>2, <3>3, OrigKept
  <2> QED BY <2>1, <2>2
<1>15. RowsByCall'
  <2>1. \A q : ByCall(q) => ByCall(q)'
    BY <1>3, <1>7, ByCallStays
  <2> QED BY <1>9, <1>11, <1>c, <2>1 DEF RowsByCall
<1>16. ASSUME user = "regression", max_size = 0, ~Happened("split")' PROVE Matched'
  <2>1. Matched /\ m.train = Idle
    BY <1>3, <1>7, <1>16 DEF InStep, Matched
  <2>2. Level(m)
    BY <1>1, <1>7, <2>1 DEF Matched, Paired, Idle
  <2>3. \A r : r \in S <=> r \in Range(mixed.values)
    BY <1>1, <1>2, <2>1 DEF Matched, SameGathered
  <2>4. S = Range(mixed.values)
    BY <2>3
  <2>5. \A r \in S : r.owner = ""
    BY <1>8, <1>16, <1>c DEF ByCall
  <2>6. /\ u.values = m.values
        /\ \A k : k \in Ids(u.table) <=> k \in Ids(m.table) \/ \E r \in S : r.key = k
        /\ Reached(m.table.clock, S, u.table.clock, 1)
        /\ Reached(Seen(m.vc, ""), S, Seen(u.vc, ""), 0)
    BY <1>5, <1>16, <2>5 DEF PutInTable, Follows
  <2>7. /\ \A k : k \in Ids(m.table) <=> k \in Ids(m.values)
        /\ m.table.clock = m.values.clock
        /\ Seen(m.vc, "") = Seen(m.vvc, "")
    BY <2>2 DEF Level
  <2>8. Behind(u)
    <3>1. \A k : k \in Ids(u.table) <=>
                 k \in Ids(u.values) \/ \E r \in Range(mixed.values) : r.key = k
      BY <2>4, <2>6, <2>7
    <3>2. Reached(u.values.clock, Range(mixed.values), u.table.clock, 1)
      BY <2>4, <2>6, <2>7
    <3>3. Reached(Seen(u.vvc, ""), Range(mixed.values), Seen(u.vc, ""), 0)
      BY <1>6, <2>4, <2>6, <2>7
    <3> QED BY <3>1, <3>2, <3>3 DEF Behind
  <2>9. u.train = Idle
    BY <1>6, <2>1
  <2> QED BY <1>1, <1>2, <1>3, <1>7, <1>9, <1>16, <2>1, <2>8, <2>9, MatchedPut
<1>17. InStep'
  BY <1>11, <1>16 DEF InStep, Matched
<1> QED BY <1>13, <1>14, <1>15, <1>17 DEF ServedInv

LEMMA PutValuesStep ==
    ASSUME NeighborAssumption, ServedInv, NEW s \in Server, put_diff(s, "values")
    PROVE  ServedInv'
<1>1. PICK m, a, S, u : m = srv[s] /\ a = mixed.values /\ S = Range(a) /\ u = PutRows(m, "values", a)
  OBVIOUS
<1>2. /\ Asked(s, "values") /\ InOrder(s, "values") /\ phase = "put" /\ Turned(s, u) /\ mixed' = mixed
  BY <1>1 DEF put_diff, Asked, Mixer, Gathered, Turned
<1>3. /\ Steady /\ Local(m) /\ a \in Seq(RowSet) /\ mixed \in [table : Seq(RowSet), values : Seq(RowSet)]
      /\ max_size \in Nat /\ calls \in Nat /\ RowsByCall /\ InStep
  BY <1>1 DEF ServedInv, Steady, Framed
<1>4. Good(m) /\ HasRows(m)
  BY <1>3 DEF Local
<1>5. PutInValues(m, u, S)
  BY <1>1, <1>3, <1>4, PutRowsInValues
<1>6. /\ Good(u) /\ u.table = m.table /\ u.vc = m.vc
      /\ u.lru = m.lru /\ u.sticky = m.sticky /\ u.train = m.train
      /\ \A r : Lies(u.values, r) => Lies(m.values, r) \/ r \in S
      /\ \A k : k \in Ids(u.values) <=> k \in Ids(m.values) \/ \E r \in S : r.key = k
      /\ Reached(m.values.clock, S, u.values.clock, 1)
      /\ (\A r \in S : r.owner = "") => Reached(Seen(m.vvc, ""), S, Seen(u.vvc, ""), 0)
  BY <1>5 DEF PutInValues
<1>7. /\ Settled /\ Framed' /\ user = "regression"
      /\ ~Happened("split")' => ~Happened("split") /\ m.train = Idle
      /\ \A o \in Server : o # s => (Between(o)' <=> Between(o))
      /\ Between(s) /\ ~Between(s)'
  BY <1>1, <1>2, <1>3, AskedIs
<1>8. \A q : q \in S => Abroad(q)
  BY <1>1 DEF Abroad
<1>9. \A r : Abroad(r)' => Abroad(r)
  <2>1. \A q : Lies(u.table, q) \/ Lies(u.values, q) => Abroad(q)
    BY <1>1, <1>6, <1>8 DEF Abroad
  <2> QED BY <1>2, <1>3, <2>1, AbroadLess
<1>c. \A q : Abroad(q) => ByCall(q)
  BY <1>3, <1>7 DEF RowsByCall
<1>11. calls' = calls /\ user' = user /\ max_size' = max_size
  BY <1>2 DEF Asked
<1>k. Known(u) = Known(m)
  BY <1>6 DEF Known
<1>12. Local(u)'
  <2>1. HasRows(u) /\ (AllKnown(m) => AllKnown(u))
    BY <1>4, <1>6, <1>k DEF HasRows, AllKnown
  <2>2. \A x \in Known(u) : x \in 1..calls'
    BY <1>3, <1>7, <1>11, <1>k DEF Local
  <2>3. u.train # Idle => u.train.id \in 1..calls'
    BY <1>3, <1>6, <1>7, <1>11 DEF Local
  <2>4. max_size > 0 /\ ~Happened("split")' => AllKnown(u)
    BY <1>3, <1>7, <2>1 DEF Local
  <2> QED BY <1>6, <1>7, <2>1, <2>2, <2>3, <2>4, LocalTrain
<1>13. Steady'
  BY <1>2, <1>3, <1>7, <1>12, SteadyTurn
<1>14. OrigRecent'
  BY <1>7, <1>11, NotRecommender
<1>15. RowsByCall'
  <2>1. \A q : ByCall(q) => ByCall(q)'
    BY <1>3, <1>7, ByCallStays
  <2> QED BY <1>9, <1>c, <2>1 DEF RowsByCall
<1>16. ASSUME max_size = 0, ~Happened("split")' PROVE Matched'
  <2>1. Matched /\ m.train = Idle
    BY <1>3, <1>7, <1>16 DEF InStep, Matched
  <2>2. Behind(m)
    BY <1>1, <1>2, <1>7, <2>1 DEF Matched, Paired, Idle
  <2>3. \A r \in S : r.owner = ""
    BY <1>8, <1>c DEF ByCall
  <2>4. /\ \A k : k \in Ids(m.table) <=> k \in Ids(m.values) \/ \E r \in S : r.key = k
        /\ Reached(m.values.clock, S, m.table.clock, 1)
        /\ Reached(Seen(m.vvc, ""), S, Seen(m.vc, ""), 0)
    BY <1>1, <2>2 DEF Behind
  <2>5. \A r \in S : r.clock \in Int
    BY <1>3, <1>8, AbroadIs
  <2>6. u.values.clock = m.table.clock
    <3>1. PICK c, d, e : c = m.values.clock /\ d = u.values.clock /\ e = m.table.clock
      OBVIOUS
    <3>2. Reached(c, S, d, 1) /\ Reached(c, S, e, 1)
      BY <1>6, <2>4, <3>1
    <3>3. d = e
      BY <2>5, <3>2, ReachedOne
    <3> QED BY <3>1, <3>3
  <2>7. Seen(u.vvc, "") = Seen(m.vc, "")
    <3>1. PICK c, d, e : c = Seen(m.vvc, "") /\ d = Seen(u.vvc, "") /\ e = Seen(m.vc, "")
      OBVIOUS
    <3>2. Reached(c, S, d, 0) /\ Reached(c, S, e, 0)
      BY <1>6, <2>3, <2>4, <3>1
    <3>3. d = e
      BY <2>5, <3>2, ReachedOne
    <3> QED BY <3>1, <3>3
  <2>8. Level(u)
    BY <1>6, <2>4, <2>6, <2>7 DEF Level
  <2>9. u.train = Idle
    BY <1>6, <2>1
  <2> QED BY <1>1, <1>2, <1>3, <1>7, <1>9, <2>1, <2>8, <2>9, MatchedPut
<1>17. InStep'
  BY <1>11, <1>16 DEF InStep, Matched
<1> QED BY <1>13, <1>14, <1>15, <1>17 DEF ServedInv
---------------------------------------------------------------------------
(* The invariant holds at first, is kept, and is enough.                   *)

LEMMA ServedInitially == ASSUME NeighborAssumption, Init PROVE ServedInv
<1>1. PICK t, v : t = EmptyTable /\ v = NoClock
  OBVIOUS
<1>2. PICK m : m = [table |-> t, vc |-> v, values |-> t, vvc |-> v, orig |-> None, lru |-> <<>>,
                    sticky |-> {}, train |-> Idle]
  OBVIOUS
<1>3. /\ srv = [s \in Server |-> m] /\ max_size \in Nat /\ calls = 0 /\ rounds = 0 /\ phase = "idle"
      /\ asked = {} /\ mixed = [table |-> <<>>, values |-> <<>>]
  BY <1>1, <1>2 DEF Init, NeighborAssumption
<1>4. Sound(t) /\ t \in TableSet /\ Ids(t) = {} /\ t.clock = 0
  BY <1>1, EmptyIs
<1>5. v \in VectorSet
  <2>1. v \in [{} -> Nat]
    BY <1>1 DEF NoClock
  <2>2. {} \in SUBSET Owners
    OBVIOUS
  <2> QED BY <2>1, <2>2 DEF VectorSet
<1>6. None \in OrigSet /\ DOMAIN None = {}
  <2>1. PICK x : x = None
    OBVIOUS
  <2>2. x \in [{} -> OrigRows]
    BY <2>1 DEF None
  <2>3. {} \in SUBSET Id
    OBVIOUS
  <2> QED BY <2>1, <2>2, <2>3 DEF OrigSet
<1>7. /\ m.table = t /\ m.values = t /\ m.orig = None /\ m.vc = v /\ m.vvc = v
      /\ m.lru = <<>> /\ m.sticky = {} /\ m.train = Idle
  BY <1>2
<1>8. <<>> \in Seq(Int) /\ Len(<<>>) = 0 /\ Range(<<>>) = {}
  BY DEF Range
<1>9. m \in States
  <2>1. Idle \in TrainSet
    BY DEF Idle, TrainSet, NoId
  <2> QED BY <1>2, <1>4, <1>5, <1>6, <1>8, <2>1 DEF States
<1>10. Recalls(m)
  <2>1. Cardinality({}) = 0 /\ IsFiniteSet({})
    BY FS_EmptySet
  <2>2. CountOf(m) = 0
    BY <1>7, <1>8, <2>1 DEF CountOf
  <2> QED BY <1>3, <1>7, <1>8, <2>1, <2>2 DEF Recalls, Lined, Listed
<1>11. Good(m)
  BY <1>4, <1>7, <1>9, <1>10 DEF Good
<1>12. \A x : x \notin Known(m)
  BY <1>7, <1>8 DEF Known
<1>13. Local(m)
  BY <1>4, <1>6, <1>7, <1>11, <1>12 DEF Local, HasRows, AllKnown, Idle
<1>14. Framed
  <2>1. mixed \in [table : Seq(RowSet), values : Seq(RowSet)]
    BY <1>3
  <2> QED BY <1>3, <2>1 DEF Framed
<1>15. Steady
  <2>1. srv \in [Server -> States] /\ \A s \in Server : srv[s] = m
    BY <1>3, <1>9
  <2> QED BY <1>3, <1>13, <1>14, <2>1 DEF Steady
<1>16. \A s \in Server : srv[s] = m
  BY <1>3
<1>17. \A r : ~Abroad(r)
  <2>1. mixed.table = <<>> /\ mixed.values = <<>>
    BY <1>3
  <2> QED BY <1>4, <1>7, <1>8, <1>16, <2>1 DEF Abroad, Lies
<1>18. OrigRecent
  BY <1>6, <1>7, <1>16, <1>17 DEF OrigRecent
<1>19. Level(m)
  BY <1>7 DEF Level
<1>20. InStep
  <2>1. \A s \in Server : Paired(s)
    BY <1>3, <1>7, <1>16, <1>19 DEF Paired, Idle
  <2>2. OneRow /\ Apart /\ SameGathered
    BY <1>3, <1>7, <1>16, <1>17 DEF OneRow, Apart, SameGathered
  <2> QED BY <2>1, <2>2 DEF InStep
<1> QED BY <1>15, <1>17, <1>18, <1>20 DEF ServedInv, RowsByCall

LEMMA ServedStutters == ASSUME ServedInv, UNCHANGED neighborVars PROVE ServedInv'
<1>1. /\ user' = user /\ max_size' = max_size /\ srv' = srv /\ calls' = calls /\ rounds' = rounds
      /\ phase' = phase /\ asked' = asked /\ mixed' = mixed /\ disturbed' = disturbed
  BY DEF neighborVars
<1>2. Steady
  BY DEF ServedInv
<1>3. Settled
  BY <1>1, <1>2 DEF Settled, Steady
<1>4. Framed'
  <2>1. Tables' = Tables
    BY <1>1 DEF Tables
  <2> QED BY <1>1, <1>2, <2>1 DEF Steady, Framed
<1>5. \A r : Abroad(r)' => Abroad(r)
  BY <1>1 DEF Abroad, Lies
<1>6. ASSUME Matched PROVE SameGathered' /\ \A o \in Server : Paired(o)'
  <2>1. \A o \in Server : Between(o)' <=> Between(o)
    BY <1>1 DEF Between
  <2>2. \A r : \A o \in Server : ToPull(srv[o], r)' <=> ToPull(srv[o], r)
    BY <1>1 DEF ToPull, Lies
  <2>3. SameGathered'
    BY <1>1, <1>6, <2>1, <2>2 DEF Matched, SameGathered
  <2>4. ASSUME NEW o \in Server PROVE Paired(o)'
    <3>1. Paired(o) /\ (srv[o])' = srv[o] /\ (phase = "put" <=> phase' = "put")
      BY <1>1, <1>6 DEF Matched
    <3> QED BY <1>1, <1>5, <2>1, <3>1, PairedStays
  <2> QED BY <2>3, <2>4
<1> QED BY <1>1, <1>3, <1>4, <1>5, <1>6, MixerStep

LEMMA ServedSteps == NeighborAssumption /\ ServedInv /\ [Next]_neighborVars => ServedInv'
<1> SUFFICES ASSUME NeighborAssumption, ServedInv, [Next]_neighborVars PROVE ServedInv'
  OBVIOUS
<1>1. CASE UNCHANGED neighborVars
  BY <1>1, ServedStutters
<1>2. ASSUME NEW s \in Server, NEW id \in Id, driver_set_row(s, id) PROVE ServedInv'
  BY <1>2, DriverStep
<1>3. ASSUME NEW s \in Server, NEW id \in Id, clear_row(s, id) PROVE ServedInv'
  BY <1>3, ClearRowStep
<1>4. ASSUME NEW s \in Server, NEW id \in Id, NEW c \in Column, update_row(s, id, c) PROVE ServedInv'
  BY <1>4, UpdateRowStep
<1>5. ASSUME NEW s \in Server, NEW r \in Server, unpack(s, r) PROVE ServedInv'
  BY <1>5, UnpackStep
<1>6. ASSUME NEW s \in Server, TrainTouch(s) \/ TrainRow(s) \/ TrainValue(s) \/ clear(s) PROVE ServedInv'
  BY <1>6, TrainTouchStep, TrainRowStep, TrainValueStep, ClearStep
<1>7. ASSUME NEW s \in Server, NEW w \in {"table", "values"}, get_diff(s, w) \/ put_diff(s, w) PROVE ServedInv'
  <2>1. CASE w = "table"
    BY <1>7, <2>1, GetTableStep, PutTableStep
  <2>2. CASE w = "values"
    BY <1>7, <2>2, GetValuesStep, PutValuesStep
  <2> QED BY <2>1, <2>2
<1>8. CASE StartRound
  BY <1>8, StartRoundStep
<1>9. CASE StartPut
  BY <1>9, StartPutStep
<1>10. CASE EndRound
  BY <1>10, EndRoundStep
<1> QED BY <1>1, <1>2, <1>3, <1>4, <1>5, <1>6, <1>7, <1>8, <1>9, <1>10 DEF Next

\* A table whose ids are all known to the unlearner is bounded as it is.
LEMMA KnownBounds ==
    ASSUME NEW m, Good(m), max_size \in Nat, max_size > 0, \A k \in Ids(m.table) : k \in Known(m)
    PROVE  Size(m.table) <= max_size
<1>1. Recalls(m) /\ Shaped(m.table)
  BY DEF Good, Sound
<1>2. PICK l, S, n, k : l = m.lru /\ S = Range(m.lru) /\ n = Len(m.lru) /\ k = Size(m.table)
  OBVIOUS
<1>3. /\ l \in Seq(Int) /\ n \in Nat /\ k \in Nat /\ DOMAIN l = 1..n
      /\ IsFiniteSet(m.sticky) /\ Cardinality(m.sticky) \in Nat
      /\ CountOf(m) = n + Cardinality(m.sticky) /\ CountOf(m) <= max_size
  <2>1. l \in Seq(Int) /\ IsFiniteSet(m.sticky) /\ CountOf(m) <= max_size
    BY <1>1, <1>2 DEF Recalls
  <2>2. CountOf(m) = n + Cardinality(m.sticky) /\ Cardinality(m.sticky) \in Nat
    BY <1>1, <1>2, CountIs
  <2>3. k \in Nat
    BY <1>1, <1>2, RowsRead
  <2> QED BY <1>2, <2>1, <2>2, <2>3
<1>4. IsFiniteSet(1..n) /\ Cardinality(1..n) = n /\ IsFiniteSet(1..k) /\ Cardinality(1..k) = k
  <2>1. ASSUME NEW j \in Nat PROVE IsFiniteSet(1..j) /\ Cardinality(1..j) = j
    <3>1. 1 \in Int /\ j \in Int
      OBVIOUS
    <3>2. IsFiniteSet(1..j) /\ Cardinality(1..j) = IF 1 > j THEN 0 ELSE j - 1 + 1
      BY <3>1, FS_Interval
    <3>3. (IF 1 > j THEN 0 ELSE j - 1 + 1) = j
      OBVIOUS
    <3> QED BY <3>2, <3>3
  <2> QED BY <1>3, <2>1
<1>5. IsFiniteSet(S) /\ Cardinality(S) <= n /\ Cardinality(S) \in Nat
  <2>1. PICK T : T = 1..n
    OBVIOUS
  <2>2. l \in Surjection(T, S)
    BY <1>2, <1>3, <2>1 DEF Surjection, Range
  <2>3. IsFiniteSet(T)
    BY <1>4, <2>1
  <2>4. IsFiniteSet(S) /\ Cardinality(S) <= Cardinality(T)
    BY <2>2, <2>3, FS_Surjection
  <2> QED BY <1>4, <2>1, <2>4, FS_CardinalityType
<1>6. IsFiniteSet(Known(m)) /\ Cardinality(Known(m)) \in Nat /\ Cardinality(Known(m)) <= max_size
  <2>1. Known(m) = S \cup m.sticky
    BY <1>2 DEF Known
  <2>2. /\ IsFiniteSet(S \cup m.sticky)
        /\ Cardinality(S \cup m.sticky) = Cardinality(S) + Cardinality(m.sticky) - Cardinality(S \cap m.sticky)
    BY <1>3, <1>5, FS_Union
  <2>3. IsFiniteSet(S \cap m.sticky)
    BY <1>5, FS_Subset
  <2>4. Cardinality(S \cap m.sticky) \in Nat /\ Cardinality(S \cup m.sticky) \in Nat
    BY <2>2, <2>3, FS_CardinalityType
  <2> QED BY <1>3, <1>5, <2>1, <2>2, <2>4
<1>7. k <= Cardinality(Known(m))
  <2>1. PICK T, K, f : T = 1..k /\ K = Known(m) /\ f = [i \in T |-> m.table.rows[i].key]
    OBVIOUS
  <2>2. \A i \in T : m.table.rows[i].key \in K
    BY <1>1, <1>2, <2>1, RowsRead
  <2>3. \A i \in T, j \in T : m.table.rows[i].key = m.table.rows[j].key => i = j
    BY <1>1, <1>2, <2>1 DEF Shaped, IndexConsistent
  <2>4. f \in Injection(T, K)
    BY <2>1, <2>2, <2>3 DEF Injection, IsInjective
  <2>5. IsFiniteSet(K)
    BY <1>6, <2>1
  <2>6. Cardinality(T) <= Cardinality(K)
    BY <2>4, <2>5, FS_Injection
  <2> QED BY <1>4, <2>1, <2>6
<1> QED BY <1>2, <1>3, <1>6, <1>7

LEMMA ServedEnough == ServedInv => NeighborsAreServed
<1> SUFFICES ASSUME ServedInv PROVE NeighborsAreServed
  OBVIOUS
<1>1. Steady /\ OrigRecent /\ RowsByCall /\ InStep /\ max_size \in Nat
  BY DEF ServedInv, Steady
<1>2. \A s \in Server : Local(srv[s]) /\ Good(srv[s])
  BY <1>1 DEF Steady, Local
<1>3. MemoryHasRows
  BY <1>2 DEF MemoryHasRows, Local, HasRows
<1>4. OrigMatchesRows
  <2> SUFFICES ASSUME user = "recommender", NEW s \in Server, NEW id \in DOMAIN srv[s].orig
               PROVE  /\ id \in Ids(srv[s].table)
                      /\ ~Happened("cleared") /\ RowOf(srv[s].table, id).owner = s =>
                            RowOf(srv[s].table, id).value = srv[s].orig[id]
    BY DEF OrigMatchesRows
  <2>1. id \in Ids(srv[s].table)
    BY <1>2 DEF Local
  <2>2. ASSUME ~Happened("cleared"), RowOf(srv[s].table, id).owner = s
        PROVE  RowOf(srv[s].table, id).value = srv[s].orig[id]
    <3>1. PICK r : r = RowOf(srv[s].table, id)
      OBVIOUS
    <3>2. PICK c \in Nat :
             /\ RowOf(srv[s].table, id).clock >= c
             /\ \A q : Abroad(q) /\ q.owner = s /\ q.key = id => q.clock <= c /\ (q.clock = c => q.value = srv[s].orig[id])
      BY <1>1, <2>2 DEF OrigRecent, Latest
    <3>3. Shaped(srv[s].table)
      BY <1>2 DEF Good, Sound
    <3>4. r \in RowSet /\ r.key = id
      BY <2>1, <3>1, <3>3, RowsRead
    <3>5. Abroad(r)
      BY <2>1, <3>1, <3>4 DEF Abroad, Lies
    <3>6. r.clock \in Nat /\ r.clock >= c /\ r.clock <= c /\ (r.clock = c => r.value = srv[s].orig[id])
      BY <2>2, <3>1, <3>2, <3>4, <3>5 DEF RowSet
    <3>7. r.clock = c
      BY <3>6
    <3> QED BY <3>1, <3>6, <3>7
  <2> QED BY <2>1, <2>2
<1>5. ValuesFollowRows
  <2> SUFFICES ASSUME user = "regression", max_size = 0, ~Happened("split"), NEW s \in Server,
                      srv[s].train = Idle, ~(phase = "put" /\ <<s, "values">> \in asked)
               PROVE  /\ Ids(srv[s].table) = Ids(srv[s].values)
                      /\ \A id \in Ids(srv[s].table) :
                            /\ RowOf(srv[s].table, id).clock = RowOf(srv[s].values, id).clock
                            /\ Estimated(srv[s], id) = id
    BY DEF ValuesFollowRows
  <2>1. PICK m : m = srv[s]
    OBVIOUS
  <2>2. Paired(s) /\ OneRow
    BY <1>1 DEF InStep
  <2>3. Level(m)
    BY <2>1, <2>2 DEF Paired, Between, Idle
  <2>4. \A k : k \in Ids(m.table) <=> k \in Ids(m.values)
    BY <2>3 DEF Level
  <2>5. Shaped(m.table) /\ Shaped(m.values)
    BY <1>2, <2>1 DEF Good, Sound
  <2>6. ASSUME NEW id \in Ids(m.table)
        PROVE  RowOf(m.table, id).clock = RowOf(m.values, id).clock /\ Estimated(m, id) = id
    <3>1. PICK p, q : p = RowOf(m.table, id) /\ q = RowOf(m.values, id)
      OBVIOUS
    <3>2. p.key = id /\ q.key = id /\ Has(m.values, id)
      BY <2>4, <2>5, <2>6, <3>1, RowsRead
    <3>3. Abroad(p) /\ Abroad(q)
      BY <2>1, <2>4, <2>6, <3>1, <3>2 DEF Abroad, Lies
    <3>4. p = q
      BY <2>2, <3>2, <3>3 DEF OneRow
    <3>5. q.value = id
      BY <1>1, <3>2, <3>3 DEF RowsByCall, ByCall
    <3> QED BY <3>1, <3>2, <3>4, <3>5 DEF Estimated
  <2> QED BY <2>1, <2>4, <2>6
<1>6. RegressionIsBounded
  <2> SUFFICES ASSUME user = "regression", max_size > 0, ~Happened("split"), NEW s \in Server
               PROVE  Size(srv[s].table) <= max_size
    BY DEF RegressionIsBounded
  <2>1. \A k \in Ids(srv[s].table) : k \in Known(srv[s])
    BY <1>2 DEF Local, AllKnown
  <2> QED BY <1>1, <1>2, <2>1, KnownBounds
<1>7. DriverIsBounded
  <2> SUFFICES ASSUME user # "regression", max_size > 0, rounds = 0, ~Happened("refused"), NEW s \in Server
               PROVE  Size(srv[s].table) <= max_size
    BY DEF DriverIsBounded
  <2>1. \A k \in Ids(srv[s].table) : k \in Known(srv[s])
    BY <1>2 DEF Local
  <2> QED BY <1>1, <1>2, <2>1, KnownBounds
<1> QED BY <1>3, <1>4, <1>5, <1>6, <1>7 DEF NeighborsAreServed

\* Nothing is remembered that has no row, original rows are rows, both tables
\* of the regression agree between puts, and the sizes are bounded.
THEOREM NeighborsAreServedHere == ASSUME NeighborAssumption PROVE Spec => []NeighborsAreServed
<1>1. Init => ServedInv
  BY ServedInitially
<1>2. ServedInv /\ [Next]_neighborVars => ServedInv'
  BY ServedSteps
<1>3. ServedInv => NeighborsAreServed
  BY ServedEnough
<1> QED BY <1>1, <1>2, <1>3, PTL DEF Spec
=============================================================================
