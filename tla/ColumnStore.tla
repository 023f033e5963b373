---------------------------- MODULE ColumnStore ----------------------------
(***************************************************************************)
(* The columns of storage::column_table (storage/abstract_column): one of  *)
(* bit vectors, whose blocks lie end to end in one array, and one of plain *)
(* values, kept in step with keys_ (and versions_, which moves with it), the*)
(* index and tuples_.  Rows, clocks and MIX are those of ColumnTable; here *)
(* is where a row is, what a call that throws leaves behind, and packing.  *)
(* After a call that stopped halfway nothing is called.                    *)
(***************************************************************************)
EXTENDS Integers, Sequences, FiniteSets, Functions, TLC

CONSTANTS Key, Plain,
          Bits,        \* bit vectors: [num, blocks], blocks = None without memory
          BlockBits,   \* bits of a block
          Width,       \* bit_vector_length of the column, in bits
          None, MaxCalls

VARIABLES keys, tuples, index,
          array,       \* array_ of the bit vector column
          plain,       \* array_ of the other column
          stored,      \* per key: what was last set, see Cell
          saved,       \* a packed table: this one, or that of a wider column
          torn, overread, calls

table == <<keys, tuples, index, array, plain>>
columnVars == <<keys, tuples, index, array, plain, stored, saved, torn, overread, calls>>

BlocksFor(n) == (n + BlockBits - 1) \div BlockBits
blocks_per_value == BlocksFor(Width)

ColumnAssumption ==
    /\ BlockBits \in Nat \ {0} /\ Width \in Nat \ {0}
    /\ \A b \in Bits : b.blocks = None \/ Len(b.blocks) = BlocksFor(b.num)

NoIndex == [k \in {} |-> 0]
Unsaved == [keys |-> <<>>, index |-> NoIndex, array |-> <<>>, plain |-> <<>>,
            stored |-> NoIndex, width |-> Width]

Init ==
    /\ keys = <<>> /\ tuples = 0 /\ index = NoIndex
    /\ array = <<>> /\ plain = <<>>
    /\ stored = NoIndex /\ saved = Unsaved
    /\ torn = FALSE /\ overread = FALSE /\ calls = 0

Call == calls < MaxCalls /\ ~torn /\ ~overread /\ calls' = calls + 1

---------------------------------------------------------------------------
(* The bit vector column.                                                  *)

\* check_bit_vector_ refuses only what is longer than the type says.
TooLong(b) == b.num > Width

\* update_at_ copies a whole value, beyond the memory of a shorter vector.
Short(b) == b.blocks # None /\ Len(b.blocks) < blocks_per_value
ValueOf(b) ==
    [i \in 1..blocks_per_value |->
        IF b.blocks = None \/ i > Len(b.blocks) THEN 0 ELSE b.blocks[i]]

Place(i) == (i - 1) * blocks_per_value
update_at(a, i, b) ==
    [j \in DOMAIN a |-> IF j - Place(i) \in 1..blocks_per_value
                        THEN ValueOf(b)[j - Place(i)] ELSE a[j]]
bit_at(i) == [j \in 1..blocks_per_value |-> array[Place(i) + j]]
push_back(a, b) == a \o ValueOf(b)

\* Mutant of bit_remove: the last value is dropped and not moved.
bit_removeLast(a, i) == SubSeq(a, 1, Len(a) - blocks_per_value)

\* remove: the last value takes the place, unless it is the one removed
bit_remove(a, i) ==
    LET last == Len(a) \div blocks_per_value
    IN  [j \in 1..Len(a) - blocks_per_value |->
            IF i < last /\ j - Place(i) \in 1..blocks_per_value
            THEN a[Place(last) + j - Place(i)] ELSE a[j]]

\* remove of a typed column: swapped with the last one
plain_remove(a, i) == [j \in 1..Len(a) - 1 |-> IF j = i THEN a[Len(a)] ELSE a[j]]

---------------------------------------------------------------------------
(* The table.                                                              *)

\* A row that was not there: keys_ and versions_ have it before the columns,
\* and a column that refuses the value ends the call there.
Append_(k, b, p) ==
    /\ keys' = Append(keys, k)
    /\ torn' = TooLong(b)
    /\ overread' = (~TooLong(b) /\ Short(b))
    /\ IF TooLong(b) THEN UNCHANGED <<tuples, index, array, plain, stored>>
       ELSE /\ array' = push_back(array, b)
            /\ plain' = Append(plain, p)
            /\ index' = (k :> tuples + 1) @@ index
            /\ tuples' = tuples + 1
            /\ stored' = (k :> <<ValueOf(b), p>>) @@ stored
    /\ UNCHANGED saved

\* A row that is there: refused by the first column, the second is untouched.
Overwrite(k, b, p) ==
    /\ overread' = (~TooLong(b) /\ Short(b))
    /\ IF TooLong(b) THEN UNCHANGED <<array, plain, stored>>
       ELSE /\ array' = update_at(array, index[k], b)
            /\ plain' = [plain EXCEPT ![index[k]] = p]
            /\ stored' = [stored EXCEPT ![k] = <<ValueOf(b), p>>]
    /\ UNCHANGED <<keys, tuples, index, saved, torn>>

add(k, b, p) == Call /\ IF k \in DOMAIN index THEN Overwrite(k, b, p) ELSE Append_(k, b, p)

\* A vector that was packed and unpacked has memory.
Unpacked(b) ==
    [b EXCEPT !.blocks = IF @ = None THEN [i \in 1..BlocksFor(b.num) |-> 0] ELSE @]

\* set_row with a row of another table; ours may be newer and stay.
set_row(k, b, p, newer) ==
    /\ Call
    /\ IF k \notin DOMAIN index THEN Append_(k, Unpacked(b), p)
       ELSE IF newer THEN Overwrite(k, Unpacked(b), p)
       ELSE UNCHANGED <<keys, tuples, index, array, plain, stored, saved, torn, overread>>

\* update of one column of a row
update_plain(k, p) ==
    /\ Call /\ k \in DOMAIN index
    /\ plain' = [plain EXCEPT ![index[k]] = p]
    /\ stored' = [stored EXCEPT ![k][2] = p]
    /\ UNCHANGED <<keys, tuples, index, array, saved, torn, overread>>

\* delete_row_ at a position: columns, index, keys, in that order
delete_at(i) ==
    /\ Call /\ i \in 1..tuples
    /\ array' = bit_remove(array, i)
    /\ plain' = plain_remove(plain, i)
    /\ index' = Restrict([index EXCEPT ![keys[tuples]] = i], DOMAIN index \ {keys[i]})
    /\ keys' = plain_remove(keys, i)
    /\ tuples' = tuples - 1
    /\ stored' = Restrict(stored, DOMAIN stored \ {keys[i]})
    /\ UNCHANGED <<saved, torn, overread>>

clear ==
    /\ Call
    /\ keys' = <<>> /\ tuples' = 0 /\ index' = NoIndex /\ array' = <<>> /\ plain' = <<>>
    /\ stored' = NoIndex
    /\ UNCHANGED <<saved, torn, overread>>

\* pack by this process, or by one whose vectors have another length
pack(width) ==
    /\ Call
    /\ saved' = [keys |-> keys, index |-> index, array |-> array, plain |-> plain,
                 stored |-> stored, width |-> width]
    /\ UNCHANGED <<keys, tuples, index, array, plain, stored, torn, overread>>

\* unpack converts member by member: keys_, tuples_ and versions_ are replaced
\* before the columns refuse another type.
unpack ==
    /\ Call
    /\ keys' = saved.keys /\ tuples' = Len(saved.keys)
    /\ IF saved.width = Width
       THEN /\ index' = saved.index /\ array' = saved.array /\ plain' = saved.plain
            /\ stored' = saved.stored
            /\ UNCHANGED torn
       ELSE torn' = TRUE /\ UNCHANGED <<index, array, plain, stored>>
    /\ UNCHANGED <<saved, overread>>

Next ==
    \/ \E k \in Key, b \in Bits, p \in Plain :
          add(k, b, p) \/ \E newer \in BOOLEAN : set_row(k, b, p, newer)
    \/ \E k \in Key, p \in Plain : update_plain(k, p)
    \/ \E i \in 1..tuples : delete_at(i)
    \/ \E w \in {Width, 2 * Width} : pack(w)
    \/ clear \/ unpack

Spec == Init /\ [][Next]_columnVars

---------------------------------------------------------------------------
Cell(k) == <<bit_at(index[k]), plain[index[k]]>>

\* Index and keys are inverse, every column has a value for each key, and the
\* value found through the index is the one set last, however rows were
\* moved into the places of others, until a call stops halfway or a vector
\* shorter than the column's is read beyond its end.
CellsAreThoseSet ==
    ~torn /\ ~overread =>
        /\ Len(keys) = tuples /\ Len(plain) = tuples
        /\ Len(array) = tuples * blocks_per_value
        /\ DOMAIN index = DOMAIN stored /\ Cardinality(DOMAIN index) = tuples
        /\ \A k \in DOMAIN index : keys[index[k]] = k /\ Cell(k) = stored[k]
=============================================================================
