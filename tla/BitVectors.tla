----------------------------- MODULE BitVectors -----------------------------
(***************************************************************************)
(* storage::bit_vector_base<T> for a T of one byte: bits_ is NULL until a  *)
(* bit is set, or memory of as many blocks as the length had when it was   *)
(* taken, which need not be the length of now.  Blocks are integers, and   *)
(* bits are counted as bitcount_impl does it.  What a write beyond the     *)
(* memory does is not modelled: nothing is called after one.               *)
(***************************************************************************)
EXTENDS Integers, Sequences, FiniteSets, Bitwise

CONSTANTS Vec,        \* the vectors
          Length,     \* lengths in bits that vectors are made with
          Position,   \* positions of bits, some beyond a length
          MaxCalls

BASE_BITS == 8

VectorAssumption == Length \cup Position \subseteq Nat

VARIABLES v,          \* per vector: its length and bits_
          bits,       \* per vector: the positions that are set, see BitsOf
          outgrown,   \* a copy was written beyond the memory
          calls

bitVars == <<v, bits, outgrown, calls>>

NULL == <<-1>>

\* memory_size, in blocks
Blocks(n) == (n + BASE_BITS - 1) \div BASE_BITS
Zeros(n) == [i \in 1..Blocks(n) |-> 0]
Vector(n, b) == [num |-> n, bits |-> b]

Init ==
    /\ v = [x \in Vec |-> Vector(0, NULL)]
    /\ bits = [x \in Vec |-> {}]
    /\ outgrown = FALSE
    /\ calls = 0

---------------------------------------------------------------------------
(* Reading.                                                                *)

\* Mutant of bitcount: the halves of a byte are added before those of a nibble.
bitcountSkips(n) ==
    LET a == (n & 85) + (shiftR(n, 1) & 85) IN  (a & 15) + (shiftR(a, 4) & 15)

\* bitcount_impl<T, 1>
bitcount(n) ==
    LET a == (n & 85) + (shiftR(n, 1) & 85)
        b == (a & 51) + (shiftR(a, 2) & 51)
    IN  (b & 15) + (shiftR(b, 4) & 15)

bit_count_internal(b, n) ==
    LET count[i \in 0..n] == IF i = 0 THEN 0 ELSE count[i - 1] + bitcount(b[i]) IN count[n]
bit_count(x) == IF x.bits = NULL THEN 0 ELSE bit_count_internal(x.bits, Blocks(x.num))

\* Defined for vectors of one length; another one throws.
calc_hamming_distance(x, y) ==
    IF x.bits = NULL THEN bit_count(y)
    ELSE IF y.bits = NULL THEN bit_count(x)
    ELSE bit_count_internal([i \in 1..Blocks(x.num) |-> x.bits[i] ^^ y.bits[i]], Blocks(x.num))

is_empty(x) == x.bits = NULL \/ \A i \in 1..Blocks(x.num) : x.bits[i] = 0

operator_equal(x, y) ==
    /\ x.num = y.num
    /\ \/ is_empty(x) /\ is_empty(y)
       \/ ~is_empty(x) /\ ~is_empty(y) /\ \A i \in 1..Blocks(x.num) : x.bits[i] = y.bits[i]

Mask(pos) == 2 ^ (pos % BASE_BITS)
BlockOf(pos) == pos \div BASE_BITS + 1

\* What get_bit answers for every position there is.
BitsOf(x) ==
    IF x.bits = NULL THEN {}
    ELSE {pos \in 0..x.num - 1 : (x.bits[BlockOf(pos)] & Mask(pos)) # 0}

---------------------------------------------------------------------------
(* Writing.                                                                *)

Memory(x) == IF x.bits = NULL THEN [x EXCEPT !.bits = Zeros(x.num)] ELSE x

\* set_bit, reverse_bit: memory is taken even when the position is then refused
Written(x, pos, Op(_, _)) ==
    IF pos < x.num THEN [Memory(x) EXCEPT !.bits[BlockOf(pos)] = Op(@, Mask(pos))]
    ELSE Memory(x)

SetOf(b, mask) == b | mask
ReverseOf(b, mask) == b ^^ mask
Without(b, mask) == b & (255 - mask)

\* clear_bit: nothing to do without memory
Cleared(x, pos) ==
    IF x.bits = NULL \/ pos >= x.num THEN x
    ELSE [x EXCEPT !.bits[BlockOf(pos)] = Without(@, Mask(pos))]

ClearedAll(x) ==
    LET upto[n \in 0..x.num] == IF n = 0 THEN x ELSE Cleared(upto[n - 1], n - 1) IN upto[x.num]

\* operator=: the length is taken over, memory only if there is none
Assigned(x, y) ==
    LET taken == Memory([x EXCEPT !.num = y.num])
        fill == IF y.bits = NULL THEN Zeros(y.num) ELSE y.bits
    IN  [taken EXCEPT !.bits = [i \in DOMAIN @ |-> IF i <= Blocks(y.num) THEN fill[i] ELSE @[i]]]

\* pack, and unpack into another vector, which gets memory of its own
Unpacked(y) ==
    Vector(y.num, IF y.bits = NULL THEN Zeros(y.num) ELSE SubSeq(y.bits, 1, Blocks(y.num)))

\* The copy constructor
Copied(y) == IF y.bits = NULL THEN y ELSE Unpacked(y)

Fits(x) == x.bits = NULL \/ Blocks(x.num) <= Len(x.bits)

Call(x, y, b) ==
    /\ calls < MaxCalls /\ ~outgrown
    /\ v' = [v EXCEPT ![x] = y]
    /\ bits' = [bits EXCEPT ![x] = b]
    /\ outgrown' = ~Fits(y)
    /\ calls' = calls + 1

set_bit(x, pos) ==
    Call(x, Written(v[x], pos, SetOf), bits[x] \cup ({pos} \cap 0..v[x].num - 1))
reverse_bit(x, pos) ==
    Call(x, Written(v[x], pos, ReverseOf),
         IF pos \in bits[x] THEN bits[x] \ {pos} ELSE bits[x] \cup ({pos} \cap 0..v[x].num - 1))
clear_bit(x, pos) == Call(x, Cleared(v[x], pos), bits[x] \ {pos})
clear(x) == Call(x, ClearedAll(v[x]), {})
resize_and_clear(x, n) == Call(x, Vector(n, NULL), {})
assign(x, y) == x # y /\ Call(x, Assigned(v[x], v[y]), bits[y])
unpack(x, y) == Call(x, Unpacked(v[y]), bits[y])
copy(x, y) == x # y /\ Call(x, Copied(v[y]), bits[y])
swap(x, y) ==
    /\ x # y /\ calls < MaxCalls /\ ~outgrown
    /\ v' = [v EXCEPT ![x] = v[y], ![y] = v[x]]
    /\ bits' = [bits EXCEPT ![x] = bits[y], ![y] = bits[x]]
    /\ calls' = calls + 1
    /\ UNCHANGED outgrown

Next ==
    \E x \in Vec :
        \/ \E pos \in Position : set_bit(x, pos) \/ reverse_bit(x, pos) \/ clear_bit(x, pos)
        \/ \E n \in Length : resize_and_clear(x, n)
        \/ \E y \in Vec : assign(x, y) \/ unpack(x, y) \/ copy(x, y) \/ swap(x, y)
        \/ clear(x)

Spec == Init /\ [][Next]_bitVars

---------------------------------------------------------------------------
\* A vector is a set of positions, whether it has memory or not: what it
\* answers, how far it is from another and whether it equals it is what the
\* sets say, through every copy, until one is written beyond the memory.
VectorsAreSets ==
    ~outgrown =>
        \A x, y \in Vec :
            /\ BitsOf(v[x]) = bits[x] /\ bit_count(v[x]) = Cardinality(bits[x])
            /\ is_empty(v[x]) <=> bits[x] = {}
            /\ operator_equal(v[x], v[y]) <=> v[x].num = v[y].num /\ bits[x] = bits[y]
            /\ v[x].num = v[y].num =>
                   calc_hamming_distance(v[x], v[y]) =
                       Cardinality((bits[x] \ bits[y]) \cup (bits[y] \ bits[x]))

\* operator= is a deep copy: what it copies has room.  It fails: a vector that
\* was given an empty one has memory of no block and keeps it when it is given
\* a longer one, which is what bit_index_storage does with a row that is
\* removed and set again.
CopiesFit == ~outgrown
=============================================================================
