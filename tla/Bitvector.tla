------------------------------ MODULE Bitvector ------------------------------
(***************************************************************************)
(* BABitvector, the bit vectors of LIDs and FIDs (Click's copy              *)
(* src/src/ba_bitvector.cc and .hh; src/lib/bitvector.cpp is the same code  *)
(* with constructors from strings). A vector keeps its last index _max and  *)
(* words of WORD bits: two inside the object, more on the heap. A word is   *)
(* the set of its bits that are set.                                        *)
(*                                                                          *)
(* resize never clears a bit, so words may hold bits above the size, and    *)
(* operator== compares whole words: `cut` says which vectors have been made *)
(* smaller, or hold bits of one that was. `meant` is what a vector's user   *)
(* has put into it.                                                         *)
(***************************************************************************)
LOCAL INSTANCE Integers
LOCAL INSTANCE Sequences
LOCAL INSTANCE FiniteSets

CONSTANTS
    BitVec,     \* the vectors
    WORD,       \* bits of a word (32 in the code)
    BitSizes,   \* sizes asked for
    MaxOps      \* operations in a behaviour

ASSUME WordAssumption == WORD \in Nat \ {0}

VARIABLES
    bv,         \* per vector: [max, data]
    meant,      \* per vector: [size, bits]
    cut,        \* vectors that were made smaller, or read such a one
    ops         \* operations so far
bitvecVars == <<bv, meant, cut, ops>>

MAX_INLINE_WORD == 1
word(i) == i \div WORD
bitsOfWord == 0..(WORD - 1)
max_word(v) == IF v.max < 0 THEN -1 ELSE word(v.max)
MaxOf(i, j) == IF i > j THEN i ELSE j
words(n) == [i \in 0..(n - 1) |-> {}]

-----------------------------------------------------------------------------
(* The operations, as functions of the words.                              *)

\* resize_to_max: as many words as new_max needs, of which the present ones are kept.
resize_to_max(data, have, new_max) ==
    LET want == word(new_max) + 1
    IN IF want <= have THEN data
       ELSE [i \in 0..(want - 1) |-> IF i < have THEN data[i] ELSE {}]

resize(v, n) ==
    [max |-> n - 1,
     data |-> IF word(n - 1) <= MAX_INLINE_WORD \/ n = 0 THEN v.data
              ELSE resize_to_max(v.data, MaxOf(max_word(v), MAX_INLINE_WORD) + 1, n - 1)]

\* BABitvector(int n)
new(n) == [max |-> n - 1,
           data |-> IF n = 0 \/ word(n - 1) <= MAX_INLINE_WORD THEN words(MAX_INLINE_WORD + 1)
                    ELSE resize_to_max(words(MAX_INLINE_WORD + 1), MAX_INLINE_WORD + 1, n - 1)]

Badclear_last(v) == v

clear_last(v) ==
    IF v.max < 0 THEN [v EXCEPT !.data[0] = {}]
    ELSE [v EXCEPT !.data[word(v.max)] = @ \cap 0..(v.max % WORD)]

assign(v, n, value) ==
    LET w == resize(v, n)
        copy == IF n > WORD THEN max_word(w) ELSE 0
        set == [w EXCEPT !.data = [i \in DOMAIN @ |-> IF i <= copy THEN (IF value THEN bitsOfWord ELSE {})
                                                      ELSE @[i]]]
    IN IF value THEN clear_last(set) ELSE set

clear(v) == [v EXCEPT !.data = [i \in DOMAIN @ |-> IF i <= max_word(v) THEN {} ELSE @[i]]]

zero(v) == \A i \in 0..max_word(v) : v.data[i] = {}

negate(v) ==
    clear_last([v EXCEPT !.data = [i \in DOMAIN @ |-> IF i <= max_word(v) THEN bitsOfWord \ @[i] ELSE @[i]]])

\* operator=: the words of a small vector are copied into the ones there are.
copied(v, o) ==
    [max |-> o.max,
     data |-> IF max_word(o) <= MAX_INLINE_WORD
              THEN [i \in DOMAIN v.data |-> IF i <= MAX_INLINE_WORD THEN o.data[i] ELSE v.data[i]]
              ELSE [i \in 0..max_word(o) |-> o.data[i]]]

\* The copy constructor, with finish_copy_constructor.
duplicate(o) ==
    [max |-> o.max, data |-> [i \in 0..MaxOf(max_word(o), MAX_INLINE_WORD) |-> o.data[i]]]

wordwise(v, o, op(_, _)) ==
    [v EXCEPT !.data = [i \in DOMAIN @ |-> IF i <= max_word(v) THEN op(@[i], o.data[i]) ELSE @[i]]]
and(v, o) == wordwise(v, o, LAMBDA x, y : x \cap y)
xor(v, o) == wordwise(v, o, LAMBDA x, y : (x \ y) \cup (y \ x))

\* operator|= resizes to the longer operand and then reads as many words of the
\* other as it has itself: junk stands for those the other does not have.
or(v, o, junk) ==
    LET w == IF o.max > v.max THEN resize(v, o.max + 1) ELSE v
    IN [w EXCEPT !.data = [i \in DOMAIN @ |-> IF i > max_word(w) THEN @[i]
                                              ELSE @[i] \cup (IF i \in DOMAIN o.data THEN o.data[i] ELSE junk)]]

\* operator-= and operator~
minus(v, o) == and(v, negate(duplicate(o)))

shifted(w, n) == {b + n : b \in {x \in w : x + n < WORD}}
carried(w, n) == {b + n - WORD : b \in {x \in w : x + n >= WORD}}
\* offset_or: every word of o is spread over two words.
offset_or(v, o, offset) ==
    LET n == offset % WORD
        into(i) == LET p == i - word(offset)
                   IN (IF p >= 0 /\ p <= MaxOf(max_word(o), 0) THEN shifted(o.data[p], n) ELSE {})
                      \cup (IF p >= 1 /\ p - 1 <= MaxOf(max_word(o), 0) THEN carried(o.data[p - 1], n) ELSE {})
    IN [v EXCEPT !.data = [i \in DOMAIN @ |-> IF i <= max_word(v) THEN @[i] \cup into(i) ELSE @[i]]]

\* The difference that or_with_difference leaves in diff, resized to the size of v.
difference(v, o, diff) ==
    LET d == IF diff.max # v.max THEN resize(diff, v.max + 1) ELSE diff
    IN [d EXCEPT !.data = [i \in DOMAIN @ |-> IF i <= max_word(v) THEN o.data[i] \ v.data[i] ELSE @[i]]]

nonzero_intersection(v, o) ==
    \E i \in 0..max_word(v) : i <= max_word(o) /\ v.data[i] \cap o.data[i] # {}

\* operator==: memcmp over the inline words, or over all words of a longer vector.
equal(v, o) ==
    /\ v.max = o.max
    /\ \A i \in 0..MaxOf(max_word(v), MAX_INLINE_WORD) : v.data[i] = o.data[i]

get(v, i) == i % WORD \in v.data[word(i)]
\* Bit::operator=
put(v, i, x) == [v EXCEPT !.data[word(i)] = IF x THEN @ \cup {i % WORD} ELSE @ \ {i % WORD}]
force_bit(v, i, x) == put(IF i > v.max THEN resize(v, i + 1) ELSE v, i, x)

\* to_string begins with the highest bit; the constructor of the library reads it back.
to_string(v) == [i \in 1..(v.max + 1) |-> IF get(v, v.max + 1 - i) THEN 1 ELSE 0]
fromString(x) ==
    LET bits == {b \in 0..(Len(x) - 1) : x[Len(x) - b] = 1}
    IN [max |-> Len(x) - 1, data |-> [i \in 0..(Len(x) - 1) |-> {b \in bitsOfWord : i * WORD + b \in bits}]]

-----------------------------------------------------------------------------
(* A user with a few vectors.                                              *)

upTo(n) == 0..(n - 1)

BitvecInit ==
    /\ bv = [v \in BitVec |-> new(0)]
    /\ meant = [v \in BitVec |-> [size |-> 0, bits |-> {}]]
    /\ cut = {} /\ ops = 0

Counted == ops < MaxOps /\ ops' = ops + 1
Taint(v, tainted) == cut' = IF tainted THEN cut \cup {v} ELSE cut \ {v}
Shrinks(v, n) == v \in cut \/ n < meant[v].size
Becomes(v, value, size, bits) ==
    /\ bv' = [bv EXCEPT ![v] = value]
    /\ meant' = [meant EXCEPT ![v] = [size |-> size, bits |-> bits]]

Resize(v, n) ==
    /\ Counted /\ Becomes(v, resize(bv[v], n), n, meant[v].bits \cap upTo(n)) /\ Taint(v, Shrinks(v, n))
Assign(v, n, value) ==
    /\ Counted /\ Becomes(v, assign(bv[v], n, value), n, IF value THEN upTo(n) ELSE {})
    /\ Taint(v, Shrinks(v, n))
Clear(v) == Counted /\ Becomes(v, clear(bv[v]), meant[v].size, {}) /\ UNCHANGED cut
Negate(v) ==
    Counted /\ Becomes(v, negate(bv[v]), meant[v].size, upTo(meant[v].size) \ meant[v].bits) /\ UNCHANGED cut
ForceBit(v, i, x) ==
    /\ Counted
    /\ Becomes(v, force_bit(bv[v], i, x), MaxOf(meant[v].size, i + 1),
               IF x THEN meant[v].bits \cup {i} ELSE meant[v].bits \ {i})
    /\ UNCHANGED cut

Copy(v, o) == v # o /\ Counted /\ Becomes(v, copied(bv[v], bv[o]), meant[o].size, meant[o].bits) /\ Taint(v, o \in cut)
Swap(v, o) ==
    /\ Counted
    /\ bv' = [bv EXCEPT ![v] = bv[o], ![o] = bv[v]]
    /\ meant' = [meant EXCEPT ![v] = meant[o], ![o] = meant[v]]
    /\ cut' = {x \in BitVec : IF x = v THEN o \in cut ELSE IF x = o THEN v \in cut ELSE x \in cut}

\* assert(o._max == _max): the operands have one size.
SameSize(v, o) == bv[v].max = bv[o].max /\ Counted /\ Taint(v, {v, o} \cap cut # {})
And(v, o) == SameSize(v, o) /\ Becomes(v, and(bv[v], bv[o]), meant[v].size, meant[v].bits \cap meant[o].bits)
Xor(v, o) == SameSize(v, o) /\ Becomes(v, xor(bv[v], bv[o]), meant[v].size,
                                       (meant[v].bits \ meant[o].bits) \cup (meant[o].bits \ meant[v].bits))
Minus(v, o) == SameSize(v, o) /\ Becomes(v, minus(bv[v], bv[o]), meant[v].size, meant[v].bits \ meant[o].bits)
\* The words beyond those of a shorter operand are whatever is there.
Or(v, o) ==
    /\ Counted
    /\ \E junk \in SUBSET bitsOfWord :
          Becomes(v, or(bv[v], bv[o], junk), MaxOf(meant[v].size, meant[o].size), meant[v].bits \cup meant[o].bits)
    /\ Taint(v, {v, o} \cap cut # {} \/ max_word(bv[v]) > MaxOf(max_word(bv[o]), MAX_INLINE_WORD))
\* The second assertion shifts 1U by 32 when the size of o is a multiple of the word: taken to hold.
OffsetOr(v, o, offset) ==
    /\ v # o /\ offset + bv[o].max <= bv[v].max /\ Counted
    /\ Becomes(v, offset_or(bv[v], bv[o], offset), meant[v].size, meant[v].bits \cup {b + offset : b \in meant[o].bits})
    /\ Taint(v, {v, o} \cap cut # {})
OrWithDifference(v, o, diff) ==
    /\ bv[v].max = bv[o].max /\ diff # v /\ Counted
    /\ bv' = [bv EXCEPT ![v] = or(@, bv[o], {}), ![diff] = difference(bv[v], bv[o], @)]
    /\ meant' = [meant EXCEPT ![v].bits = @ \cup meant[o].bits,
                              ![diff] = [size |-> meant[v].size, bits |-> meant[o].bits \ meant[v].bits]]
    /\ cut' = (cut \ {v, diff}) \cup (IF {v, o} \cap cut # {} THEN {v, diff} ELSE {})
              \cup (IF Shrinks(diff, meant[v].size) THEN {diff} ELSE {})
\* A vector sent as a string and read again: one word for each character, of which
\* memset clears enough when there are eight of them (FIDs and LIDs have 256).
FromString(v, o) ==
    /\ bv[o].max >= MAX_INLINE_WORD /\ Counted
    /\ Becomes(v, fromString(to_string(bv[o])), meant[o].size, meant[o].bits)
    /\ Taint(v, o \in cut)

BitvecNext ==
    \/ \E v \in BitVec :
          \/ Clear(v) \/ Negate(v)
          \/ \E n \in BitSizes : Resize(v, n) \/ \E x \in BOOLEAN : Assign(v, n, x) \/ ForceBit(v, n - 1, x)
    \/ \E v, o \in BitVec :
          \/ Copy(v, o) \/ Swap(v, o) \/ And(v, o) \/ Or(v, o) \/ Xor(v, o) \/ Minus(v, o) \/ FromString(v, o)
          \/ \E n \in BitSizes : OffsetOr(v, o, n - 1)
          \/ \E diff \in BitVec : OrWithDifference(v, o, diff)
BitvecSpec == BitvecInit /\ [][BitvecNext]_bitvecVars

-----------------------------------------------------------------------------
\* Through every sequence of operations, with words moving between the object
\* and the heap: a vector that never lost part of itself has the bits its user
\* put in, no bit above its size, and compares, intersects and prints like the
\* set of its bits. FIDs are tested and combined by word, so one bit too many
\* would send packets over links nobody asked for (ba_bitvector.cc).
BitsAsMeant ==
    LET sound == BitVec \ cut IN
    /\ \A v \in BitVec : bv[v].max + 1 = meant[v].size
    /\ \A v \in sound :
          /\ {i \in upTo(meant[v].size) : get(bv[v], i)} = meant[v].bits
          /\ zero(bv[v]) <=> meant[v].bits = {}
    /\ \A v, o \in sound :
          /\ equal(bv[v], bv[o]) <=> meant[v] = meant[o]
          /\ nonzero_intersection(bv[v], bv[o]) <=> meant[v].bits \cap meant[o].bits # {}
=============================================================================
