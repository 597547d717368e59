----------------------------- MODULE ByteArray -----------------------------
(***************************************************************************)
(* The byte array under the QoS packets (src/tm_ext/bytearray.cc, and its  *)
(* twin lib/qos/bytearray.cpp): a growing array of bytes whose fields are  *)
(* written and read at any bit offset.  A byte array is a sequence of      *)
(* numbers below 256; offsets count from 0 as in the code; masks and       *)
(* shifts of one byte, or of two neighbours, are divisions by powers of    *)
(* two.  What `new byte[]' leaves in fresh bytes is the parameter `junk'.  *)
(***************************************************************************)
EXTENDS Naturals, Sequences, SequencesExt

CONSTANTS
    Writes,     \* the writes tried: records [b, num, offset, bits, wide]
    MaxSize     \* bound on the size of the array

VARIABLES
    data,       \* the bytes of one ByteArray
    written     \* the last value written to each bit, as the callers see it

byteVars == <<data, written>>

at(d, i) == d[i + 1]

\* The n bits of w above its lowest `shift' bits replaced by those of b
replace(w, shift, n, b) ==
    (w \div 2^(shift + n)) * 2^(shift + n) + (b % 2^n) * 2^shift + (w % 2^shift)

extended(d, ext_size, junk) == d \o [i \in 1..ext_size |-> junk]

BadsetBits(d, b, lownum, offset_bytes, offsetbits) ==
    IF lownum > 8 \/ offsetbits > 8 \/ offset_bytes + 1 > Len(d) THEN d
    ELSE [d EXCEPT ![offset_bytes + 1] =
              replace(@, (16 - lownum - offsetbits) % 8, lownum, b)]

setBits(d, b, lownum, offset_bytes, offsetbits) ==
    LET o == offset_bytes
    IN  IF \/ lownum > 8 \/ offsetbits > 8 \/ o + 1 > Len(d)
           \/ lownum \div 8 + o > Len(d)
        THEN d
        ELSE IF lownum + offsetbits <= 8
        THEN [d EXCEPT ![o + 1] = replace(@, 8 - lownum - offsetbits, lownum, b)]
        ELSE LET w == replace(at(d, o) * 256 + at(d, o + 1),
                              16 - lownum - offsetbits, lownum, b)
             IN  [d EXCEPT ![o + 1] = w \div 256, ![o + 2] = w % 256]

\* The bytes a field of num bits takes
bytesOf(num) == IF num % 8 = 0 THEN num \div 8 ELSE num \div 8 + 1

\* setBits of a 64-bit number: whole bytes, most significant first (the code's
\* branch for a part of a byte is for i = 0, that is for more than 56 bits)
setBits64(d, b, lownum, offset_bytes, offsetbits) ==
    IF lownum \div 8 + offset_bytes > Len(d) THEN d
    ELSE LET to == bytesOf(lownum)
         IN  FoldLeftDomain(
                 LAMBDA acc, i : setBits(acc, (b \div 256^(to - i)) % 256, 8,
                                         offset_bytes + i - 1, offsetbits),
                 d, [i \in 1..to |-> i])

setBytes(d, s, offset_bytes) ==
    IF Len(s) + offset_bytes > Len(d) THEN d
    ELSE FoldLeftDomain(
             LAMBDA acc, i : setBits(acc, s[i], 8, offset_bytes + i - 1, 0), d, s)

getBits8_ORLESS(d, num, offset_bytes, offsetbits) ==
    LET byte == at(d, offset_bytes)
    IN  IF num > 8 THEN 0
        ELSE IF num + offsetbits <= 8
        THEN ((byte * 2^offsetbits) % 256) \div 2^(8 - num)
        ELSE (((byte % 2^(8 - offsetbits)) * 2^(num + offsetbits - 8)) % 256)
                 + at(d, offset_bytes + 1) \div 2^(16 - num - offsetbits)

\* getBits: the odd bits first, then whole bytes
getBits(d, num, offset_bytes, offsetbits) ==
    LET odd   == num % 8
        moved == offsetbits + odd
        o     == IF moved > 8 THEN offset_bytes + 1 ELSE offset_bytes
        ob    == IF moved > 8 THEN moved % 8 ELSE moved
        first == IF odd = 0 THEN 0
                 ELSE getBits8_ORLESS(d, odd, offset_bytes, offsetbits)
    IN  FoldLeftDomain(
            LAMBDA res, i : res * 256 + getBits8_ORLESS(d, 8, o + i - 1, ob),
            first, [i \in 1..(num \div 8) |-> i])

getStrBytes(d, num, offset_bytes, offsetbits) ==
    IF num + offset_bytes > Len(d) THEN <<>>
    ELSE [i \in 1..num |-> getBits8_ORLESS(d, 8, offset_bytes + i - 1, offsetbits)]

(***************************************************************************)
(* One array under any sequence of writes.  The second array of bits is    *)
(* what the writes mean: the value's low bits at their place.              *)
(***************************************************************************)
bit(b, i, num) == (b \div 2^(num - i)) % 2

ByteInit == data = <<>> /\ written = <<>>

Extend ==
    \E ext_size \in 1..MaxSize, junk \in {0, 255} :
        /\ Len(data) + ext_size <= MaxSize
        /\ data' = extended(data, ext_size, junk)
        /\ written' = written \o [i \in 1..8 * ext_size |-> junk % 2]

\* The callers keep a write inside the array: the code's own tests let a
\* write that starts in the last byte run over the end
SetBits ==
    \E w \in Writes :
        LET start == 8 * w.offset + w.bits
        IN  /\ start + w.num <= 8 * Len(data)
            /\ data' = IF w.wide
                       THEN setBits64(data, w.b, w.num, w.offset, w.bits)
                       ELSE setBits(data, w.b, w.num, w.offset, w.bits)
            /\ written' = [i \in DOMAIN written |->
                  IF i \in start + 1..start + w.num
                  THEN bit(w.b, i - start, w.num) ELSE written[i]]

ByteNext == Extend \/ SetBits

\* A field written at any bit offset is read back as written and no write
\* touches a bit outside its field, through both getBits8_ORLESS and getBits
\* (src/tm_ext/bytearray.cc:199-281, 303-360).
BitsKept ==
    /\ \A i \in DOMAIN written :
          getBits8_ORLESS(data, 1, (i - 1) \div 8, (i - 1) % 8) = written[i]
    /\ \A start \in 0..Len(written), num \in 1..16 :
          start + num <= Len(written) =>
              getBits(data, num, start \div 8, start % 8) =
                  FoldLeft(LAMBDA v, b : 2 * v + b, 0,
                           SubSeq(written, start + 1, start + num))
=============================================================================
