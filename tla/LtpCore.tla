------------------------------ MODULE LtpCore ------------------------------
(***************************************************************************)
(* The tables and messages of the lightweight transport protocol (LTP) of  *)
(* the NAP (apps/nap/transport/lightweight.cc), for one reverse content    *)
(* identifier (rCID).  The proxy rule identifier (ripd) is always 0 in     *)
(* this release, so its map level is left out.  A C++ map is a function on *)
(* the set of its keys.  Payload is abstracted to [pkt, len]: the index of *)
(* the packet the bytes belong to and their length class.                  *)
(***************************************************************************)
EXTENDS Integers, Sequences, FiniteSets, FiniteSetsExt, Functions

\* An empty map, and insertion, removal and look-up in a map.
NoEntries == [x \in {} |-> x]
Put(f, k, v) == [x \in DOMAIN f \cup {k} |-> IF x = k THEN v ELSE f[x]]
Del(f, k) == Restrict(f, DOMAIN f \ {k})
At(f, k) == IF k \in DOMAIN f THEN f[k] ELSE NoEntries

\* The bytes of a buffer entry after free(): the map still points at them.
Freed == 0

-----------------------------------------------------------------------------
(* The reassembly buffer _icnPacketBuffer of one rCID: NID -> session key  *)
(* -> sequence number -> payload.  known says whether the rCID has an entry*)
(* (an entry may have an empty NID map).                                   *)

NorCID == [known |-> FALSE, nids |-> NoEntries]

\* _bufferIcnPacket: a fragment already buffered with the same length is
\* ignored; with another length its memory is freed and the insertion that
\* follows leaves the old map entry in place.
bufferIcnPacket(b, nid, sk, seq, payload) ==
    LET sks  == At(b.nids, nid)
        seqs == At(sks, sk)
        kept == IF seq \notin DOMAIN seqs THEN payload
                ELSE IF seqs[seq].len = payload.len THEN seqs[seq]
                ELSE [seqs[seq] EXCEPT !.pkt = Freed]
    IN [known |-> TRUE, nids |-> Put(b.nids, nid, Put(sks, sk, Put(seqs, seq, kept)))]

\* Mutant: the packet stays in the buffer.
BadAfterRetrieval(b, nid, sk) == b

\* retrievePacket's clean-up after it has assembled the packet: the session
\* key goes, then the NID if it has no other, and then, when OTHER NIDs are
\* left, the whole rCID.
afterRetrieval(b, nid, sk) ==
    LET sks  == Del(b.nids[nid], sk)
        rest == Del(b.nids, nid)
    IN IF DOMAIN sks # {} THEN [b EXCEPT !.nids[nid] = sks]
       ELSE IF DOMAIN rest # {} THEN NorCID
       ELSE [b EXCEPT !.nids = rest]

\* The fragments buffered for a session of a node, the empty map if any level
\* of the buffer has no entry.
Received(b, nid, sk) == At(At(b.nids, nid), sk)

-----------------------------------------------------------------------------
(* What a receiver finds missing when a WINDOW_END announces sequence      *)
(* number seq, S being the sequence numbers it has buffered.               *)

\* Fragments whose predecessor is missing, the lowest one excepted.
AfterGap(S) == {k \in S : k # Min(S) /\ k - 1 \notin S}

\* Mutant: the range starts with the last fragment before the gap.
BadFirstMissingSequence(S, seq) ==
    IF 1 \notin S THEN 1
    ELSE IF AfterGap(S) # {} THEN Max({j \in S : j < Min(AfterGap(S))})
    ELSE IF Max(S) < seq THEN seq
    ELSE 0

\* firstMissingSequence at the end of the scan; 0 when nothing is missing.
firstMissingSequence(S, seq) ==
    IF 1 \notin S THEN 1
    ELSE IF AfterGap(S) # {} THEN Max({j \in S : j < Min(AfterGap(S))}) + 1
    ELSE IF Max(S) < seq THEN seq
    ELSE 0

\* lastMissingSequence at the end of the scan.
lastMissingSequence(S, seq) ==
    IF Max(S) < seq THEN seq
    ELSE IF AfterGap(S) # {} THEN Max(AfterGap(S)) - 1
    ELSE IF 1 \notin S THEN 1
    ELSE 0

allFragmentsReceived(S, seq) == firstMissingSequence(S, seq) = 0

\* What the answer to a WINDOW_END is good for: it is a WINDOW_ENDED exactly when the
\* packet can be put together up to seq, and otherwise a NACK of a range that starts
\* and ends with a fragment that is missing, so that a resent range always helps.
AnswerIsUseful(S, seq) ==
    LET first == firstMissingSequence(S, seq)
        last  == lastMissingSequence(S, seq)
    IN /\ allFragmentsReceived(S, seq) <=> (S = 1..Max(S) /\ seq <= Max(S))
       /\ ~allFragmentsReceived(S, seq) =>
             first \notin S /\ last \notin S /\ 1 <= first /\ first <= last /\ last <= Max(S \cup {seq})

-----------------------------------------------------------------------------
(* The retransmission buffers and the messages.                            *)

\* _bufferLtpPacket (and _bufferProxyPacket): a sequence number that already
\* has an entry keeps it.
bufferLtpPacket(b, sk, seq, payload) ==
    IF seq \in DOMAIN At(b, sk) THEN b
    ELSE Put(b, sk, Put(At(b, sk), seq, payload))

DATA(sk, seq, payload) == [t |-> "DATA", sk |-> sk, seq |-> seq, payload |-> payload]
WE(sk, seq)    == [t |-> "WE", sk |-> sk, seq |-> seq]
WED(sk)        == [t |-> "WED", sk |-> sk]
NACK(sk, a, z) == [t |-> "NACK", sk |-> sk, start |-> a, end |-> z]
WU(sk)         == [t |-> "WU", sk |-> sk]
WUD(sk)        == [t |-> "WUD", sk |-> sk]
SE(sk)         == [t |-> "SE", sk |-> sk]
SED(sk)        == [t |-> "SED", sk |-> sk]

\* _publishDataRange: the fragments start..end, up to the first sequence number
\* that is not buffered.
publishDataRange(b, sk, start, end) ==
    LET sent == {s \in start..end : start..s \subseteq DOMAIN At(b, sk)}
    IN [i \in 1..Cardinality(sent) |-> DATA(sk, start + i - 1, b[sk][start + i - 1])]
=============================================================================
