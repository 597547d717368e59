------------------------------- MODULE NapIp -------------------------------
(***************************************************************************)
(* The IP handler of the NAP: packets from the demultiplexer               *)
(* (demux/demux.cc) find their routing prefix (namespaces/ip.cc), wait in  *)
(* a buffer until the ICN core asks for the CID, travel as fragments of    *)
(* the unreliable transport (transport/unreliable.cc), are reassembled by  *)
(* the receiving NAP and leave through its raw socket (ipsocket.cc).       *)
(*                                                                         *)
(* An address is the set of its one bits, so that & is intersection; Uint  *)
(* is the number such a set stands for, in whichever byte order.  Sizes    *)
(* are counted in units of 8 bytes.                                        *)
(***************************************************************************)
EXTENDS Integers, SequencesExt

CONSTANTS
    Bit, Mask,     \* bits of an address; the netmasks
    Uint(_),       \* number a set of bits stands for (RoutingPrefix::uint)
    Configs,       \* lists of routing prefixes a configuration file may hold
    Packet,        \* IP packets that reach the NAP (numbers above 0)
    Dst, Size,     \* their destination addresses and payload sizes
    MaxPayload,    \* payload of an UTP fragment (unreliable.cc:47)
    MaxIpPayload   \* payload of an IP packet on the NAP's link (ipsocket.cc:71)

Address == SUBSET Bit

\* Netmasks are contiguous, and a number with more one bits is larger.
ASSUME MasksNested ==
    /\ Mask \subseteq Address
    /\ \A m1, m2 \in Mask : m1 \subseteq m2 \/ m2 \subseteq m1
ASSUME UintMonotone ==
    /\ \A a \in Address : Uint(a) \in Int
    /\ \A a, b \in Address : a \subseteq b /\ a # b => Uint(a) < Uint(b)
ASSUME ConfigsAssumption == Configs \subseteq Seq([address : Address, mask : Mask])
ASSUME SizesAssumption == MaxPayload \in Nat \ {0} /\ MaxIpPayload \in Nat \ {0}

VARIABLES
    configured,       \* routing prefixes of the file that are still to be read
    routingPrefixes,  \* Configuration::_routingPrefixes
    arriving,         \* packets the demultiplexer has not seen yet
    icnIds,           \* CID -> "known" or "forwarding"
    packetBuffer,     \* the buffered packets, at most one per CID
    demux,            \* the packet the demultiplexer's thread is about to buffer, if any
    ipStarts,         \* CIDs with a START_PUBLISH on its way
    fragments,        \* UTP fragments in the network
    reassemblyBuffer, \* fragments the receiving NAP holds
    out               \* packets written to the receiving NAP's raw socket

ipVars == <<configured, routingPrefixes, arriving, icnIds, packetBuffer, demux, ipStarts, fragments,
            reassemblyBuffer, out>>

IpInit ==
    /\ configured \in Configs
    /\ routingPrefixes = {}
    /\ arriving = Packet
    /\ icnIds = [c \in {} |-> "known"]
    /\ packetBuffer = {}
    /\ demux = {}
    /\ ipStarts = {}
    /\ fragments = {}
    /\ reassemblyBuffer = {}
    /\ out = <<>>

----------------------------------------------------------------------------
(* Routing prefixes. *)

\* RoutingPrefix(networkAddress, netmask).
routingPrefix(entry) == [bits |-> entry.address \cap entry.mask, mask |-> entry.mask]

BadParsePrefix ==
    /\ configured # <<>>
    /\ routingPrefixes' = routingPrefixes \cup {routingPrefix(Head(configured))}
    /\ configured' = Tail(configured)
    /\ UNCHANGED <<arriving, icnIds, packetBuffer, demux, ipStarts, fragments, reassemblyBuffer, out>>

\* Configuration::parse: map::insert keeps the entry that already has the key.
ParsePrefix ==
    LET p == routingPrefix(Head(configured))
    IN /\ configured # <<>>
       /\ routingPrefixes' = IF \E q \in routingPrefixes : Uint(q.bits) = Uint(p.bits)
                             THEN routingPrefixes ELSE routingPrefixes \cup {p}
       /\ configured' = Tail(configured)
       /\ UNCHANGED <<arriving, icnIds, packetBuffer, demux, ipStarts, fragments, reassemblyBuffer, out>>

matching(a) == {p \in routingPrefixes : a \cap p.mask = p.bits}

\* Ip::_routingPrefix: the first match from the largest key down (none or one).
firstMatch(a) == {p \in matching(a) : \A q \in matching(a) : Uint(q.bits) <= Uint(p.bits)}

----------------------------------------------------------------------------
(* The sending NAP. *)

cid(p, a) == <<p.bits, a>>

fragmented(k) == Size[k] > MaxPayload
count(k) == IF fragmented(k) THEN (Size[k] + MaxPayload - 1) \div MaxPayload ELSE 1
cells(k) == [i \in 1..Size[k] |-> <<k, i>>]

lastState(k) == IF Size[k] % MaxPayload # 0 THEN "FINISHED" ELSE "FRAGMENT"

\* Unreliable::publish.  The last fragment of a packet that fills it exactly is
\* not marked FINISHED.  The random key is taken to be unique (packet k).
utpPublish(k) ==
    IF ~fragmented(k)
    THEN {[key |-> k, sequence |-> 1, state |-> "SINGLE_PACKET", data |-> cells(k)]}
    ELSE {[key |-> k, sequence |-> i,
           state |-> IF i = count(k) THEN lastState(k) ELSE IF i = 1 THEN "START" ELSE "FRAGMENT",
           data |-> SubSeq(cells(k), (i - 1) * MaxPayload + 1,
                           IF i = count(k) THEN Size[k] ELSE i * MaxPayload)] : i \in 1..count(k)}

\* Ip::handle for a packet of the demultiplexer, up to the unlock of the CID
\* table: a packet without a prefix is dropped, one for a forwarding CID is
\* published, any other is about to be buffered.
Handle(k) ==
    /\ configured = <<>>
    /\ k \in arriving
    /\ demux = {}
    /\ arriving' = arriving \ {k}
    /\ \/ /\ firstMatch(Dst[k]) = {}
          /\ UNCHANGED <<icnIds, demux, fragments>>
       \/ \E p \in firstMatch(Dst[k]) :
            LET c == cid(p, Dst[k])
            IN IF c \in DOMAIN icnIds /\ icnIds[c] = "forwarding"
               THEN /\ fragments' = fragments \cup utpPublish(k)
                    /\ UNCHANGED <<icnIds, demux>>
               ELSE /\ icnIds' = [d \in DOMAIN icnIds \cup {c} |-> IF d = c THEN "known" ELSE icnIds[d]]
                    /\ demux' = {[packet |-> k, cid |-> c]}
                    /\ UNCHANGED fragments
    /\ UNCHANGED <<configured, routingPrefixes, packetBuffer, ipStarts, reassemblyBuffer, out>>

\* The rest of Ip::handle: _bufferPacket (a later packet replaces an earlier one)
\* and publish_info.
BufferPacket(d) ==
    /\ packetBuffer' = {b \in packetBuffer : b.cid # d.cid} \cup {d}
    /\ ipStarts' = ipStarts \cup {d.cid}
    /\ demux' = {}
    /\ UNCHANGED <<configured, routingPrefixes, arriving, icnIds, fragments, reassemblyBuffer, out>>

\* START_PUBLISH: Ip::forwarding(cid, true), Ip::publishFromBuffer.
IpStartPublish(c) ==
    LET mine == {b \in packetBuffer : b.cid = c}
    IN /\ c \in ipStarts
       /\ ipStarts' = ipStarts \ {c}
       /\ icnIds' = [icnIds EXCEPT ![c] = "forwarding"]
       /\ fragments' = fragments \cup UNION {utpPublish(b.packet) : b \in mine}
       /\ packetBuffer' = packetBuffer \ mine
       /\ UNCHANGED <<configured, routingPrefixes, arriving, demux, reassemblyBuffer, out>>

\* STOP_PUBLISH or PAUSE_PUBLISH: Ip::forwarding(cid, false).
IpStopPublish(c) ==
    /\ icnIds[c] = "forwarding"
    /\ icnIds' = [icnIds EXCEPT ![c] = "known"]
    /\ UNCHANGED <<configured, routingPrefixes, arriving, packetBuffer, demux, ipStarts, fragments,
                   reassemblyBuffer, out>>

\* IpBufferCleaner::operator(): a packet that is too old is dropped.
CleanPacket(b) ==
    /\ packetBuffer' = packetBuffer \ {b}
    /\ UNCHANGED <<configured, routingPrefixes, arriving, icnIds, demux, ipStarts, fragments,
                   reassemblyBuffer, out>>

----------------------------------------------------------------------------
(* The network and the receiving NAP. *)

Lose(f) ==
    /\ fragments' = fragments \ {f}
    /\ UNCHANGED <<configured, routingPrefixes, arriving, icnIds, packetBuffer, demux, ipStarts,
                   reassemblyBuffer, out>>

\* IpSocket::_sendFragments: the byte ranges of the IP fragments of a payload;
\* a payload that fits leaves in one packet (_sendPacketLibnet, _sendPacketRawIp).
ipFragments(size) ==
    LET n == (size + MaxIpPayload - 1) \div MaxIpPayload
    IN [i \in 1..n |-> [from |-> (i - 1) * MaxIpPayload + 1,
                        to |-> IF size - (i - 1) * MaxIpPayload > MaxIpPayload
                               THEN i * MaxIpPayload ELSE size]]

\* What the endpoint reassembles from these fragments.
joined(image, ranges) ==
    FlattenSeq([i \in DOMAIN ranges |-> SubSeq(image, ranges[i].from, ranges[i].to)])

\* IpSocket::sendPacket: written, or lost to an error of the socket.
sendPacket(key, image) ==
    \/ out' = Append(out, [packet |-> key, data |-> joined(image, ipFragments(Len(image)))])
    \/ UNCHANGED out

held(key) == {g \in reassemblyBuffer : g.key = key}

\* The first loop of Unreliable::handle: in sequence order the fragments begin
\* with START, have no gap, and end with FINISHED.
allReceived(parts) ==
    LET sequences == {g.sequence : g \in parts}
        lowest == CHOOSE g \in parts : \A h \in parts : g.sequence <= h.sequence
        highest == CHOOSE g \in parts : \A h \in parts : g.sequence >= h.sequence
    IN /\ lowest.state = "START"
       /\ sequences = lowest.sequence..highest.sequence
       /\ highest.state = "FINISHED"

fragment(parts, i) == CHOOSE g \in parts : g.sequence = i

Badoffset(parts, i) == IF i = 1 THEN 0 ELSE Len(fragment(parts, i).data)

\* The second loop: each fragment is copied to the offset its predecessor's
\* length gives, not to the sum of the lengths before it (unreliable.cc:205).
offset(parts, i) == IF i = 1 THEN 0 ELSE Len(fragment(parts, i - 1).data)

uninitialised == <<0, 0>>

reassembled(parts) ==
    LET n == Cardinality(parts)
        length == (n - 1) * Len(fragment(parts, 1).data) + Len(fragment(parts, n).data)
        covers(i, x) == x > offset(parts, i) /\ x <= offset(parts, i) + Len(fragment(parts, i).data)
        writers(x) == {i \in 1..n : covers(i, x)}
    IN [x \in 1..length |->
          IF writers(x) = {} THEN uninitialised
          ELSE LET i == CHOOSE i \in writers(x) : \A j \in writers(x) : j <= i
               IN fragment(parts, i).data[x - offset(parts, i)]]

\* Unreliable::handle.
UtpHandle(f) ==
    LET parts == held(f.key) \cup {f}
    IN /\ fragments' = fragments \ {f}
       /\ \/ /\ f.state = "SINGLE_PACKET"
             /\ sendPacket(f.key, f.data)
             /\ UNCHANGED reassemblyBuffer
          \/ /\ f.state # "SINGLE_PACKET"
             /\ ~allReceived(parts)
             /\ reassemblyBuffer' = reassemblyBuffer \cup {f}
             /\ UNCHANGED out
          \/ /\ f.state # "SINGLE_PACKET"
             /\ allReceived(parts)
             /\ sendPacket(f.key, reassembled(parts))
             /\ reassemblyBuffer' = reassemblyBuffer \ parts
       /\ UNCHANGED <<configured, routingPrefixes, arriving, icnIds, packetBuffer, demux, ipStarts>>

IpNext ==
    \/ ParsePrefix
    \/ \E k \in Packet : Handle(k)
    \/ \E d \in demux : BufferPacket(d)
    \/ \E c \in DOMAIN icnIds : IpStartPublish(c) \/ IpStopPublish(c)
    \/ \E b \in packetBuffer : CleanPacket(b)
    \/ \E f \in fragments : Lose(f) \/ UtpHandle(f)

IpSpec == IpInit /\ [][IpNext]_ipVars

----------------------------------------------------------------------------
(* Properties. *)

\* The prefix Ip::_routingPrefix picks for an address is the longest of the
\* stored ones that match it, although the table is ordered by the numbers of
\* the networks and not by the lengths of their masks.
LongestPrefix ==
    \A a \in Address : \A p \in firstMatch(a), q \in matching(a) : q.mask \subseteq p.mask

\* A packet leaves the receiving NAP at most once, and intact if it took at
\* most two UTP fragments, whatever the network loses or reorders and whenever
\* START_PUBLISH, STOP_PUBLISH and the cleaner come (unreliable.cc handle).
PacketsIntact ==
    \A i \in DOMAIN out :
        /\ count(out[i].packet) <= 2 => out[i].data = cells(out[i].packet)
        /\ Len(out[i].data) = Size[out[i].packet]
        /\ \A j \in DOMAIN out : out[i].packet = out[j].packet => i = j
=============================================================================
