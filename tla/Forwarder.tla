------------------------------ MODULE Forwarder ------------------------------
(***************************************************************************)
(* The forwarding elements of a Blackadder network (Click element          *)
(* Forwarder, the LIPSIN mechanism).  Every link has an identifier (LID),  *)
(* a set of bits; a packet carries a forwarding identifier (FID), the      *)
(* union of the LIDs of the links it is to cross and of the internal LIDs  *)
(* (iLID) of the nodes it is to be handed up at.  A forwarder keeps no     *)
(* state about packets: it sends a packet on every link whose LID is       *)
(* contained in the FID, except back where it came from.                   *)
(*                                                                         *)
(* push() is modelled on every node of a network, with the frames that are *)
(* between two nodes.  The trail of a frame (the nodes it came through) is *)
(* history that the code does not have.                                    *)
(***************************************************************************)
EXTENDS Naturals, Sequences, FiniteSets

CONSTANTS
    Node,
    Bit,      \* the bits of a FID
    Link,     \* all fwTable entries: records [from, to, src, dst, lid, proto]
    iLID,     \* the internal LID of each node
    Packet,   \* the packets published
    source,   \* the node that publishes a packet
    fidOf,    \* the FID LocalProxy gives it
    MaxPublished  \* bound: how many packets are published in a behaviour

FID == SUBSET Bit

ASSUME NetworkAssumption ==
    /\ \A l \in Link : /\ l.from \in Node /\ l.to \in Node /\ l.from # l.to
                       /\ l.lid \in FID \ {{}} /\ l.proto \in {"BA", "SDN"}
    /\ iLID \in [Node -> FID]
    /\ \A p \in Packet : source[p] \in Node /\ fidOf[p] \in FID
    /\ MaxPublished \in Nat

VARIABLES
    conf,    \* how the network was configured: a Configuration
    sent,    \* packets that LocalProxy has published
    net,     \* frames between two nodes
    up,      \* what was handed to LocalProxy: pairs of a node and a packet
    twice,   \* pairs handed up more than once
    used     \* how often the last push gave its packet away or killed it

vars == <<conf, sent, net, up, twice, used>>

\* mac: Ethernet frames (gc->use_mac); otherwise raw IP sockets.  ns3: the
\* medium shows Blackadder frames with the Ethernet type of IPv4.
Configuration == [mac: BOOLEAN, ns3: BOOLEAN]

fwTable(n) == {l \in Link : l.from = n}

matches(fid, l) == l.lid \subseteq fid

(***************************************************************************)
(* Frames.  hdr is the number of bytes in front of the FID.                *)
(***************************************************************************)
EthernetTypes == {"BA", "SDN", "IPV4"}

\* Where push() looks for the FID, and how much it strips for LocalProxy: it
\* takes every unknown Ethernet type for a Blackadder frame.
offset(type) == IF type = "UDP" THEN 28 ELSE IF type = "SDN" THEN 22 ELSE 14

\* How much is put in front of the FID of a packet from LocalProxy.
pushed(proto) ==
    CASE proto = "BA" -> 14 [] proto = "SDN" -> 14 + 8 [] proto = "UDP" -> 20 + 8

onWire(type) == IF conf.ns3 /\ type = "BA" THEN "IPV4" ELSE type

\* Wrong on purpose (as are all operators named Bad...): the FID is replaced.
BadFrame(l, pkt) ==
    [at |-> l.to, src |-> l.src, dst |-> l.dst, type |-> onWire(l.proto),
     hdr |-> pushed(l.proto), pkt |-> pkt, fid |-> l.lid, trail |-> <<l.from>>]

NewFrame(l, pkt) ==
    LET proto == IF conf.mac THEN l.proto ELSE "UDP"
    IN  [at |-> l.to, src |-> l.src, dst |-> l.dst, type |-> onWire(proto),
         hdr |-> pushed(proto), pkt |-> pkt, fid |-> fidOf[pkt],
         trail |-> <<l.from>>]

BadRewritten(f, l) == \* the header is rewritten in place
    IF conf.mac /\ f.type # l.proto THEN [type |-> l.proto, hdr |-> f.hdr]
                                  ELSE [type |-> f.type, hdr |-> f.hdr]

\* The type and header of frame f when it leaves on link l: the header is
\* converted between the Blackadder and the SDN layout, and left alone when
\* the types agree or the type of the frame is unknown.
rewritten(f, l) ==
    IF conf.mac /\ f.type = "BA" /\ l.proto = "SDN"
    THEN [type |-> "SDN", hdr |-> f.hdr + 8]
    ELSE IF conf.mac /\ f.type = "SDN" /\ l.proto = "BA"
    THEN [type |-> "BA", hdr |-> (f.hdr - (14 + 8)) + 14]
    ELSE [type |-> f.type, hdr |-> f.hdr]

Forwarded(f, l) ==
    LET header == rewritten(f, l)
    IN  [at |-> l.to, src |-> l.src, dst |-> l.dst, type |-> onWire(header.type),
         hdr |-> header.hdr, pkt |-> f.pkt, fid |-> f.fid,
         trail |-> Append(f.trail, f.at)]

BadLoop(f, l) == FALSE \* no check

\* Link l leads back to where frame f came from.
loop(f, l) ==
    \/ f.src = l.dst /\ f.dst = l.src
    \/ conf.mac /\ (f.src = l.src \/ f.dst = l.dst)

\* The FID push() finds; something else if it looks in the wrong place.
readFID(f) == IF f.hdr = offset(f.type) THEN f.fid ELSE {}

-----------------------------------------------------------------------------
Init ==
    /\ conf \in Configuration
    /\ sent = {}
    /\ net = {}
    /\ up = {}
    /\ twice = {}
    /\ used = 1

\* LocalProxy pushes a packet (port 0).  The last link gets the packet itself,
\* the others copies.
pushLocal(pkt) ==
    LET links == {l \in fwTable(source[pkt]) : matches(fidOf[pkt], l)}
    IN  /\ pkt \notin sent /\ Cardinality(sent) < MaxPublished
        /\ sent' = sent \cup {pkt}
        /\ net' = net \cup {NewFrame(l, pkt) : l \in links}
        /\ used' = (IF links = {} THEN 1 ELSE 0) + (IF links # {} THEN 1 ELSE 0)
        /\ UNCHANGED <<conf, up, twice>>

BadOutLinks(f) == \* no link that matches after the first
    LET all == {l \in fwTable(f.at) : matches(readFID(f), l) /\ ~ loop(f, l)}
    IN  IF readFID(f) = Bit \/ all = {} THEN {} ELSE {CHOOSE l \in all : TRUE}

\* The links frame f goes on: none if all bits of the FID are set.
outLinks(f) ==
    {l \in fwTable(f.at) :
        readFID(f) # Bit /\ matches(readFID(f), l) /\ ~ loop(f, l)}

BadPushLocally(f) == \* any bit of the internal LID
    iLID[f.at] \cap readFID(f) # {}

pushLocally(f) == iLID[f.at] \subseteq readFID(f)

BadUses(f) == \* a packet that is handed up is killed as well
    (IF pushLocally(f) THEN 1 ELSE 0) + (IF outLinks(f) = {} THEN 1 ELSE 0)

\* How often the packet itself, not a copy, is given away: to LocalProxy, to
\* the last link unless it is handed up, or to kill().
uses(f) ==
    (IF pushLocally(f) THEN 1 ELSE 0)
      + (IF outLinks(f) # {} /\ ~ pushLocally(f) THEN 1 ELSE 0)
      + (IF outLinks(f) = {} /\ ~ pushLocally(f) THEN 1 ELSE 0)

BadPushNetwork(f) == \* what is handed up stays queued at the device
    LET pair == <<f.at, f.pkt>>
        new == IF pushLocally(f) THEN {pair} ELSE {}
    IN  /\ net' = (IF pushLocally(f) THEN net ELSE net \ {f})
                     \cup {Forwarded(f, l) : l \in outLinks(f)}
        /\ up' = up \cup new
        /\ twice' = twice \cup (new \cap up)
        /\ used' = uses(f)
        /\ UNCHANGED <<conf, sent>>

BadKill(f) == \* a frame for nobody stays queued
    LET pair == <<f.at, f.pkt>>
        new == IF pushLocally(f) THEN {pair} ELSE {}
    IN  /\ net' = (IF new = {} /\ outLinks(f) = {} THEN net ELSE net \ {f})
                     \cup {Forwarded(f, l) : l \in outLinks(f)}
        /\ up' = up \cup new
        /\ twice' = twice \cup (new \cap up)
        /\ used' = uses(f)
        /\ UNCHANGED <<conf, sent>>

\* A frame arrives from the network (ports from 1).
pushNetwork(f) ==
    LET pair == <<f.at, f.pkt>>
        new == IF pushLocally(f) THEN {pair} ELSE {}
    IN  /\ net' = (net \ {f}) \cup {Forwarded(f, l) : l \in outLinks(f)}
        /\ up' = up \cup new
        /\ twice' = twice \cup (new \cap up)
        /\ used' = uses(f)
        /\ UNCHANGED <<conf, sent>>

Next == \/ \E pkt \in Packet : pushLocal(pkt)
        \/ \E f \in net : pushNetwork(f)

\* The tasks of the network devices are always scheduled again, and a link
\* hands over what it is given; what LocalProxy publishes is its own choice.
Spec == Init /\ [][Next]_vars
FairSpec == Spec /\ WF_vars(\E f \in net : pushNetwork(f))

-----------------------------------------------------------------------------
(***************************************************************************)
(* What a FID is meant to do.                                              *)
(***************************************************************************)
\* The links a packet may cross: those whose LID is in the FID, whether they
\* were put there or match by chance.
Matched(pkt) == {l \in Link : matches(fidOf[pkt], l)}

Closed(links, N) == \A l \in links : l.from \in N => l.to \in N

\* The nodes that links lead to from node n, n included: those that are in
\* every set of nodes the links do not leave.
From(links, n) ==
    {m \in Node : \A N \in SUBSET Node : n \in N /\ Closed(links, N) => m \in N}

\* The links a packet may cross and the nodes it gets to.  A FID with all bits
\* set takes it to the neighbours of its source only.
Reached == [pkt \in Packet |->
    IF fidOf[pkt] = Bit THEN {source[pkt]} \cup {l.to : l \in fwTable(source[pkt])}
    ELSE From(Matched(pkt), source[pkt])]
Away(pkt) ==
    IF fidOf[pkt] = Bit THEN fwTable(source[pkt])
    ELSE {l \in Matched(pkt) : l.from \in Reached[pkt]}

\* The nodes whose internal LID is in the FID, and those of them that are to
\* get the packet from the network.
Named == [pkt \in Packet |-> {n \in Reached[pkt] : iLID[n] \subseteq fidOf[pkt]}]
Meant == [pkt \in Packet |-> Named[pkt] \ {source[pkt]}]

Opposite(l, m) == l.from = m.to /\ l.to = m.from /\ l.src = m.dst /\ l.dst = m.src

\* The packets whose FID describes a tree: apart from the opposite directions
\* of the links that lead away from the source, no two links lead to the same
\* node and none to the source.
Tree(pkt, T) ==
    /\ T \subseteq Away(pkt)
    /\ \A l, m \in T : l # m => l.to # m.to
    /\ \A l \in T : l.to # source[pkt]
    /\ \A l \in Away(pkt) \ T : \E m \in T : Opposite(l, m)

TreePackets == {pkt \in Packet : \E T \in SUBSET Away(pkt) : Tree(pkt, T)}

-----------------------------------------------------------------------------
Frame(f) ==
    /\ f.at \in Node /\ f.pkt \in Packet /\ f.fid = fidOf[f.pkt]
    /\ f.type \in EthernetTypes \cup {"UDP"} /\ f.hdr \in Nat
    /\ f.trail \in Seq(Node)

\* The types of the model: frames carry the FID their packet was given.
TypeOK ==
    /\ conf \in Configuration
    /\ sent \subseteq Packet
    /\ \A f \in net : Frame(f)
    /\ up \subseteq Node \X Packet /\ twice \subseteq up
    /\ used \in Nat

\* The header of every frame is as long as its Ethernet type says, however
\* often it was converted between Blackadder and SDN links: the next node
\* finds the FID, and LocalProxy the payload.
FrameReadable == \A f \in net : f.hdr = offset(f.type)

\* push() gives each packet away exactly once: it is neither leaked nor used
\* after it was sent or killed.
UsedOnce == used = 1

\* A FID that describes a tree takes no frame to a node it already visited
\* and no packet to an application twice, with both directions of a link in
\* the FID too: the forwarder does not send back what it received.
NoReturn ==
    \A f \in net : f.pkt \in TreePackets => \A i \in DOMAIN f.trail : f.trail[i] # f.at

AtMostOnce == \A pair \in twice : pair[2] \notin TreePackets

\* Nobody receives a packet that was not meant for them: only nodes that the
\* FID leads to and names, and the source itself at most when it is no tree.
OnlyMeant ==
    \A pair \in up : /\ pair[1] \in Named[pair[2]]
                     /\ pair[2] \in TreePackets => pair[1] \in Meant[pair[2]]

\* Every published packet reaches all nodes it is meant for.
Delivered ==
    \A pkt \in Packet : (pkt \in sent) ~> (Meant[pkt] \X {pkt} \subseteq up)

\* And the network is rid of it at some point.
Drained == \A pkt \in Packet : (pkt \in sent) ~> (\A f \in net : f.pkt # pkt)

\* Every frame in flight is well formed and readable where it arrives, and
\* push() has used each packet exactly once.
FramesSound == TypeOK /\ FrameReadable /\ UsedOnce

\* What comes up at a node is meant for it and, if the FID is of a tree, comes
\* once (the loop check and the internal LID test of push()).
RightlyDelivered == NoReturn /\ AtMostOnce /\ OnlyMeant

\* Every published packet reaches all nodes it is meant for, and leaves the
\* network.
DeliveredAndGone == Delivered /\ Drained
=============================================================================
