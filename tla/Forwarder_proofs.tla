--------------------------- MODULE Forwarder_proofs ---------------------------
(***************************************************************************)
(* Proofs about Forwarder, for every network, every assignment of link     *)
(* identifiers and every FID: frames stay readable through all conversions *)
(* of their headers, push() gives each packet away exactly once, and what  *)
(* a node is given was meant for it and, on a tree, comes once.            *)
(***************************************************************************)
EXTENDS Forwarder, TLAPS

\* A new frame is well formed and readable.
LEMMA NewFrameReadable ==
    ASSUME NEW l \in Link, NEW pkt \in Packet
    PROVE  Frame(NewFrame(l, pkt))
           /\ NewFrame(l, pkt).hdr = offset(NewFrame(l, pkt).type)
<1> DEFINE proto == IF conf.mac THEN l.proto ELSE "UDP"
<1>1. proto \in {"BA", "SDN", "UDP"} /\ l.to \in Node /\ l.from \in Node
  BY NetworkAssumption
<1>2. onWire(proto) \in EthernetTypes \cup {"UDP"}
  BY <1>1 DEF onWire, EthernetTypes
<1>3. pushed(proto) = offset(onWire(proto)) /\ pushed(proto) \in Nat
  BY <1>1 DEF pushed, offset, onWire
<1>4. <<l.from>> \in Seq(Node)
  BY <1>1
<1> QED
  BY <1>1, <1>2, <1>3, <1>4 DEF NewFrame, Frame

\* Conversion keeps the header as long as the type says.
LEMMA RewrittenReadable ==
    ASSUME NEW f, Frame(f), f.hdr = offset(f.type), NEW l \in Link
    PROVE  /\ onWire(rewritten(f, l).type) \in EthernetTypes \cup {"UDP"}
           /\ rewritten(f, l).hdr \in Nat
           /\ rewritten(f, l).hdr = offset(onWire(rewritten(f, l).type))
BY DEF Frame, EthernetTypes, rewritten, onWire, offset

\* So a readable frame is forwarded as a readable one.
LEMMA ForwardedReadable ==
    ASSUME NEW f, Frame(f), f.hdr = offset(f.type), NEW l \in Link
    PROVE  Frame(Forwarded(f, l))
           /\ Forwarded(f, l).hdr = offset(Forwarded(f, l).type)
<1>1. l.to \in Node
  BY NetworkAssumption
<1>2. Append(f.trail, f.at) \in Seq(Node)
  BY DEF Frame
<1>3. f.pkt \in Packet /\ f.fid = fidOf[f.pkt]
  BY DEF Frame
<1> QED
  BY <1>1, <1>2, <1>3, RewrittenReadable DEF Forwarded, Frame

\* The inductive invariant: what a node does to a frame depends on both.
Inv == TypeOK /\ FrameReadable /\ UsedOnce

\* Nothing is in flight at first.
LEMMA InvInit == Init => Inv
BY DEF Init, Inv, TypeOK, FrameReadable, UsedOnce

\* push() on port 0.
LEMMA PushLocalKeeps ==
    ASSUME Inv, NEW pkt \in Packet, pushLocal(pkt)
    PROVE  Inv'
<1> DEFINE links == {l \in fwTable(source[pkt]) : matches(fidOf[pkt], l)}
           new == {NewFrame(l, pkt) : l \in links}
<1>1. links \subseteq Link
  BY DEF fwTable
<1>2. \A f \in new : Frame(f) /\ f.hdr = offset(f.type)
  BY <1>1, NewFrameReadable
<1>3. net' = net \cup new
  BY DEF pushLocal
<1>4. \A f \in net' : Frame(f) /\ f.hdr = offset(f.type)
  BY <1>2, <1>3 DEF Inv, TypeOK, FrameReadable
<1>5. used' = 1
  BY DEF pushLocal
<1>6. sent' \subseteq Packet /\ up' = up /\ twice' = twice /\ conf' = conf
  BY DEF pushLocal, Inv, TypeOK
<1> HIDE DEF new, links
<1> QED
  BY <1>4, <1>5, <1>6 DEF Inv, TypeOK, FrameReadable, UsedOnce, Frame

\* push() on the ports of the network.
LEMMA PushNetworkKeeps ==
    ASSUME Inv, NEW f \in net, pushNetwork(f)
    PROVE  Inv'
<1> DEFINE pair == <<f.at, f.pkt>>
           handed == IF pushLocally(f) THEN {pair} ELSE {}
           new == {Forwarded(f, l) : l \in outLinks(f)}
<1>1. Frame(f) /\ f.hdr = offset(f.type)
  BY DEF Inv, TypeOK, FrameReadable
<1>2. outLinks(f) \subseteq Link
  BY DEF outLinks, fwTable
<1>3. \A g \in new : Frame(g) /\ g.hdr = offset(g.type)
  BY <1>1, <1>2, ForwardedReadable
<1>4. net' = (net \ {f}) \cup new
  BY DEF pushNetwork
<1>5. \A g \in net' : Frame(g) /\ g.hdr = offset(g.type)
  BY <1>3, <1>4 DEF Inv, TypeOK, FrameReadable
<1>6. handed \subseteq Node \X Packet
  BY <1>1 DEF Frame
<1>7. up' = up \cup handed /\ twice' = twice \cup (handed \cap up)
      /\ sent' = sent /\ conf' = conf
  BY DEF pushNetwork
<1>8. up' \subseteq Node \X Packet /\ twice' \subseteq up'
  <2> HIDE DEF handed
  <2> QED BY <1>6, <1>7 DEF Inv, TypeOK
<1>9. used' = 1
  <2>1. used' = uses(f)
    BY DEF pushNetwork
  <2>2. uses(f) = 1
    BY DEF uses
  <2> QED BY <2>1, <2>2
<1> HIDE DEF new, handed, pair
<1> QED
  BY <1>5, <1>7, <1>8, <1>9 DEF Inv, TypeOK, FrameReadable, UsedOnce, Frame

\* Forwarder::push, whatever the network and the FIDs: frames carry their FID
\* where their type says, and each packet is given away exactly once.
THEOREM Forwarding == Spec => []FramesSound
<1>1. Inv /\ [Next]_vars => Inv'
  <2> SUFFICES ASSUME Inv, [Next]_vars PROVE Inv'
    OBVIOUS
  <2>1. CASE \E pkt \in Packet : pushLocal(pkt)
    BY <2>1, PushLocalKeeps
  <2>2. CASE \E f \in net : pushNetwork(f)
    BY <2>2, PushNetworkKeeps
  <2>3. CASE UNCHANGED vars
    BY <2>3 DEF vars, Inv, TypeOK, FrameReadable, UsedOnce, Frame
  <2> QED BY <2>1, <2>2, <2>3 DEF Next
<1> QED
  BY InvInit, <1>1, PTL DEF Spec, Inv, FramesSound

-----------------------------------------------------------------------------
(***************************************************************************)
(* Where links lead.  From is a least closed set, so what it contains is   *)
(* shown by giving a closed set.                                           *)
(***************************************************************************)

\* A closed set with n in it holds everything links lead to from n.
LEMMA FromLeast ==
    ASSUME NEW L, NEW n, NEW N \in SUBSET Node, n \in N, Closed(L, N)
    PROVE  From(L, n) \subseteq N
BY DEF From

\* Links lead from a node to itself and one link further.
LEMMA FromSelf ==
    ASSUME NEW L, NEW n \in Node PROVE n \in From(L, n)
BY DEF From

LEMMA FromStep ==
    ASSUME NEW L \in SUBSET Link, NEW n, NEW l \in L, l.from \in From(L, n)
    PROVE  l.to \in From(L, n)
<1>1. l.to \in Node
  BY NetworkAssumption
<1> QED BY <1>1 DEF From, Closed

\* What is behind a node that links lead to, they lead to.
LEMMA FromBehind ==
    ASSUME NEW L \in SUBSET Link, NEW n, NEW m \in From(L, n)
    PROVE  From(L, m) \subseteq From(L, n)
<1>1. From(L, n) \in SUBSET Node
  BY DEF From
<1>2. Closed(L, From(L, n))
  BY FromStep DEF Closed
<1> QED BY <1>1, <1>2, FromLeast

\* Links lead to another node through a last link.
LEMMA FromLast ==
    ASSUME NEW L \in SUBSET Link, NEW n \in Node, NEW m \in From(L, n), m # n
    PROVE  \E l \in L : l.to = m /\ l.from \in From(L, n)
<1> SUFFICES ASSUME \A l \in L : l.from \in From(L, n) => l.to # m PROVE FALSE
  OBVIOUS
<1> DEFINE N == From(L, n) \ {m}
<1>1. N \in SUBSET Node
  BY DEF From
<1>2. n \in N
  BY FromSelf
<1>3. Closed(L, N)
  BY FromStep DEF Closed
<1>4. From(L, n) \subseteq N
  <2> HIDE DEF N
  <2> QED BY <1>1, <1>2, <1>3, FromLeast
<1> QED BY <1>4

\* The shape of a tree: one link to a node, none to the source.
LEMMA TreeShape ==
    ASSUME NEW pkt \in Packet, NEW T, Tree(pkt, T)
    PROVE  /\ T \in SUBSET Link
           /\ \A l, m \in T : l.to = m.to => l = m
           /\ \A l \in T : l.to # source[pkt]
           /\ \A l \in T : l.from \in Node /\ l.to \in Node /\ l.from # l.to
           /\ source[pkt] \in Node
<1>1. T \in SUBSET Link
  BY DEF Tree, Away, fwTable, Matched
<1>2. \A l \in T : l.from \in Node /\ l.to \in Node /\ l.from # l.to
  BY <1>1, NetworkAssumption
<1>3. source[pkt] \in Node
  BY NetworkAssumption
<1> QED BY <1>1, <1>2, <1>3 DEF Tree

\* A tree leads from no node back to it.
LEMMA NoWayBack ==
    ASSUME NEW pkt \in Packet, NEW T, Tree(pkt, T),
           NEW l \in T, l.from \in From(T, source[pkt])
    PROVE  l.from \notin From(T, l.to)
<1> DEFINE s == source[pkt]
           C == {y \in Node : \E k \in T : k.from = y /\ y \in From(T, k.to)}
           N == From(T, s) \ C
<1>1. T \in SUBSET Link /\ s \in Node
      /\ \A k \in T : k.from \in Node /\ k.to \in Node /\ k.from # k.to /\ k.to # s
  BY TreeShape
<1>2. s \in N
  <2> SUFFICES ASSUME NEW k \in T, s \in From(T, k.to) PROVE FALSE
    BY <1>1, FromSelf
  <2>1. \E j \in T : j.to = s
    BY <1>1, FromLast
  <2> QED BY <1>1, <2>1
<1>3. ASSUME NEW k \in T, k.from \in N PROVE k.to \in N
  <2>1. k.to \in From(T, s)
    BY <1>1, <1>3, FromStep
  <2> SUFFICES ASSUME k.to \in C PROVE FALSE
    BY <2>1
  <2>2. PICK j \in T : j.from = k.to /\ k.to \in From(T, j.to)
    OBVIOUS
  <2>3. \E i \in T : i.to = k.to /\ i.from \in From(T, j.to)
    BY <1>1, <2>2, FromLast
  <2>4. k.from \in From(T, j.to)
    BY <2>3, TreeShape
  <2>5. j.to \in From(T, k.to)
    BY <1>1, <2>2, FromSelf, FromStep
  <2>6. k.from \in From(T, k.to)
    BY <1>1, <2>4, <2>5, FromBehind
  <2> QED BY <1>1, <1>3, <2>6
<1>4. N \in SUBSET Node /\ Closed(T, N)
  BY <1>3 DEF From, Closed
<1>5. From(T, s) \subseteq N
  <2> HIDE DEF N
  <2> QED BY <1>2, <1>4, FromLeast
<1> QED BY <1>1, <1>5

\* Two links from one node of a tree lead to different parts of it.
LEMMA Branches ==
    ASSUME NEW pkt \in Packet, NEW T, Tree(pkt, T), NEW l \in T, NEW k \in T,
           l # k, l.from = k.from, l.from \in From(T, source[pkt])
    PROVE  From(T, l.to) \cap From(T, k.to) = {}
<1> DEFINE N == From(T, l.to) \ From(T, k.to)
<1>1. T \in SUBSET Link /\ l.to \in Node /\ k.to \in Node /\ l.to # k.to
  BY TreeShape
<1>2. l.to \notin From(T, k.to)
  <2> SUFFICES ASSUME l.to \in From(T, k.to) PROVE FALSE
    OBVIOUS
  <2>1. \E j \in T : j.to = l.to /\ j.from \in From(T, k.to)
    BY <1>1, FromLast
  <2>2. k.from \in From(T, k.to)
    BY <2>1, TreeShape
  <2> QED BY <2>2, NoWayBack
<1>3. k.to \notin From(T, l.to)
  <2> SUFFICES ASSUME k.to \in From(T, l.to) PROVE FALSE
    OBVIOUS
  <2>1. \E j \in T : j.to = k.to /\ j.from \in From(T, l.to)
    BY <1>1, FromLast
  <2>2. l.from \in From(T, l.to)
    BY <2>1, TreeShape
  <2> QED BY <2>2, NoWayBack
<1>4. ASSUME NEW j \in T, j.from \in N PROVE j.to \in N
  <2>1. j.to \in From(T, l.to)
    BY <1>1, <1>4, FromStep
  <2> SUFFICES ASSUME j.to \in From(T, k.to) PROVE FALSE
    BY <2>1
  <2>2. j.to # k.to
    BY <1>3, <2>1
  <2>3. \E i \in T : i.to = j.to /\ i.from \in From(T, k.to)
    BY <1>1, <2>2, FromLast
  <2> QED BY <1>4, <2>3, TreeShape
<1>5. N \in SUBSET Node /\ Closed(T, N) /\ l.to \in N
  BY <1>1, <1>2, <1>4, FromSelf DEF From, Closed
<1>6. From(T, l.to) \subseteq N
  <2> HIDE DEF N
  <2> QED BY <1>5, FromLeast
<1> QED BY <1>6

-----------------------------------------------------------------------------
(***************************************************************************)
(* Where frames are.                                                       *)
(***************************************************************************)

\* A frame of a packet with tree T arrived on a link of T, and the nodes it was
\* at before are above the one it is at.
OnTree(f, T) ==
    /\ \E m \in T : m.to = f.at /\ m.src = f.src /\ m.dst = f.dst
    /\ f.at \in From(T, source[f.pkt])
    /\ \A i \in DOMAIN f.trail : f.at \in From(T, f.trail[i]) /\ f.trail[i] # f.at

\* No node on the tree behind a frame has another frame of the packet or got it.
OncePerNode(pkt, T) ==
    /\ \A f \in net : f.pkt = pkt => OnTree(f, T)
    /\ \A f, g \in net : f.pkt = pkt /\ g.pkt = pkt /\ g.at \in From(T, f.at) => f = g
    /\ \A f \in net, pair \in up :
          f.pkt = pkt /\ pair[2] = pkt => pair[1] \notin From(T, f.at)
    /\ \A pair \in up : pair[2] = pkt => pair[1] # source[pkt]
    /\ \A pair \in twice : pair[2] # pkt

\* The inductive invariant.
RouteInv ==
    /\ Inv
    /\ \A f \in net : f.pkt \in sent /\ f.at \in Reached[f.pkt]
    /\ \A pair \in up : pair[2] \in sent /\ pair[1] \in Named[pair[2]]
    /\ \A pkt \in Packet : \A T \in SUBSET Link : Tree(pkt, T) => OncePerNode(pkt, T)

LEMMA RouteInit == Init => RouteInv
BY InvInit DEF Init, RouteInv, OncePerNode

\* The fields of frames.
LEMMA NewFrameFields ==
    ASSUME NEW l, NEW pkt
    PROVE  /\ NewFrame(l, pkt).at = l.to /\ NewFrame(l, pkt).pkt = pkt
           /\ NewFrame(l, pkt).src = l.src /\ NewFrame(l, pkt).dst = l.dst
           /\ NewFrame(l, pkt).trail = <<l.from>>
BY DEF NewFrame

LEMMA ForwardedFields ==
    ASSUME NEW f, NEW l
    PROVE  /\ Forwarded(f, l).at = l.to /\ Forwarded(f, l).pkt = f.pkt
           /\ Forwarded(f, l).src = l.src /\ Forwarded(f, l).dst = l.dst
           /\ Forwarded(f, l).trail = Append(f.trail, f.at)
BY DEF Forwarded

\* The links push() puts a packet of LocalProxy on lead away from the source.
LEMMA LocalLinks ==
    ASSUME NEW pkt \in Packet, NEW l \in fwTable(source[pkt]), matches(fidOf[pkt], l)
    PROVE  /\ l \in Link /\ l.from = source[pkt]
           /\ l \in Away(pkt) /\ l.to \in Reached[pkt]
           /\ \A T \in SUBSET Link : Tree(pkt, T) => l \in T
<1> DEFINE s == source[pkt]
<1>1. l \in Link /\ l.from = s /\ s \in Node /\ Matched(pkt) \in SUBSET Link
  BY NetworkAssumption DEF fwTable, Matched
<1>2. l \in Away(pkt) /\ l.to \in Reached[pkt]
  <2>1. CASE fidOf[pkt] = Bit
    BY <2>1 DEF Away, Reached
  <2>2. CASE fidOf[pkt] # Bit
    <3>1. Reached[pkt] = From(Matched(pkt), s) /\ l \in Matched(pkt)
      BY <1>1, <2>2 DEF Reached, Matched
    <3>2. s \in Reached[pkt] /\ l.to \in Reached[pkt]
      BY <1>1, <3>1, FromSelf, FromStep
    <3> QED BY <1>1, <2>2, <3>1, <3>2 DEF Away
  <2> QED BY <2>1, <2>2
<1>3. ASSUME NEW T \in SUBSET Link, Tree(pkt, T) PROVE l \in T
  BY <1>1, <1>2, <1>3 DEF Tree, Opposite
<1> QED BY <1>1, <1>2, <1>3

\* The links push() forwards a frame on lead away from the source; on a tree,
\* the loop check leaves none that leads back.
LEMMA ForwardLinks ==
    ASSUME RouteInv, NEW f \in net, NEW l \in outLinks(f)
    PROVE  /\ l \in Link /\ l.from = f.at /\ f.pkt \in Packet
           /\ l \in Away(f.pkt) /\ l.to \in Reached[f.pkt]
           /\ \A T \in SUBSET Link : Tree(f.pkt, T) => l \in T
<1> DEFINE pkt == f.pkt
           s == source[pkt]
<1>1. pkt \in Packet /\ readFID(f) = fidOf[pkt] /\ f.at \in Reached[pkt]
  BY DEF RouteInv, Inv, TypeOK, Frame, FrameReadable, readFID
<1>2. l \in Link /\ l.from = f.at /\ fidOf[pkt] # Bit /\ matches(fidOf[pkt], l) /\ ~ loop(f, l)
  BY <1>1 DEF outLinks, fwTable
<1>3. l \in Away(pkt) /\ l.to \in Reached[pkt]
  <2>1. Reached[pkt] = From(Matched(pkt), s) /\ l \in Matched(pkt) /\ Matched(pkt) \in SUBSET Link
    BY <1>1, <1>2 DEF Reached, Matched
  <2> QED BY <1>1, <1>2, <2>1, FromStep DEF Away
<1>4. ASSUME NEW T \in SUBSET Link, Tree(pkt, T) PROVE l \in T
  <2> SUFFICES ASSUME l \notin T PROVE FALSE
    OBVIOUS
  <2>1. PICK k \in T : Opposite(l, k)
    BY <1>3, <1>4 DEF Tree
  <2>2. PICK m \in T : m.to = f.at /\ m.src = f.src /\ m.dst = f.dst
    BY <1>1, <1>4 DEF RouteInv, OncePerNode, OnTree
  <2>3. k = m
    BY <1>1, <1>2, <1>4, <2>1, <2>2, TreeShape DEF Opposite
  <2> QED BY <1>2, <2>1, <2>2, <2>3 DEF Opposite, loop
<1> QED BY <1>1, <1>2, <1>3, <1>4

\* push() on port 0 keeps the invariant: it is the only time for this packet.
LEMMA PushLocalRoutes ==
    ASSUME RouteInv, NEW pkt \in Packet, pushLocal(pkt)
    PROVE  RouteInv'
<1> DEFINE s == source[pkt]
           links == {l \in fwTable(s) : matches(fidOf[pkt], l)}
           new == {NewFrame(l, pkt) : l \in links}
<1>1. Inv'
  BY PushLocalKeeps DEF RouteInv
<1>2. net' = net \cup new /\ sent' = sent \cup {pkt} /\ pkt \notin sent
      /\ up' = up /\ twice' = twice
  BY DEF pushLocal
<1>3. \A f \in new : \E l \in links :
         f.at = l.to /\ f.pkt = pkt /\ f.src = l.src /\ f.dst = l.dst /\ f.trail = <<l.from>>
         /\ f = NewFrame(l, pkt)
  BY NewFrameFields
<1>4. \A l \in links : /\ l \in Link /\ l.from = s /\ l.to \in Reached[pkt]
                       /\ \A T \in SUBSET Link : Tree(pkt, T) => l \in T
  BY LocalLinks
<1>5. (\A f \in net : f.pkt # pkt) /\ (\A pair \in up : pair[2] # pkt)
      /\ (\A pair \in twice : pair[2] # pkt)
  BY <1>2 DEF RouteInv, Inv, TypeOK
<1>6. \A f \in net' : f.pkt \in sent' /\ f.at \in Reached[f.pkt]
  <2> HIDE DEF new, links
  <2> QED BY <1>2, <1>3, <1>4 DEF RouteInv
<1>7. \A pair \in up' : pair[2] \in sent' /\ pair[1] \in Named[pair[2]]
  BY <1>2 DEF RouteInv
<1>8. ASSUME NEW p \in Packet, NEW T \in SUBSET Link, Tree(p, T), p # pkt
      PROVE  OncePerNode(p, T)'
  <2>1. OncePerNode(p, T)
    BY <1>8 DEF RouteInv
  <2>2. \A f \in net' : f.pkt = p => f \in net
    <3> HIDE DEF new, links
    <3> QED BY <1>2, <1>3, <1>8
  <2> HIDE DEF new, links
  <2> QED BY <1>2, <2>1, <2>2 DEF OncePerNode, OnTree
<1>9. ASSUME NEW T \in SUBSET Link, Tree(pkt, T)
      PROVE  OncePerNode(pkt, T)'
  <2>1. \A f \in net' : f.pkt = pkt => f \in new
    BY <1>2, <1>5
  <2>2. s \in Node /\ s \in From(T, s)
    BY TreeShape, FromSelf, <1>9
  <2>3. ASSUME NEW f \in net', f.pkt = pkt PROVE OnTree(f, T)
    <3>1. PICK l \in links : f.at = l.to /\ f.src = l.src /\ f.dst = l.dst /\ f.trail = <<l.from>>
      BY <1>3, <2>1, <2>3
    <3>2. l \in T /\ l.from = s /\ l.to # s
      BY <1>4, <1>9, <3>1, TreeShape
    <3>3. f.at \in From(T, s)
      BY <2>2, <3>1, <3>2, FromStep
    <3>4. \A i \in DOMAIN f.trail : f.trail[i] = s
      BY <3>1, <3>2
    <3> QED BY <2>3, <3>1, <3>2, <3>3, <3>4 DEF OnTree
  <2>4. ASSUME NEW f \in net', NEW g \in net', f.pkt = pkt, g.pkt = pkt, g.at \in From(T, f.at)
        PROVE  f = g
    <3>1. PICK l \in links : f.at = l.to /\ f = NewFrame(l, pkt)
      BY <1>3, <2>1, <2>4
    <3>2. PICK k \in links : g.at = k.to /\ g = NewFrame(k, pkt)
      BY <1>3, <2>1, <2>4
    <3>3. l \in T /\ k \in T /\ l.from = s /\ k.from = s
      BY <1>4, <1>9
    <3>4. l.to \in Node /\ k.to \in Node
      BY <3>3, NetworkAssumption
    <3>5. g.at \in From(T, k.to)
      BY <3>2, <3>4, FromSelf
    <3> QED BY <1>9, <2>2, <2>4, <3>1, <3>2, <3>3, <3>5, Branches
  <2> HIDE DEF new, links
  <2> QED BY <1>2, <1>5, <2>3, <2>4 DEF OncePerNode, OnTree
<1> HIDE DEF new, links
<1>10. \A p \in Packet : \A T \in SUBSET Link : Tree(p, T) => OncePerNode(p, T)'
  BY <1>8, <1>9
<1> QED BY <1>1, <1>6, <1>7, <1>10, Zenon DEF RouteInv, Tree, Away, Reached, Named, Matched

\* push() on the ports of the network keeps the invariant: the frame goes on to
\* different parts of the tree behind it.
LEMMA PushNetworkRoutes ==
    ASSUME RouteInv, NEW f \in net, pushNetwork(f)
    PROVE  RouteInv'
<1> DEFINE pkt == f.pkt
           s == source[pkt]
           handed == IF pushLocally(f) THEN {<<f.at, pkt>>} ELSE {}
           new == {Forwarded(f, l) : l \in outLinks(f)}
<1>1. Inv'
  BY PushNetworkKeeps DEF RouteInv
<1>2. net' = (net \ {f}) \cup new /\ up' = up \cup handed
      /\ twice' = twice \cup (handed \cap up) /\ sent' = sent
  BY DEF pushNetwork
<1>3. pkt \in Packet /\ f.at \in Node /\ readFID(f) = fidOf[pkt] /\ pkt \in sent
      /\ f.at \in Reached[pkt] /\ f.trail \in Seq(Node)
  BY DEF RouteInv, Inv, TypeOK, Frame, FrameReadable, readFID
<1>4. \A g \in new : \E l \in outLinks(f) :
         g.at = l.to /\ g.pkt = pkt /\ g.src = l.src /\ g.dst = l.dst
         /\ g.trail = Append(f.trail, f.at) /\ g = Forwarded(f, l)
  BY ForwardedFields
<1>5. \A l \in outLinks(f) : /\ l \in Link /\ l.from = f.at /\ l.to \in Reached[pkt]
                             /\ \A T \in SUBSET Link : Tree(pkt, T) => l \in T
  BY ForwardLinks
<1>6. \A pair \in handed : pair = <<f.at, pkt>> /\ iLID[f.at] \subseteq fidOf[pkt]
  BY <1>3 DEF pushLocally
<1>7. \A g \in net' : g.pkt \in sent' /\ g.at \in Reached[g.pkt]
  <2> HIDE DEF new, handed
  <2> QED BY <1>2, <1>3, <1>4, <1>5 DEF RouteInv
<1>8. \A pair \in up' : pair[2] \in sent' /\ pair[1] \in Named[pair[2]]
  <2>1. \A pair \in handed : pair[1] = f.at /\ pair[2] = pkt /\ pair[1] \in Named[pkt]
    BY <1>3, <1>6 DEF Named
  <2> HIDE DEF new, handed
  <2> QED BY <1>2, <1>3, <2>1 DEF RouteInv
<1>9. ASSUME NEW p \in Packet, NEW T \in SUBSET Link, Tree(p, T), p # pkt
      PROVE  OncePerNode(p, T)'
  <2>1. OncePerNode(p, T)
    BY <1>9 DEF RouteInv
  <2>2. \A g \in net' : g.pkt = p => g \in net
    <3> HIDE DEF new, handed
    <3> QED BY <1>2, <1>4, <1>9
  <2>3. \A pair \in up' : pair[2] = p => pair \in up
    BY <1>2, <1>6, <1>9
  <2>4. \A pair \in twice' : pair[2] = p => pair \in twice
    BY <1>2, <1>6, <1>9
  <2> HIDE DEF new, handed
  <2> QED BY <2>1, <2>2, <2>3, <2>4 DEF OncePerNode, OnTree
<1>10. ASSUME NEW T \in SUBSET Link, Tree(pkt, T)
       PROVE  OncePerNode(pkt, T)'
  <2>1. OncePerNode(pkt, T)
    BY <1>3, <1>10 DEF RouteInv
  <2>2. OnTree(f, T)
    BY <2>1 DEF OncePerNode
  <2>3. \A l \in outLinks(f) :
           /\ l \in T /\ l.from = f.at /\ l.to \in Node /\ l.to \in From(T, f.at)
           /\ f.at \notin From(T, l.to)
    <3> TAKE l \in outLinks(f)
    <3>1. l \in T /\ l.from = f.at /\ l.to \in Node
      BY <1>5, <1>10, NetworkAssumption
    <3>2. l.to \in From(T, f.at)
      BY <1>3, <3>1, FromSelf, FromStep
    <3>3. f.at \notin From(T, l.to)
      BY <1>3, <1>10, <2>2, <3>1, NoWayBack DEF OnTree
    <3> QED BY <3>1, <3>2, <3>3
  <2>4. ASSUME NEW g \in net', g.pkt = pkt
        PROVE  (g \in net /\ g # f) \/ g \in new
    BY <1>2
  <2>5. ASSUME NEW g \in new PROVE OnTree(g, T)
    <3>1. PICK l \in outLinks(f) : g.at = l.to /\ g.pkt = pkt /\ g.src = l.src /\ g.dst = l.dst
                                   /\ g.trail = Append(f.trail, f.at)
      BY <1>4, <2>5
    <3>2. l.to \in From(T, s)
      BY <2>2, <2>3, FromStep DEF OnTree
    <3>3. \A i \in DOMAIN g.trail : \/ g.trail[i] = f.at
                                    \/ i \in DOMAIN f.trail /\ g.trail[i] = f.trail[i]
      BY <1>3, <3>1
    <3>4. ASSUME NEW n, f.at \in From(T, n), n = f.at \/ n # f.at
          PROVE  l.to \in From(T, n) /\ n # l.to
      <4>1. l.to \in From(T, n)
        BY <2>3, <3>4, FromStep
      <4>2. n # l.to
        BY <2>3, <3>4
      <4> QED BY <4>1, <4>2
    <3>5. f.at \in From(T, f.at)
      BY <1>3, FromSelf
    <3>6. \A i \in DOMAIN g.trail : f.at \in From(T, g.trail[i])
      BY <2>2, <3>3, <3>5 DEF OnTree
    <3> QED BY <2>3, <3>1, <3>2, <3>4, <3>6 DEF OnTree
  <2>6. \A g \in net' : g.pkt = pkt => OnTree(g, T)
    BY <2>1, <2>4, <2>5 DEF OncePerNode
  <2>7. ASSUME NEW g \in net, g.pkt = pkt, g # f
        PROVE  /\ g.at \notin From(T, f.at) /\ f.at \notin From(T, g.at) /\ g.at \in Node
               /\ \A l \in outLinks(f) : l.to \notin From(T, g.at) /\ g.at \notin From(T, l.to)
    <3>1. g.at \notin From(T, f.at) /\ f.at \notin From(T, g.at) /\ g.at \in Node
      BY <2>1, <2>7 DEF OncePerNode, RouteInv, Inv, TypeOK, Frame
    <3>2. ASSUME NEW l \in outLinks(f) PROVE g.at \notin From(T, l.to)
      BY <2>3, <3>1, FromBehind
    <3>3. ASSUME NEW l \in outLinks(f), l.to \in From(T, g.at) PROVE FALSE
      <4>1. l.to # g.at
        BY <2>3, <3>1, <3>3
      <4>2. \E k \in T : k.to = l.to /\ k.from \in From(T, g.at)
        BY <3>1, <3>3, <4>1, FromLast
      <4>3. l.from \in From(T, g.at)
        BY <1>3, <1>10, <2>3, <4>2, TreeShape
      <4> QED BY <2>3, <3>1, <4>3
    <3> QED BY <3>1, <3>2, <3>3
  <2>8. ASSUME NEW g \in new, NEW h \in new, h.at \in From(T, g.at)
        PROVE  g = h
    <3>1. PICK l \in outLinks(f) : g.at = l.to /\ g = Forwarded(f, l)
      BY <1>4, <2>8
    <3>2. PICK k \in outLinks(f) : h.at = k.to /\ h = Forwarded(f, k)
      BY <1>4, <2>8
    <3>3. h.at \in From(T, k.to)
      BY <2>3, <3>2, FromSelf
    <3>4. l.from \in From(T, source[pkt]) /\ l \in T /\ k \in T /\ l.from = k.from
      BY <2>2, <2>3 DEF OnTree
    <3>5. l # k => From(T, l.to) \cap From(T, k.to) = {}
      BY <1>3, <1>10, <3>4, Branches, Zenon
    <3> QED BY <2>8, <3>1, <3>2, <3>3, <3>5
  <2>9. \A g, h \in net' : g.pkt = pkt /\ h.pkt = pkt /\ h.at \in From(T, g.at) => g = h
    <3> SUFFICES ASSUME NEW g \in net', NEW h \in net', g.pkt = pkt, h.pkt = pkt, h.at \in From(T, g.at)
                 PROVE  g = h
      OBVIOUS
    <3>1. CASE g \in net /\ g # f /\ h \in net /\ h # f
      BY <2>1, <3>1 DEF OncePerNode
    <3>2. CASE g \in new /\ h \in new
      BY <2>8, <3>2
    <3>3. CASE g \in new /\ h \in net /\ h # f
      <4> HIDE DEF new
      <4> QED BY <1>4, <2>7, <3>3
    <3>4. CASE g \in net /\ g # f /\ h \in new
      <4> HIDE DEF new
      <4> QED BY <1>4, <2>7, <3>4
    <3> QED BY <2>4, <3>1, <3>2, <3>3, <3>4
  <2>10. ASSUME NEW g \in net', NEW pair \in up', g.pkt = pkt, pair[2] = pkt
         PROVE  pair[1] \notin From(T, g.at)
    <3>1. CASE pair \in handed
      <4>1. pair[1] = f.at
        BY <1>6, <3>1
      <4> HIDE DEF new, handed
      <4> QED BY <1>4, <2>3, <2>4, <2>7, <2>10, <4>1
    <3>2. CASE pair \in up /\ g \in net
      BY <2>1, <2>10, <3>2 DEF OncePerNode
    <3>3. CASE pair \in up /\ g \in new
      <4>1. pair[1] \notin From(T, f.at)
        BY <2>1, <2>10, <3>3 DEF OncePerNode
      <4>2. From(T, g.at) \subseteq From(T, f.at)
        <5> HIDE DEF new
        <5> QED BY <1>4, <2>3, <3>3, FromBehind
      <4> QED BY <4>1, <4>2
    <3> HIDE DEF new, handed
    <3> QED BY <1>2, <2>4, <2>10, <3>1, <3>2, <3>3
  <2>11. f.at # s
    BY <1>3, <1>10, <2>2, TreeShape DEF OnTree
  <2>12. ASSUME NEW pair \in up', pair[2] = pkt PROVE pair[1] # s
    BY <1>2, <1>6, <2>1, <2>11, <2>12 DEF OncePerNode
  <2>13. ASSUME NEW pair \in twice' PROVE pair[2] # pkt
    <3>1. CASE pair \in twice
      BY <2>1, <3>1 DEF OncePerNode
    <3>2. CASE pair \in handed \cap up
      <4>1. pair[1] = f.at /\ pair[2] = pkt /\ pair \in up
        BY <1>6, <3>2
      <4>2. f.at \in From(T, f.at)
        BY <1>3, FromSelf
      <4> QED BY <2>1, <4>1, <4>2 DEF OncePerNode
    <3> QED BY <1>2, <3>1, <3>2
  <2> HIDE DEF new, handed
  <2> QED BY <2>6, <2>9, <2>10, <2>12, <2>13 DEF OncePerNode, OnTree
<1> HIDE DEF new, handed
<1>11. \A p \in Packet : \A T \in SUBSET Link : Tree(p, T) => OncePerNode(p, T)'
  BY <1>9, <1>10
<1> QED BY <1>1, <1>7, <1>8, <1>11, Zenon DEF RouteInv, Tree, Away, Reached, Named, Matched

\* Forwarder::push, whatever the network and the FIDs: what comes up at a node
\* is for a node the FID leads to and names, and a FID that describes a tree
\* takes a packet to no node twice, not even with both directions of its links
\* in it.
THEOREM Delivering == Spec => []RightlyDelivered
<1>1. RouteInv /\ [Next]_vars => RouteInv'
  <2> SUFFICES ASSUME RouteInv, [Next]_vars PROVE RouteInv'
    OBVIOUS
  <2>1. CASE \E pkt \in Packet : pushLocal(pkt)
    BY <2>1, PushLocalRoutes
  <2>2. CASE \E f \in net : pushNetwork(f)
    BY <2>2, PushNetworkRoutes
  <2>3. CASE UNCHANGED vars
    <3>1. net' = net /\ up' = up /\ twice' = twice /\ sent' = sent /\ conf' = conf /\ used' = used
      BY <2>3 DEF vars
    <3>2. Inv'
      BY <3>1 DEF RouteInv, Inv, TypeOK, FrameReadable, UsedOnce, Frame
    <3>3. \A p \in Packet : \A T \in SUBSET Link : Tree(p, T) => OncePerNode(p, T)'
      BY <3>1 DEF RouteInv, OncePerNode, OnTree
    <3> QED BY <3>1, <3>2, <3>3, Zenon DEF RouteInv, Tree, Away, Reached, Named, Matched
  <2> QED BY <2>1, <2>2, <2>3 DEF Next
<1>2. RouteInv => RightlyDelivered
  <2> SUFFICES ASSUME RouteInv PROVE RightlyDelivered
    OBVIOUS
  <2>1. \A pkt \in TreePackets : pkt \in Packet /\ \E T \in SUBSET Link : Tree(pkt, T)
    BY TreeShape DEF TreePackets
  <2>2. \A f \in net : f.pkt \in TreePackets => \E T \in SUBSET Link : OnTree(f, T)
    BY <2>1 DEF RouteInv, OncePerNode
  <2>3. NoReturn
    BY <2>2 DEF NoReturn, OnTree
  <2>4. AtMostOnce
    BY <2>1 DEF AtMostOnce, RouteInv, OncePerNode
  <2>5. OnlyMeant
    BY <2>1 DEF OnlyMeant, RouteInv, OncePerNode, Meant
  <2> QED BY <2>3, <2>4, <2>5 DEF RightlyDelivered
<1> QED
  BY RouteInit, <1>1, <1>2, PTL DEF Spec

=============================================================================
