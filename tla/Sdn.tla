-------------------------------- MODULE Sdn --------------------------------
(***************************************************************************)
(* Bootstrapping of an OpenFlow network.  The bundles of the OpenDaylight  *)
(* controller (sdn/) ask the resource manager beside the TM                *)
(* (apps/icn-sdn/) for a node identifier of every switch and a link        *)
(* identifier (LID) of every link, and give each switch a flow that        *)
(* forwards the packets whose FID has the LID of a port.  A new host is    *)
(* told the FID to the TM by the controller and asks the resource manager  *)
(* for its identifiers with that FID.                                      *)
(*                                                                         *)
(* The controller acts on the thread of the topology events, on the one of *)
(* the RPCs and on the one of the port events; the resource manager on the *)
(* thread of its TCP server and on the one of its Blackadder client.       *)
(* Neither side takes a lock.                                              *)
(***************************************************************************)
EXTENDS Naturals
LOCAL INSTANCE Sequences
LOCAL INSTANCE FiniteSets
LOCAL INSTANCE SequencesExt
LOCAL INSTANCE FiniteSetsExt
LOCAL INSTANCE Functions

CONSTANTS
    BITS,           \* bits of an identifier, 256
    SdnSwitch, SdnHost,
    TmHost, TmSwitch, \* where the TM is
    SdnEvents,      \* the sets of links that appear or go together: [src, dst, port],
                    \* port being src's
    SdnPorts,       \* the links whose port changes
    SdnQueries,     \* what nodeLinkInformation is asked for: pairs of nodes
    SdnScripts      \* what the network and the operator do, in order: sequences of kinds

ASSUME BitsAssumption == BITS \in Nat /\ BITS % 16 = 0

VARIABLES
    topo,           \* the links in the controller's store
    portDown,       \* ports the switches report as down
    graph,          \* NetworkGraphImpl: [edges, linkAdded]
    ids,            \* [assignedNodeIds, assignedLinkIds, connectors]: maps and registries
    switchFlow,     \* switch -> port -> match of the flow
    unconfiguredLinks, applicationActivated,
    ctl,            \* thread of the controller -> what it does
    monitor,        \* [on, status]: LinkStatusListener
    tcpServerUp, tcpQueue, \* the TCP server of the resource manager and its queue
    rm,             \* the resource manager
    rmThread,       \* thread of the resource manager -> its job
    icnRequests,    \* requests of hosts to TMResource
    linkMessages,   \* link status messages the TM heard
    overlapped,     \* two calls of Client.sendMessage were under way at once
    sdnScript       \* what is still to happen

sdnVars == <<topo, portDown, graph, ids, switchFlow, unconfiguredLinks,
             applicationActivated, ctl, monitor, tcpServerUp, tcpQueue, rm, rmThread,
             icnRequests, linkMessages, overlapped, sdnScript>>

SdnNode == SdnSwitch \cup SdnHost
NoLink == [src |-> "", dst |-> "", port |-> ""]
isHostLink(l) == l.src \in SdnHost    \* the id of such a link starts with "host"

(***************************************************************************)
(* Identifiers.  A LID is the position of its bit in a string of BITS      *)
(* characters; the address that matches it is a set of <<byte, bit>>.      *)
(***************************************************************************)
generateLid(pos) == [k \in 0..(BITS - 1) |-> k = pos]
reversed(s) == [k \in 0..(BITS - 1) |-> s[BITS - 1 - k]]
half(s, n) == [k \in 0..(BITS \div 2 - 1) |-> s[k + n * (BITS \div 2)]]

\* Eight characters make a byte, the first one its lowest bit
lidToIpv6(s) ==
    {b \in (0..(BITS \div 16 - 1)) \X (0..7) : s[b[1] * 8 + b[2]]}

\* The match of a flow: the two addresses, each with itself as its mask
createAddedFlow(srcAddress, dstAddress) ==
    [srcAddress |-> srcAddress, dstAddress |-> dstAddress]

\* The flow of a LID: the string reversed and cut in two
BadflowOf(pos) ==
    LET lid == generateLid(pos)
    IN  createAddedFlow(lidToIpv6(half(lid, 0)), lidToIpv6(half(lid, 1)))
flowOf(pos) ==
    LET lid == reversed(generateLid(pos))
    IN  createAddedFlow(lidToIpv6(half(lid, 0)), lidToIpv6(half(lid, 1)))

\* Flows are kept by switch and port
addFlowConfig(flows, edge_switch, edgeNodeConnector, flow) ==
    [flows EXCEPT ![edge_switch] = (edgeNodeConnector :> flow) @@ @]
deleteFlowConfig(flows, edge_switch, edgeNodeConnector) ==
    [flows EXCEPT ![edge_switch] = [p \in DOMAIN @ \ {edgeNodeConnector} |-> @[p]]]

\* The registries, each beside the map of the same content that
\* BootstrappingServiceImpl has; connectors have no such map
writeToNodeRegistry(i, name, nid) == [i EXCEPT !.nodes = (name :> nid) @@ @]
writeToLinkRegistry(i, link, lid) == [i EXCEPT !.links = (link :> lid) @@ @]
writeToNodeConnectorRegistry(i, port, link) == [i EXCEPT !.connectors = (port :> link) @@ @]
deleteFromLinkRegistry(i, link) ==
    [i EXCEPT !.links = [k \in DOMAIN @ \ {link} |-> @[k]]]
deleteFromNodeConnectorRegistry(i, port) ==
    [i EXCEPT !.connectors = [k \in DOMAIN @ \ {port} |-> @[k]]]

\* Bitvector(string) and its bytes in memory, which are sent as they are:
\* the last character is the lowest bit of the first byte
wireBits(pos) ==
    LET bit == BITS - 1 - pos IN
    {<<bit \div 8, bit % 8>>}

(***************************************************************************)
(* NetworkGraphImpl: one undirected edge for the two directions of a link, *)
(* the direction that was added first.                                     *)
(***************************************************************************)
ends(l) == {l.src, l.dst}

linkAlreadyAdded(g, l) == ends(l) \in g.linkAdded
linkAlreadyDeleted(g, l) == ends(l) \notin g.linkAdded

graphAddLink(g, l) ==
    IF linkAlreadyAdded(g, l) THEN g
    ELSE [edges |-> g.edges \cup {l}, linkAdded |-> g.linkAdded \cup {ends(l)}]

\* The edge of the other direction is not found and stays
graphRemoveLink(g, l) ==
    IF linkAlreadyDeleted(g, l) THEN g
    ELSE [edges |-> g.edges \ {l}, linkAdded |-> g.linkAdded \ {ends(l)}]

\* addLinks and removeLinks, for the links in the order of the list
graphAddLinks(links) == graph' = FoldSeq(LAMBDA l, g : graphAddLink(g, l), graph, links)
graphRemoveLinks(links) == graph' = FoldSeq(LAMBDA l, g : graphRemoveLink(g, l), graph, links)

\* The shortest walks from a to b along the pairs E, by length
ShortestWalks(E, a, b) ==
    LET N == Cardinality({e[1] : e \in E} \cup {e[2] : e \in E})
        walks[n \in 0..N] ==
            IF n = 0 THEN {<<a>>}
            ELSE UNION {{Append(w, e[2]) : e \in {x \in E : x[1] = Last(w)}} : w \in walks[n - 1]}
        found(n) == {w \in walks[n] : Last(w) = b}
        lens == {n \in 0..N : found(n) # {}}
    IN  IF lens = {} THEN {} ELSE found(Min(lens))

\* getShortestPath and sortShortestPathLinkList: the nodes along the path
getShortestPath(a, b) ==
    LET E == {<<l.src, l.dst>> : l \in graph.edges} \cup {<<l.dst, l.src>> : l \in graph.edges}
    IN  ShortestWalks(E, a, b)

\* The FID a host is told: the internal LID of the TM and the LIDs that the
\* links of the path have, those that have none being left out
BadcalculateTMFID(walk) ==
    {ids.links[<<walk[i], walk[i + 1]>>] :
        i \in {i \in 1..(Len(walk) - 1) : <<walk[i], walk[i + 1]>> \in DOMAIN ids.links}}
calculateTMFID(walk) ==
    {0} \cup {ids.links[<<walk[i], walk[i + 1]>>] :
        i \in {i \in 1..(Len(walk) - 1) : <<walk[i], walk[i + 1]>> \in DOMAIN ids.links}}

(***************************************************************************)
(* The resource manager's tables.  Node identifiers are numbers, 0 being   *)
(* none, also the label of a node that was not found.                      *)
(***************************************************************************)
generate_node_id_number == Min((1..(Cardinality(rm.nids) + 1)) \ rm.nids)
generate_link_id_bit_position == Min((0..Cardinality(rm.lids)) \ rm.lids)

linkIdOf(id) == IF id \in DOMAIN rm.linkIds THEN rm.linkIds[id] ELSE 0

\* A node is added under a new number and becomes the TM if that is 1
addNodeEntry(r, name, n) ==
    [r EXCEPT !.nids = @ \cup {n}, !.nodeIds = (name :> n) @@ @, !.nodes = Append(@, n)]

\* The connection, and the internal LID of the source, are recorded
addNodeConnector(r, src, dst, lid, ilid) ==
    [r EXCEPT !.lids = @ \cup {lid}, !.linkIds = (<<src, dst>> :> lid) @@ @,
              !.conns = @ \cup {[src |-> src, dst |-> dst, lid |-> lid]},
              !.nodeIlid = (src :> ilid) @@ @]

\* GraphRepresentation::calculateFID to the TM over the connections
FID_to_TM(n) ==
    LET walks == ShortestWalks({<<c.src, c.dst>> : c \in rm.conns}, n, 1)
        lid(a, b) == (CHOOSE c \in rm.conns : c.src = a /\ c.dst = b).lid
    IN  {{rm.nodeIlid[1]} \cup {lid(w[i], w[i + 1]) : i \in 1..(Len(w) - 1)} :
            w \in walks \cup (IF walks = {} THEN {<<1>>} ELSE {})}

\* The first node whose FID to the TM is the one received
get_attached_node(tmfid) ==
    LET found == {i \in DOMAIN rm.nodes : tmfid \in FID_to_TM(rm.nodes[i])}
    IN  IF found = {} THEN 0 ELSE rm.nodes[Min(found)]

\* The constructor: the internal LID of the TM is 0 and its link 1
ResourceManagerInit ==
    [nids |-> {1, 2}, nodeIds |-> (TmHost :> 1) @@ (TmSwitch :> 2) @@ [n \in SdnNode |-> 0],
     nodes |-> <<1, 2>>, lids |-> {0, 1}, linkIds |-> (<<1, 2>> :> 1),
     ilids |-> (1 :> 0), nodeIlid |-> (1 :> 0),
     conns |-> {[src |-> 1, dst |-> 2, lid |-> 1]}]

IdleJob == [step |-> "idle"]
IdleCtl == [todo |-> <<>>, call |-> NoLink, list |-> "", late |-> <<>>]

SdnInit ==
    /\ topo = {} /\ portDown = {}
    /\ graph = [edges |-> {}, linkAdded |-> {}]
    /\ ids = [nodes |-> <<>>, links |-> <<>>, connectors |-> <<>>]
    /\ switchFlow = [s \in SdnSwitch |-> <<>>]
    /\ unconfiguredLinks = {}
    /\ applicationActivated = FALSE
    /\ ctl = [t \in {"listener", "rpc"} |-> IdleCtl]
    /\ monitor = [on |-> FALSE, status |-> <<>>]
    /\ tcpServerUp = FALSE
    /\ tcpQueue = <<>>
    /\ rm = ResourceManagerInit
    /\ rmThread = [t \in {"server", "icn"} |-> IdleJob]
    /\ icnRequests = <<>>
    /\ linkMessages = {}
    /\ overlapped = FALSE
    /\ sdnScript \in SdnScripts

idle(t) == ctl[t] = IdleCtl
event(kind) == sdnScript # <<>> /\ Head(sdnScript) = kind /\ sdnScript' = Tail(sdnScript)
ctlVars == <<topo, portDown, graph, ids, switchFlow, unconfiguredLinks, applicationActivated, monitor>>
sdnRmVars == <<rm, rmThread, icnRequests>>

(***************************************************************************)
(* The controller.                                                         *)
(***************************************************************************)
\* server::main: the resource manager comes up
StartServer ==
    /\ ~tcpServerUp
    /\ tcpServerUp' = TRUE
    /\ UNCHANGED <<ctlVars, ctl, tcpQueue, sdnRmVars, linkMessages, overlapped, sdnScript>>

\* The RPC that names the TM: its node and its link get their identifiers
configureTm ==
    /\ event("configure") /\ idle("rpc")
    /\ ids' = writeToLinkRegistry(writeToNodeRegistry(ids, TmHost, 1), <<TmHost, TmSwitch>>, 1)
    /\ UNCHANGED <<topo, portDown, graph, switchFlow, unconfiguredLinks, applicationActivated,
                   monitor, ctl, tcpServerUp, tcpQueue, sdnRmVars, linkMessages, overlapped>>

\* TopologyListener.onDataChanged, created links: the graph has them at
\* once.  While the application is not activated they are kept for later:
\* the flag is read here and the list is extended in KeepLinks.
LinksCreated(links) ==
    LET new == SetToSeq(links \ topo) IN
    /\ event("created") /\ idle("listener")
    /\ new # <<>>
    /\ topo' = topo \cup links
    /\ graphAddLinks(new)
    /\ ctl' = [ctl EXCEPT !["listener"] =
                  IF applicationActivated THEN [@ EXCEPT !.todo = new, !.list = "event"]
                  ELSE [@ EXCEPT !.late = new]]
    /\ UNCHANGED <<portDown, ids, switchFlow, unconfiguredLinks, applicationActivated,
                   monitor, tcpServerUp, tcpQueue, sdnRmVars, linkMessages, overlapped>>

KeepLinks ==
    /\ ctl["listener"].late # <<>>
    /\ unconfiguredLinks' = unconfiguredLinks \cup Range(ctl["listener"].late)
    /\ ctl' = [ctl EXCEPT !["listener"] = IdleCtl]
    /\ UNCHANGED <<topo, portDown, graph, ids, switchFlow, applicationActivated, monitor,
                   tcpServerUp, tcpQueue, sdnRmVars, linkMessages, overlapped, sdnScript>>

\* removeLink: the identifier, the registry entries and the flow go
removeLink(l, a) ==
    IF <<l.src, l.dst>> \notin DOMAIN a.ids.links THEN a
    ELSE [ids |-> deleteFromNodeConnectorRegistry(
                      deleteFromLinkRegistry(a.ids, <<l.src, l.dst>>), l.port),
          flows |-> deleteFlowConfig(a.flows, l.src, l.port)]

\* removeLinks: links of hosts are passed over
removeLinks(links) ==
    FoldSeq(removeLink, [ids |-> ids, flows |-> switchFlow],
            SelectSeq(links, LAMBDA l : ~isHostLink(l)))

\* TopologyListener.onDataChanged, removed links
LinksRemoved(links) ==
    LET gone == SetToSeq(links \cap topo)
        after == removeLinks(gone) IN
    /\ event("removed") /\ idle("listener")
    /\ gone # <<>>
    /\ topo' = topo \ links
    /\ graphRemoveLinks(gone)
    /\ ids' = after.ids
    /\ switchFlow' = after.flows
    /\ UNCHANGED <<portDown, unconfiguredLinks, applicationActivated, monitor, ctl,
                   tcpServerUp, tcpQueue, sdnRmVars, linkMessages, overlapped>>

\* The RPC that starts or stops the application: on start, the links kept
\* are configured
activateApplication(status) ==
    /\ event(IF status THEN "activate" ELSE "deactivate") /\ idle("rpc")
    /\ applicationActivated' = status
    /\ ctl' = [ctl EXCEPT !["rpc"] =
                  IF status THEN [@ EXCEPT !.todo = SetToSeq(unconfiguredLinks),
                                           !.list = "unconfigured"]
                  ELSE @]
    /\ UNCHANGED <<topo, portDown, graph, ids, switchFlow, unconfiguredLinks, monitor,
                   tcpServerUp, tcpQueue, sdnRmVars, linkMessages, overlapped>>

calling(t) == ctl[t].call # NoLink

\* Client.sendMessage: a connection is made, or refused when no server runs.
\* The handler that gets the answer is static: a call that starts while
\* another is under way replaces it.
sendMessage(t, l) ==
    /\ tcpQueue' = Append(tcpQueue, l)
    /\ ctl' = [ctl EXCEPT ![t].call = l]
    /\ overlapped' = (overlapped \/ \E u \in DOMAIN ctl : u # t /\ calling(u))

\* The list the loop of addLinks goes over loses the link it has done
done(t, l) ==
    unconfiguredLinks' = IF ctl[t].list = "unconfigured" THEN unconfiguredLinks \ {l}
                         ELSE unconfiguredLinks
nextLink(t) == [ctl EXCEPT ![t] = IF Len(@.todo) = 1 THEN IdleCtl
                                  ELSE [@ EXCEPT !.todo = Tail(@), !.call = NoLink]]

\* addLinks and addLink, up to the request: links of hosts are passed over,
\* links that have an identifier are done, a refused call leaves the link
AddLinkThread(t) ==
    LET l == Head(ctl[t].todo)
        known == <<l.src, l.dst>> \in DOMAIN ids.links IN
    /\ ctl[t].todo # <<>> /\ ~calling(t)
    /\ \/ /\ ~isHostLink(l) /\ ~known /\ tcpServerUp
          /\ sendMessage(t, l)
          /\ UNCHANGED unconfiguredLinks
       \/ /\ isHostLink(l) \/ known \/ ~tcpServerUp
          /\ ctl' = nextLink(t)
          /\ IF ~isHostLink(l) /\ known THEN done(t, l) ELSE UNCHANGED unconfiguredLinks
          /\ UNCHANGED <<tcpQueue, overlapped>>
    /\ UNCHANGED <<topo, portDown, graph, ids, switchFlow, applicationActivated, monitor,
                   tcpServerUp, sdnRmVars, linkMessages, sdnScript>>

\* The rest of addLink, with the offer: maps, registries and the flow
\* (addFlowConfig, keyed by the port)
offered(l, offer, withFlow) ==
    LET named == writeToLinkRegistry(writeToNodeRegistry(ids, l.src, offer.nid),
                                     <<l.src, l.dst>>, offer.lid) IN
    /\ ids' = IF withFlow THEN writeToNodeConnectorRegistry(named, l.port, <<l.src, l.dst>>)
              ELSE named
    /\ switchFlow' = IF withFlow THEN addFlowConfig(switchFlow, l.src, l.port, flowOf(offer.lid))
                     ELSE switchFlow

\* The RPC that tells the identifiers of a link, and gets them when it has
\* none; no flow is made
nodeLinkInformation(q) ==
    /\ event("query") /\ idle("rpc")
    /\ ~(q[1] \in DOMAIN ids.nodes /\ q \in DOMAIN ids.links)
    /\ tcpServerUp
    /\ sendMessage("rpc", [src |-> q[1], dst |-> q[2], port |-> "query"])
    /\ UNCHANGED <<ctlVars, tcpServerUp, sdnRmVars, linkMessages>>

\* An offer arrives.  When calls overlapped, either caller may be the one
\* whose handler gets it.
Offer(t, offer) ==
    LET l == ctl[t].call IN
    /\ offered(l, offer, l.port # "query")
    /\ IF l.port = "query" THEN ctl' = [ctl EXCEPT ![t] = IdleCtl] /\ UNCHANGED unconfiguredLinks
       ELSE ctl' = nextLink(t) /\ done(t, l)

(***************************************************************************)
(* The resource manager.  A job allocates what it needs step by step:      *)
(* a number is looked up, and taken a step later.                          *)
(***************************************************************************)
\* server::start_accept: one connection at a time
Accept ==
    /\ tcpServerUp /\ tcpQueue # <<>> /\ rmThread["server"].step = "idle"
    /\ tcpQueue' = Tail(tcpQueue)
    /\ rmThread' = [rmThread EXCEPT !["server"] =
                       [step |-> "src", pick |-> 0, src |-> Head(tcpQueue).src,
                        dst |-> Head(tcpQueue).dst, dstId |-> 0, ilid |-> 0]]
    /\ UNCHANGED <<ctlVars, ctl, tcpServerUp, rm, icnRequests, linkMessages, overlapped, sdnScript>>

\* TMResource::init: the request of a host, with the FID it was told
ReceiveMessage ==
    /\ icnRequests # <<>> /\ rmThread["icn"].step = "idle"
    /\ icnRequests' = Tail(icnRequests)
    /\ rmThread' = [rmThread EXCEPT !["icn"] =
                       [step |-> "src", pick |-> 0, src |-> Head(icnRequests).host, dst |-> "",
                        dstId |-> get_attached_node(Head(icnRequests).tmfid), ilid |-> 0]]
    /\ UNCHANGED <<ctlVars, ctl, tcpServerUp, tcpQueue, rm, linkMessages, overlapped, sdnScript>>

srcId(j) == rm.nodeIds[j.src]
linkId(j) == <<srcId(j), j.dstId>>
restOf(j, step) == [j EXCEPT !.step = step, !.pick = 0]

\* generate_node_id: a node that has a number keeps it
generate_node_id(t, name, step) ==
    LET j == rmThread[t]
        nextJob(n) == [restOf(j, step) EXCEPT !.dstId = IF step = "link" THEN n ELSE @]
    IN
    \/ /\ rm.nodeIds[name] # 0 /\ j.pick = 0
       /\ rmThread' = [rmThread EXCEPT ![t] = nextJob(rm.nodeIds[name])]
       /\ UNCHANGED rm
    \/ /\ rm.nodeIds[name] = 0 /\ j.pick = 0
       /\ rmThread' = [rmThread EXCEPT ![t].pick = generate_node_id_number]
       /\ UNCHANGED rm
    \/ /\ j.pick # 0
       /\ rm' = addNodeEntry(rm, name, j.pick)
       /\ rmThread' = [rmThread EXCEPT ![t] = nextJob(j.pick)]

SourceId(t) ==
    LET j == rmThread[t] IN
    /\ j.step = "src"
    /\ generate_node_id(t, j.src, IF t = "server" THEN "dst" ELSE "ilid")

DestinationId ==
    LET j == rmThread["server"] IN
    /\ j.step = "dst"
    /\ generate_node_id("server", j.dst, "link")

\* generate_internal_link_id of a host; a number is kept
InternalLinkId ==
    LET j == rmThread["icn"]
        known == srcId(j) \in DOMAIN rm.ilids /\ rm.ilids[srcId(j)] # 0 IN
    /\ j.step = "ilid"
    /\ \/ /\ known
          /\ rmThread' = [rmThread EXCEPT !["icn"] =
                             [restOf(j, "link") EXCEPT !.ilid = rm.ilids[srcId(j)]]]
          /\ UNCHANGED rm
       \/ /\ ~known /\ j.pick = 0
          /\ rmThread' = [rmThread EXCEPT !["icn"].pick = generate_link_id_bit_position]
          /\ UNCHANGED rm
       \/ /\ ~known /\ j.pick # 0
          /\ rm' = [rm EXCEPT !.lids = @ \cup {j.pick}, !.ilids = (srcId(j) :> j.pick) @@ @]
          /\ rmThread' = [rmThread EXCEPT !["icn"] = [restOf(j, "link") EXCEPT !.ilid = j.pick]]

\* generate_link_id and the link part of generate_link_id_from_icn: the
\* number of a link is looked up, and taken in FinishLink
PickLink(t) ==
    LET j == rmThread[t] IN
    /\ j.step = "link" /\ j.pick = 0 /\ linkIdOf(linkId(j)) = 0
    /\ rmThread' = [rmThread EXCEPT ![t].pick = generate_link_id_bit_position]
    /\ UNCHANGED <<ctlVars, ctl, tcpServerUp, tcpQueue, rm, icnRequests, linkMessages, overlapped,
                   sdnScript>>

\* The internal LID recorded with a link: that of the TM for its own links,
\* that of the host, the LID itself for a switch
ilidOf(t, j, lid) ==
    IF t = "icn" THEN j.ilid ELSE IF srcId(j) = 1 THEN 0 ELSE lid

\* The job ends: the link is recorded unless it had a number, and the
\* answer goes to the controller
FinishLink(t) ==
    LET j == rmThread[t]
        had == linkIdOf(linkId(j))
        lid == IF j.pick # 0 THEN j.pick ELSE had IN
    /\ j.step = "link" /\ lid # 0
    /\ rm' = IF j.pick # 0 THEN addNodeConnector(rm, srcId(j), j.dstId, j.pick, ilidOf(t, j, j.pick))
             ELSE rm
    /\ rmThread' = [rmThread EXCEPT ![t] = IdleJob]
    /\ IF t = "icn" THEN UNCHANGED <<ctl, ids, switchFlow, unconfiguredLinks>>
       ELSE \E u \in DOMAIN ctl :
                /\ calling(u)
                /\ overlapped \/ (ctl[u].call.src = j.src /\ ctl[u].call.dst = j.dst)
                /\ Offer(u, [nid |-> srcId(j), lid |-> lid])
    /\ UNCHANGED <<topo, portDown, graph, applicationActivated, monitor, tcpServerUp, tcpQueue,
                   icnRequests, linkMessages, overlapped, sdnScript>>

NodeIds ==
    /\ (\E t \in DOMAIN rmThread : SourceId(t)) \/ DestinationId \/ InternalLinkId
    /\ UNCHANGED <<ctlVars, ctl, tcpServerUp, tcpQueue, icnRequests, linkMessages, overlapped, sdnScript>>

(***************************************************************************)
(* Hosts and ports.                                                        *)
(***************************************************************************)
\* ICNPacketListener.onPacketReceived: a host asks for a path to the TM; with
\* the answer it asks the resource manager (the host is external)
HostAsks(h) ==
    /\ event("host")
    /\ \E walk \in getShortestPath(h, TmHost) :
          icnRequests' = Append(icnRequests, [host |-> h, tmfid |-> calculateTMFID(walk)])
    /\ UNCHANGED <<ctlVars, ctl, tcpServerUp, tcpQueue, rm, rmThread, linkMessages, overlapped>>

\* MonitoringServiceImpl.init: link monitoring on or, once it was on, off
MonitorInit(enabled) ==
    /\ event(IF enabled THEN "monitor" ELSE "unmonitor")
    /\ enabled \/ monitor.on
    /\ monitor' = [monitor EXCEPT !.on = enabled]
    /\ UNCHANGED <<topo, portDown, graph, ids, switchFlow, unconfiguredLinks,
                   applicationActivated, ctl, tcpServerUp, tcpQueue, sdnRmVars, linkMessages, overlapped>>

\* TrafficMonitorTool.run: the counters of every registered port are sent
\* to the TM, which only prints them; the client is used like by the others
TrafficReport ==
    /\ event("traffic")
    /\ DOMAIN ids.connectors # {}
    /\ overlapped' = (overlapped \/ \E t \in DOMAIN ctl : calling(t))
    /\ UNCHANGED <<ctlVars, ctl, tcpServerUp, tcpQueue, sdnRmVars, linkMessages>>

\* LinkStatusListener.onDataChanged, a created port: its status is set
PortCreated(l) ==
    /\ event("seen")
    /\ monitor.on /\ l.port \notin DOMAIN monitor.status
    /\ monitor' = [monitor EXCEPT !.status = (l.port :> (l.port \in portDown)) @@ @]
    /\ UNCHANGED <<topo, portDown, graph, ids, switchFlow, unconfiguredLinks,
                   applicationActivated, ctl, tcpServerUp, tcpQueue, sdnRmVars, linkMessages, overlapped>>

\* LinkStatusListener.onDataChanged, an updated port: the first update only
\* sets the status; a change is told to the TM when the link and both nodes
\* have identifiers.  The message uses the client like the others.
PortChanges(l) ==
    LET down == l.port \notin portDown
        c == ids.connectors[l.port] IN
    /\ event("port")
    /\ l \in topo
    /\ portDown' = IF down THEN portDown \cup {l.port} ELSE portDown \ {l.port}
    /\ \/ /\ ~monitor.on \/ (l.port \in DOMAIN monitor.status /\ l.port \notin DOMAIN ids.connectors)
          /\ UNCHANGED <<monitor, linkMessages, overlapped>>
       \/ /\ monitor.on /\ l.port \notin DOMAIN monitor.status
          /\ monitor' = [monitor EXCEPT !.status = (l.port :> down) @@ @]
          /\ UNCHANGED <<linkMessages, overlapped>>
       \/ /\ monitor.on /\ l.port \in DOMAIN monitor.status /\ l.port \in DOMAIN ids.connectors
          /\ IF monitor.status[l.port] # down /\ Range(c) \subseteq DOMAIN ids.nodes
             THEN /\ monitor' = [monitor EXCEPT !.status[l.port] = down]
                  /\ linkMessages' = IF tcpServerUp
                                     THEN linkMessages \cup {[src |-> c[1], dst |-> c[2],
                                             nodeID1 |-> ids.nodes[c[1]], nodeID2 |-> ids.nodes[c[2]],
                                             type |-> IF down THEN "RMV" ELSE "ADD"]}
                                     ELSE linkMessages
                  /\ overlapped' = (overlapped \/ \E t \in DOMAIN ctl : calling(t))
             ELSE UNCHANGED <<monitor, linkMessages, overlapped>>
    /\ UNCHANGED <<topo, graph, ids, switchFlow, unconfiguredLinks, applicationActivated, ctl,
                   tcpServerUp, tcpQueue, sdnRmVars>>

SdnNext ==
    \/ StartServer \/ configureTm \/ KeepLinks \/ Accept \/ ReceiveMessage \/ NodeIds \/ TrafficReport
    \/ \E links \in SdnEvents : LinksCreated(links) \/ LinksRemoved(links)
    \/ \E b \in BOOLEAN : activateApplication(b) \/ MonitorInit(b)
    \/ \E t \in DOMAIN ctl : AddLinkThread(t)
    \/ \E q \in SdnQueries : nodeLinkInformation(q)
    \/ \E t \in DOMAIN rmThread : PickLink(t) \/ FinishLink(t)
    \/ \E h \in SdnHost \ {TmHost} : HostAsks(h)
    \/ \E l \in SdnPorts : PortCreated(l) \/ PortChanges(l)

SdnSpec == SdnInit /\ [][SdnNext]_sdnVars

(***************************************************************************)
(* Properties.                                                             *)
(***************************************************************************)
\* No two links share a LID, no two nodes a number, and no node is numbered
\* twice.  The server and the Blackadder client of the resource manager allocate
\* in two threads and without a lock, so this is not always so.
UniqueIdentifiers ==
    /\ \A c, d \in rm.conns : c.lid = d.lid => c = d
    /\ \A a, b \in SdnNode : rm.nodeIds[a] = rm.nodeIds[b] /\ rm.nodeIds[a] # 0 => a = b
    /\ Len(rm.nodes) = Cardinality({n \in SdnNode : rm.nodeIds[n] # 0})

\* What the controller says in identifiers is what the resource manager
\* means by them, whatever the order of discovery, activation, removal and
\* queries, as long as no two calls of the client overlapped and the
\* identifiers are unique: the flow of a port matches exactly the packets whose
\* FID has the LID recorded for a link out of that switch (IcnIdConfigurator.addLink, lidToIpv6,
\* ResourceManager::addNodeConnector), and a link status message names the
\* two nodes by their numbers (LinkStatusListener.onDataChanged).
IdentifiersAgree ==
    ~overlapped /\ UniqueIdentifiers =>
        /\ \A s \in SdnSwitch : \A p \in DOMAIN switchFlow[s] :
              \E c \in rm.conns :
                 LET bytes == wireBits(c.lid)
                     front == {b \in bytes : b[1] < BITS \div 16}
                     m == switchFlow[s][p] IN
                 /\ c.src = rm.nodeIds[s]
                 /\ p \in DOMAIN ids.connectors
                 /\ c.dst = rm.nodeIds[ids.connectors[p][2]]
                 /\ m.srcAddress = front
                 /\ m.dstAddress = {<<b[1] - BITS \div 16, b[2]>> : b \in bytes \ front}
        /\ \A m \in linkMessages :
              m.nodeID1 = rm.nodeIds[m.src] /\ m.nodeID2 = rm.nodeIds[m.dst]

\* The controller and the resource manager agree on where a host is: once
\* every link of the path from a host's switch to the TM has its LID, and
\* the identifiers are unique, the FID that the controller tells the host
\* (IcnIdConfigurator.calculateTMFID) leads the resource manager
\* (get_attached_node) to that switch.
AttachmentAgrees ==
    ~overlapped /\ UniqueIdentifiers =>
        \A h \in SdnHost \ {TmHost} : \A walk \in getShortestPath(h, TmHost) :
            (\A i \in 2..(Len(walk) - 1) : <<walk[i], walk[i + 1]>> \in DOMAIN ids.links) =>
                get_attached_node(calculateTMFID(walk)) = rm.nodeIds[walk[2]]

\* The controller (IcnIdConfigurator), the flows of the switches and the TM's
\* resource manager agree on the identifiers and on where a host is attached.
BootstrapAgrees == IdentifiersAgree /\ AttachmentAgrees
=============================================================================
