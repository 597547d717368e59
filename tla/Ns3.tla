-------------------------------- MODULE Ns3 --------------------------------
(***************************************************************************)
(* Blackadder in the ns-3 simulator (ns3/ns3.LatestVersion/): the service  *)
(* model that stands for the library (service-model.cc and                 *)
(* pub-sub-application.cc), the bridge between a node's devices and its    *)
(* Click instance (click-bridge.cc) and the topology manager               *)
(* (topology-manager.cc, tm_igraph.cc).  The simulator runs one event at a *)
(* time, so every action is a whole call.                                  *)
(*                                                                         *)
(* Nodes are numbers, in the order of their identifiers.  An identifier is *)
(* abstracted to its number of fragments.  Click is external: it answers a *)
(* process it has heard of until that process disconnects.                 *)
(***************************************************************************)
EXTENDS Naturals
LOCAL INSTANCE Sequences
LOCAL INSTANCE FiniteSets
LOCAL INSTANCE FiniteSetsExt

CONSTANTS
    SimApp,         \* applications of one node
    SimPid,         \* the numbers m_pid_generator draws
    SimCalls,       \* calls: [op, whole, id, prefix]; id and prefix are
                    \* numbers of fragments, whole when nothing is left over
    SimNode,        \* nodes, 1..n
    SimTM,          \* the node of the topology manager
    SimEdge,        \* edges of topology.graphml, pairs of nodes
    SimCable,       \* cables: pairs of [node, dev]
    SimRequests,    \* [type, publishers, subscribers] sent by the rendezvous
    MaxSim          \* bound on the calls and events

VARIABLES
    m_applications, \* pid -> application, as a set of pairs
    m_eventListeners, \* the applications with a listener
    clickPids,      \* the processes Click would send events to
    eventsHeard,    \* events delivered: [pid, app]
    responses,      \* the answers of the topology manager to the last request
    arrived,        \* the last frame: where it came in, and the cable's end
    simSteps

simVars == <<m_applications, m_eventListeners, clickPids, eventsHeard, responses, arrived, simSteps>>

SimTick == simSteps < MaxSim /\ simSteps' = simSteps + 1

(***************************************************************************)
(* The service model.                                                      *)
(***************************************************************************)
RegisterApplication(app) ==
    /\ app \notin m_eventListeners
    /\ m_eventListeners' = m_eventListeners \cup {app}
    /\ \E pid \in SimPid :
          /\ \A a \in m_applications : a.pid # pid
          /\ m_applications' = m_applications \cup {[pid |-> pid, app |-> app]}

StartApplication(app) ==
    /\ SimTick
    /\ RegisterApplication(app)
    /\ UNCHANGED <<clickPids, eventsHeard, responses, arrived>>

\* disconnect is handled by Click before the call returns
disconnect(pid) == clickPids \ {pid}

UnregisterApplication(a) ==
    /\ clickPids' = disconnect(a.pid)
    /\ m_eventListeners' = m_eventListeners \ {a.app}
    /\ m_applications' = m_applications \ {a}

StopApplication(a) ==
    /\ SimTick
    /\ UnregisterApplication(a)
    /\ UNCHANGED <<eventsHeard, responses, arrived>>

\* What each call accepts
publish_scope(c) == c.whole /\ c.id > 0
publish_info(c) == c.whole /\ c.prefix > 0
unpublish_scope(c) == c.whole /\ c.id = 1
unpublish_info(c) == c.whole /\ c.id = 1 /\ c.prefix > 0
subscribe_scope(c) == c.whole /\ c.id = 1
subscribe_info(c) == c.whole /\ c.id = 1 /\ c.prefix > 0
unsubscribe_scope(c) == c.whole /\ c.id = 1
unsubscribe_info(c) == c.whole /\ c.id = 1 /\ c.prefix > 0
publish_data(c) == c.whole

accepted(c) ==
    CASE c.op = "publish_scope" -> publish_scope(c)
      [] c.op = "publish_info" -> publish_info(c)
      [] c.op = "unpublish_scope" -> unpublish_scope(c)
      [] c.op = "unpublish_info" -> unpublish_info(c)
      [] c.op = "subscribe_scope" -> subscribe_scope(c)
      [] c.op = "subscribe_info" -> subscribe_info(c)
      [] c.op = "unsubscribe_scope" -> unsubscribe_scope(c)
      [] c.op = "unsubscribe_info" -> unsubscribe_info(c)
      [] c.op = "publish_data" -> publish_data(c)

\* The request goes to Click with the caller's pid
create_and_send_buffers(a) == clickPids' = clickPids \cup {a.pid}

SimCall(a, c) ==
    /\ SimTick
    /\ accepted(c)
    /\ create_and_send_buffers(a)
    /\ UNCHANGED <<m_applications, m_eventListeners, eventsHeard, responses, arrived>>

\* An event of Click, to the application of its pid.  Were there none, the
\* code would follow the end of the map.
ClickUpcall(pid) ==
    /\ SimTick
    /\ \E a \in m_applications :
          /\ a.pid = pid /\ a.app \in m_eventListeners
          /\ eventsHeard' = eventsHeard \cup {a}
    /\ UNCHANGED <<m_applications, m_eventListeners, clickPids, responses, arrived>>

(***************************************************************************)
(* The bridge: device k of a node is interface k + 1 of its Click, eth<k>. *)
(***************************************************************************)
INTERFACE_ID_FIRST == 1
GetInterfaceId(name) ==
    CASE name.kind = "tap" -> 0
      [] name.kind = "eth" -> name.number + INTERFACE_ID_FIRST

\* A frame from Click leaves on device ifid - 1
HandlePacketFromClick(node, ifid) == [node |-> node, dev |-> ifid - 1]

\* The device with the destination's address, and the interface of it
ReceivedAt(end) == [node |-> end.node, ifid |-> end.dev + 1]

SimFrame(cable, i) ==
    LET out == HandlePacketFromClick(cable[i].node,
                   GetInterfaceId([kind |-> "eth", number |-> cable[i].dev])) IN
    /\ SimTick
    /\ \E c \in SimCable, k \in 1..2 :
          /\ c[k] = out
          /\ arrived' = {[at |-> ReceivedAt(c[3 - k]), end |-> cable[3 - i]]}
    /\ UNCHANGED <<m_applications, m_eventListeners, clickPids, eventsHeard, responses>>

(***************************************************************************)
(* The topology manager.  A FID is a set of LIDs (edges) and iLIDs (nodes, *)
(* as <<n>>).                                                              *)
(***************************************************************************)
Walks == UNION {{w \in [1..k -> SimNode] : \A i \in 1..(k - 1) : <<w[i], w[i + 1]>> \in SimEdge} :
                   k \in 1..Cardinality(SimNode)}
WalksBetween == [s \in SimNode, d \in SimNode |-> {w \in Walks : w[1] = s /\ w[Len(w)] = d}]

\* igraph's shortest path, as its vertices; empty when there is none
ShortestPath == [s \in SimNode, d \in SimNode |->
    IF WalksBetween[s, d] = {} THEN <<>>
    ELSE CHOOSE w \in WalksBetween[s, d] : \A v \in WalksBetween[s, d] : Len(w) <= Len(v)]

\* calculateFID of one source and one destination: the FID, and the number of
\* vertices of the path, which is 0 when there is no path
FIDTo(s, d) == {<<ShortestPath[s, d][i], ShortestPath[s, d][i + 1]>> :
                   i \in 1..(Max({Len(ShortestPath[s, d]), 1}) - 1)} \cup {<<d>>}
numberOfHops(s, d) == Len(ShortestPath[s, d])

\* The first publisher with the fewest hops
BadbestPublisher(publishers, s) == Max({p \in publishers : \A q \in publishers :
                                           numberOfHops(p, s) >= numberOfHops(q, s)})
bestPublisher(publishers, s) == Min({p \in publishers : \A q \in publishers :
                                        numberOfHops(p, s) <= numberOfHops(q, s)})

\* calculateFID of many: the FID of each publisher, empty for NULL
calculateFIDs(publishers, subscribers) ==
    [p \in publishers |->
        UNION {FIDTo(p, s) : s \in {s \in subscribers : bestPublisher(publishers, s) = p}}]

\* calculateFID of this node and another
FIDToNode(d) == FIDTo(SimTM, d)

\* What handleRequest publishes; each answer goes over a FID from this node
handleRequest(r) ==
    IF r.type = "MATCH_PUB_SUBS"
    THEN LET fids == calculateFIDs(r.publishers, r.subscribers)
         IN  {[type |-> IF fids[p] = {} THEN "STOP_PUBLISH" ELSE "START_PUBLISH",
               to |-> p, over |-> FIDToNode(p), fid |-> fids[p]] : p \in r.publishers}
    ELSE {[type |-> r.type, to |-> s, over |-> FIDToNode(s), fid |-> {}] : s \in r.subscribers}

\* EventHandler: only PUBLISHED_DATA is handled
EventHandler(r) ==
    /\ SimTick
    /\ responses' = {[request |-> r, answers |-> handleRequest(r)]}
    /\ UNCHANGED <<m_applications, m_eventListeners, clickPids, eventsHeard, arrived>>

SimInit ==
    /\ m_applications = {} /\ m_eventListeners = {}
    /\ clickPids = {} /\ eventsHeard = {}
    /\ responses = {} /\ arrived = {}
    /\ simSteps = 0

SimNext ==
    \/ \E app \in SimApp : StartApplication(app)
    \/ \E a \in m_applications : StopApplication(a)
    \/ \E a \in m_applications, c \in SimCalls : SimCall(a, c)
    \/ \E pid \in clickPids : ClickUpcall(pid)
    \/ \E cable \in SimCable, i \in 1..2 : SimFrame(cable, i)
    \/ \E r \in SimRequests : EventHandler(r)

SimSpec == SimInit /\ [][SimNext]_simVars

(***************************************************************************)
(* Properties.                                                             *)
(***************************************************************************)
\* The nodes a packet with this FID reaches from s
Covered(s, fid) == {n \in SimNode : \E w \in WalksBetween[s, n] :
                       \A i \in 1..(Len(w) - 1) : <<w[i], w[i + 1]>> \in fid}
SimServed(s, fid) == {n \in Covered(s, fid) : <<n>> \in fid}

\* A simulated node is served like a real one: an event of Click always finds
\* the application of its process (ClickUpcall does not test the lookup), a
\* frame comes in on the interface of the cable's other end, and when every
\* publisher can reach every subscriber an answer of the topology manager
\* reaches the node it is for, each publisher is told to start or to stop,
\* and each subscriber is served by a publisher none is nearer than.
SimDelivers ==
    /\ \A pid \in clickPids : \E a \in m_applications :
          a.pid = pid /\ a.app \in m_eventListeners
    /\ \A f \in arrived : f.at = [node |-> f.end.node,
                                  ifid |-> GetInterfaceId([kind |-> "eth", number |-> f.end.dev])]
    /\ \A r \in responses :
          LET req == r.request
              reaching == \A p \in req.publishers, s \in req.subscribers :
                              WalksBetween[p, s] # {} IN
          /\ \A a \in r.answers : WalksBetween[SimTM, a.to] # {} => a.to \in SimServed(SimTM, a.over)
          /\ req.type = "MATCH_PUB_SUBS" /\ reaching =>
                /\ {a.to : a \in r.answers} = req.publishers
                /\ \A s \in req.subscribers : \E a \in r.answers :
                      /\ a.type = "START_PUBLISH" /\ s \in SimServed(a.to, a.fid)
                      /\ \A p \in req.publishers : numberOfHops(a.to, s) <= numberOfHops(p, s)

=============================================================================
