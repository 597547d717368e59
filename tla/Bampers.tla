------------------------------- MODULE Bampers -------------------------------
(***************************************************************************)
(* The monitoring agent (apps/monitoring/agent) and its library BAMPERS    *)
(* (lib/bampers).  The agent's main thread turns every report of MOLY into *)
(* data under a scope path and publishes it, or keeps it in a buffer until *)
(* the path has a subscriber; a second thread handles the events of        *)
(* Blackadder.  The two share the list of published paths and the buffer;  *)
(* publishedScopePath() takes no lock (it only releases one), so a check   *)
(* and what follows it are separate steps.                                 *)
(***************************************************************************)
EXTENDS Moly
LOCAL INSTANCE Naturals
LOCAL INSTANCE Sequences
LOCAL INSTANCE SequencesExt
LOCAL INSTANCE TLC

VARIABLES nsNode,      \* Namespace::_nodeId
          nsPaths,     \* _publishedScopePaths: is a subscriber available?
          nsBuffer,    \* _buffer
          mainPc,      \* the main thread, in prepareDataToBePublished()
          mainJob,     \* its scope path and data
          received,    \* reports received so far
          events,      \* events for the second thread
          evPc,        \* the second thread, in its handler of START_PUBLISH
          evJob,       \* what it holds
          advertised,  \* scopes and items the agent has published
          matched,     \* items for which the network told it to publish
          toServer     \* data on its way to the monitoring server

agentVars == <<nsNode, nsPaths, nsBuffer, mainPc, mainJob, received, events,
               evPc, evJob, advertised, matched, toServer>>

-----------------------------------------------------------------------------
(* Namespace::getScopePath(), in its three forms; the first is for the     *)
(* node the agent knows as its own.                                        *)

nodePath(own, role, item) == <<"MONITORING", "NODES", role, own, item>>

nodePathOf(role, node, item) == <<"MONITORING", "NODES", role, node, item>>

linkPath(link, dst, tech, item) ==
    <<"MONITORING", "LINKS", link, dst, tech, item>>

(* The data points: the path and the data of each.                         *)

LinkAdd(l) == [path |-> linkPath(l.link, l.dst, l.tech, "SOURCE_NODE_ID"),
               data |-> <<l.src>>]

NodeAdd(own, n) == [path |-> nodePath(own, n.role, "NAME"), data |-> <<n.name>>]

linkUpdate(l) == [path |-> linkPath(l.link, l.dst, l.tech, "STATE"),
                  data |-> <<l.state>>]

nodeUpdate(s) == [path |-> nodePathOf(s.role, s.node, s.state),
                  data |-> <<s.state>>]

cmcGroupSize(own, c) == [path |-> nodePath(own, "NAP", "CMC_GROUP_SIZE"),
                         data |-> <<c.size>>]

httpRequestsPerFqdn(own, h) == [path |-> nodePath(own, "NAP", "HTTP_REQUESTS"),
                                data |-> <<h.fqdn, h.requests>>]

networkLatencyPerFqdn(own, l) == [path |-> nodePath(own, "NAP", "LATENCY"),
                                  data |-> <<l.fqdn, l.latency>>]

BadownNode(m) == nsNode

\* The node the agent knows as its own, once message m is handled.
ownNode(m) == IF m.type = "ADD_NODE" /\ addNodeOf(m.data).node # 0
              THEN addNodeOf(m.data).node ELSE nsNode

\* The agent's switch over the type of a message.  Nothing is published of a
\* node or of a link's end without an identifier.
dataPoints(m) ==
    LET p   == m.data
        own == ownNode(m)
    IN CASE m.type = "ADD_LINK" ->
              LET l == addLinkOf(p) IN
              IF l.src = 0 \/ l.dst = 0 THEN {} ELSE {LinkAdd(l)}
         [] m.type = "ADD_NODE" ->
              IF addNodeOf(p).node = 0 THEN {} ELSE {NodeAdd(own, addNodeOf(p))}
         [] m.type = "ADD_NODE_TYPE" ->
              IF own = 0 THEN {} ELSE {NodeAdd(own, addNodeTypeOf(p))}
         [] m.type = "CMC_GROUP_SIZE" ->
              IF own = 0 THEN {} ELSE {cmcGroupSize(own, cmcGroupSizeOf(p))}
         [] m.type = "HTTP_REQUESTS" ->
              {httpRequestsPerFqdn(own, httpRequestsPerFqdnOf(p))}
         [] m.type = "LINK_STATE" -> {linkUpdate(linkStateOf(p))}
         [] m.type = "LATENCY" ->
              {networkLatencyPerFqdn(own, networkLatencyPerFqdnOf(p))}
         [] m.type = "NODE_STATE" -> {nodeUpdate(nodeStateOf(p))}

-----------------------------------------------------------------------------
AgentInit ==
    /\ nsNode = 0
    /\ nsPaths = <<>>
    /\ nsBuffer = <<>>
    /\ mainPc = "receive" /\ mainJob = <<>>
    /\ received = 0
    /\ events = <<>>
    /\ evPc = "wait" /\ evJob = <<>>
    /\ advertised = {}
    /\ matched = {}
    /\ toServer = <<>>

\* A missed forwarding identifier makes the local proxy drop the data.
publishData(job) ==
    toServer' = IF job.path \in matched THEN Append(toServer, job) ELSE toServer

\* Agent::receive() and the agent's switch.
Receive ==
    /\ mainPc = "receive" /\ reports # <<>>
    /\ LET m    == Head(reports)
           jobs == dataPoints(m)
       IN /\ received' = received + 1
          /\ nsNode' = ownNode(m)
          /\ IF jobs = {} THEN mainPc' = "receive" /\ mainJob' = <<>>
             ELSE \E j \in jobs :
                     /\ mainPc' = "prepare"
                     /\ mainJob' = [path |-> j.path, data |-> j.data,
                                    n |-> received + 1]
    /\ reports' = Tail(reports)

_addDataToBuffer(job) == nsBuffer' = (job.path :> job) @@ nsBuffer

\* prepareDataToBePublished(), first case: the path is not published yet.
PrepareNew ==
    /\ mainPc = "prepare" /\ mainJob.path \notin DOMAIN nsPaths
    /\ _addDataToBuffer(mainJob)
    /\ mainPc' = "path"
    /\ UNCHANGED <<nsPaths, mainJob, advertised, toServer>>

\* _publishScopePath(): the scopes above the item and the item.
_publishScopePath ==
    /\ mainPc = "path"
    /\ advertised' = advertised \union
                     {SubSeq(mainJob.path, 1, k) : k \in 1..Len(mainJob.path)}
    /\ mainPc' = "record"
    /\ UNCHANGED <<nsPaths, nsBuffer, mainJob, toServer>>

_addPublishedScopePath ==
    /\ mainPc = "record"
    /\ nsPaths' = nsPaths @@ (mainJob.path :> FALSE)
    /\ mainPc' = "receive" /\ mainJob' = <<>>
    /\ UNCHANGED <<nsBuffer, advertised, toServer>>

\* Second and third case: is a subscriber available?
subscriberAvailable ==
    /\ mainPc = "prepare" /\ mainJob.path \in DOMAIN nsPaths
    /\ mainPc' = IF nsPaths[mainJob.path] THEN "publish" ELSE "buffer"
    /\ UNCHANGED <<nsPaths, nsBuffer, mainJob, advertised, toServer>>

\* None: the data waits, and the item is published again.
PrepareWait ==
    /\ mainPc = "buffer"
    /\ _addDataToBuffer(mainJob)
    /\ advertised' = advertised \union {mainJob.path}
    /\ mainPc' = "receive" /\ mainJob' = <<>>
    /\ UNCHANGED <<nsPaths, toServer>>

PreparePublish ==
    /\ mainPc = "publish"
    /\ publishData(mainJob)
    /\ mainPc' = "receive" /\ mainJob' = <<>>
    /\ UNCHANGED <<nsPaths, nsBuffer, advertised>>

MainThread ==
    \/ /\ Receive
       /\ UNCHANGED <<nsPaths, nsBuffer, advertised, toServer, appPc, appSocket,
                      agentSocket, agentUp, applications, serverUp, nlh,
                      ownBuffer>>
    \/ /\ \/ PrepareNew \/ _publishScopePath \/ _addPublishedScopePath
          \/ subscriberAvailable \/ PrepareWait \/ PreparePublish
       /\ UNCHANGED <<nsNode, received>> /\ UNCHANGED molyVars

-----------------------------------------------------------------------------
(* The second thread, IcnEventHandler.                                     *)

\* setSubscriberAvailability(): nothing for a path that is not recorded.
setSubscriberAvailability(path, state) ==
    nsPaths' = IF path \in DOMAIN nsPaths
               THEN [nsPaths EXCEPT ![path] = state] ELSE nsPaths

StartPublishing ==
    /\ evPc = "wait" /\ events # <<>> /\ Head(events).type = "START_PUBLISH"
    /\ setSubscriberAvailability(Head(events).path, TRUE)
    /\ evPc' = "drain" /\ evJob' = Head(events)
    /\ events' = Tail(events)
    /\ UNCHANGED <<nsBuffer, toServer>> /\ UNCHANGED molyVars

\* getDataFromBuffer(): the data is taken out.
getDataFromBuffer ==
    /\ evPc = "drain"
    /\ IF evJob.path \in DOMAIN nsBuffer
       THEN /\ evJob' = nsBuffer[evJob.path] /\ evPc' = "publish"
            /\ nsBuffer' = [p \in DOMAIN nsBuffer \ {evJob.path} |-> nsBuffer[p]]
       ELSE evPc' = "wait" /\ evJob' = <<>> /\ nsBuffer' = nsBuffer
    /\ UNCHANGED <<nsPaths, events, toServer>> /\ UNCHANGED molyVars

PublishBuffered ==
    /\ evPc = "publish"
    /\ publishData(evJob)
    /\ evPc' = "wait" /\ evJob' = <<>>
    /\ UNCHANGED <<nsPaths, nsBuffer, events>> /\ UNCHANGED molyVars

StopPublishing ==
    /\ evPc = "wait" /\ events # <<>> /\ Head(events).type = "STOP_PUBLISH"
    /\ setSubscriberAvailability(Head(events).path, FALSE)
    /\ events' = Tail(events)
    /\ UNCHANGED <<nsBuffer, evPc, evJob, toServer>> /\ UNCHANGED molyVars

\* PUBLISHED_DATA: the server's trigger goes to the bootstrap thread.
Triggered ==
    /\ evPc = "wait" /\ events # <<>> /\ Head(events).type = "PUBLISHED_DATA"
    /\ passTrigger
    /\ events' = Tail(events)
    /\ UNCHANGED <<nsPaths, nsBuffer, evPc, evJob, toServer>>

EventThread ==
    /\ StartPublishing \/ getDataFromBuffer \/ PublishBuffered
       \/ StopPublishing \/ Triggered
    /\ UNCHANGED <<nsNode, mainPc, mainJob, received, advertised, matched>>

AgentNext ==
    \/ MainThread /\ UNCHANGED <<events, evPc, evJob, matched>>
    \/ EventThread
    \/ BootstrapNext /\ UNCHANGED agentVars
=============================================================================
