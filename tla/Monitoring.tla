------------------------------ MODULE Monitoring ------------------------------
(***************************************************************************)
(* Monitoring, end to end: the topology manager and the network attachment *)
(* point of one node report through its monitoring agent, over the ICN     *)
(* network, to the monitoring server.  The network is external: an item    *)
(* the agent has published and the server has subscribed to is matched,    *)
(* and data under a matched item arrives in the order it was published.    *)
(***************************************************************************)
EXTENDS Bampers, MonitoringServer
LOCAL INSTANCE Integers
LOCAL INSTANCE Sequences
LOCAL INSTANCE SequencesExt
LOCAL INSTANCE FiniteSetsExt
LOCAL INSTANCE Functions
LOCAL INSTANCE TLC

CONSTANTS Scenarios,   \* who runs on the node (run), the topology manager's
                       \* graph, what the NAP measures (traffic), and the
                       \* requests of the visualisation (files)
          NapNode,     \* the identifier of the node of the NAP
          Fqdn,        \* domain names requested through the NAP
          MaxRequests, \* bound on the requests, groups and delays measured
          MaxTurns     \* bound on the collector's rounds

VARIABLES todo,        \* calls an application still makes, in order
          told,        \* the calls made so far
          round,       \* the collector's step and round
          requests,    \* Statistics::_httpRequestsPerFqdn
          groups,      \* _cmcGroupSizes: number and sum
          rtts,        \* _rttPerFqdn
          endpoints,   \* _ipEndpoints: has it been reported?
          made,        \* requests the NAP has handled, by domain
          traffic,     \* what the NAP measures
          triggered    \* the server has published its trigger

monVars == <<molyVars, agentVars, serverVars, todo, told, round, requests,
             groups, rtts, endpoints, made, traffic, triggered>>

-----------------------------------------------------------------------------
(* TMIgraph::reportTopology().                                             *)

nodeCalls(v) ==
    <<[type |-> "ADD_NODE", name |-> v.name, node |-> v.node, role |-> "FN"]>>
    \o (IF v.rv THEN <<[type |-> "ADD_NODE_TYPE", name |-> v.name,
                        role |-> "RV"]>> ELSE <<>>)
    \o (IF v.tm THEN <<[type |-> "ADD_NODE_TYPE", name |-> v.name,
                        role |-> "TM"]>> ELSE <<>>)
    \o [k \in 1..Len(v.out) |->
          [type |-> "ADD_LINK", name |-> "link", link |-> v.out[k].link,
           src |-> v.node, dst |-> v.out[k].dst, tech |-> "802.3"]]

reportTopology(graph) ==
    FlattenSeq([k \in 1..Len(graph) |-> nodeCalls(graph[k])])

-----------------------------------------------------------------------------
(* monitoring::statistics::Statistics, filled by the NAP's threads.        *)

countRequest(f) ==
    /\ made[f] < MaxRequests
    /\ made' = [made EXCEPT ![f] = @ + 1]
    /\ requests' = (f :> (IF f \in DOMAIN requests THEN requests[f] + 1 ELSE 1))
                   @@ requests
    /\ UNCHANGED <<groups, rtts, endpoints>>

countGroup(size) ==
    /\ groups[1] < MaxRequests
    /\ groups' = <<groups[1] + 1, groups[2] + size>>
    /\ UNCHANGED <<requests, rtts, endpoints, made>>

roundTripTime(f, rtt) ==
    /\ f \in DOMAIN rtts => Len(rtts[f]) < MaxRequests
    /\ rtts' = (f :> (IF f \in DOMAIN rtts THEN <<rtt>> \o rtts[f] ELSE <<rtt>>))
               @@ rtts
    /\ UNCHANGED <<requests, groups, endpoints, made>>

ipEndpointAdd(ip) ==
    /\ ip \notin DOMAIN endpoints
    /\ endpoints' = endpoints @@ (ip :> FALSE)
    /\ UNCHANGED <<requests, groups, rtts, made>>

Measure ==
    /\ appPc["nap"] # "off"
    /\ \/ "requests" \in traffic /\ \E f \in Fqdn : countRequest(f)
       \/ "delays" \in traffic /\ \E f \in Fqdn : roundTripTime(f, 4)
       \/ "groups" \in traffic /\ countGroup(2)
       \/ "endpoints" \in traffic /\ ipEndpointAdd("ue")
    /\ UNCHANGED <<traffic, todo, told, round, triggered>>
    /\ UNCHANGED <<molyVars, agentVars, serverVars>>

-----------------------------------------------------------------------------
(* monitoring::collector::Collector::operator(): each turn takes what the  *)
(* statistics hold, one kind after the other, and reports it.              *)

callsOf(S, call(_)) == SetToSeq({call(x) : x \in S})

averageCmcGroupSize ==
    /\ round[1] = "groups"
    /\ todo' = [todo EXCEPT !["nap"] =
                  IF groups[1] # 0 /\ groups[2] \div groups[1] # 0
                  THEN <<[type |-> "CMC_GROUP_SIZE",
                          size |-> groups[2] \div groups[1]]>> ELSE <<>>]
    /\ groups' = <<0, 0>>
    /\ round' = <<"requests", round[2]>>
    /\ UNCHANGED <<requests, rtts, endpoints>>

BadtakeRequests ==
    /\ round[1] = "requests"
    /\ todo' = [todo EXCEPT !["nap"] =
                  callsOf(DOMAIN requests,
                          LAMBDA f : [type |-> "HTTP_REQUESTS", fqdn |-> f,
                                      requests |-> requests[f]])]
    /\ requests' = requests
    /\ round' = <<"latency", round[2]>>
    /\ UNCHANGED <<groups, rtts, endpoints>>

\* Statistics::httpRequestsPerFqdn(): the counters are copied and cleared.
takeRequests ==
    /\ round[1] = "requests"
    /\ todo' = [todo EXCEPT !["nap"] =
                  callsOf(DOMAIN requests,
                          LAMBDA f : [type |-> "HTTP_REQUESTS", fqdn |-> f,
                                      requests |-> requests[f]])]
    /\ requests' = <<>>
    /\ round' = <<"latency", round[2]>>
    /\ UNCHANGED <<groups, rtts, endpoints>>

\* Half of the average round trip, in whole milliseconds.
latency(list) == (FoldLeft(+, 0, list) \div Len(list)) \div 2

averageNetworkDelayPerFqdn ==
    LET timed == {f \in DOMAIN rtts : FoldLeft(+, 0, rtts[f]) # 0} IN
    /\ round[1] = "latency"
    /\ todo' = [todo EXCEPT !["nap"] =
                  callsOf({f \in timed : latency(rtts[f]) # 0},
                          LAMBDA f : [type |-> "LATENCY", fqdn |-> f,
                                      latency |-> latency(rtts[f])])]
    /\ rtts' = [f \in DOMAIN rtts |-> IF f \in timed THEN <<>> ELSE rtts[f]]
    /\ round' = <<"endpoints", round[2]>>
    /\ UNCHANGED <<requests, groups, endpoints>>

\* Statistics::ipEndpoints() marks an end point before it is reported.
ipEndpoints ==
    /\ round[1] = "endpoints"
    /\ todo' = [todo EXCEPT !["nap"] =
                  callsOf({ip \in DOMAIN endpoints : ~endpoints[ip]},
                          LAMBDA ip : [type |-> "ADD_NODE_TYPE", name |-> ip,
                                       role |-> "UE"])]
    /\ endpoints' = [ip \in DOMAIN endpoints |-> TRUE]
    /\ round' = <<"groups", round[2] + 1>>
    /\ UNCHANGED <<requests, groups, rtts>>

Collect ==
    /\ appPc["nap"] = "report" /\ todo["nap"] = <<>> /\ round[2] < MaxTurns
    /\ averageCmcGroupSize \/ takeRequests \/ averageNetworkDelayPerFqdn
       \/ ipEndpoints
    /\ UNCHANGED <<told, made, traffic, triggered>>
    /\ UNCHANGED <<molyVars, agentVars, serverVars>>

-----------------------------------------------------------------------------
MonInit ==
    /\ AgentInit
    /\ \E s \in Scenarios :
          /\ MolyInit(s.run) /\ ServerInit(s.files)
          /\ traffic = s.traffic
          /\ todo = [a \in App |->
                       IF a = "tm" THEN reportTopology(s.graph)
                       ELSE <<[type |-> "ADD_NODE", name |-> "NAP",
                               node |-> NapNode, role |-> "NAP"]>>]
    /\ told = <<>>
    /\ round = <<"groups", 0>>
    /\ requests = <<>> /\ groups = <<0, 0>> /\ rtts = <<>> /\ endpoints = <<>>
    /\ made = [f \in Fqdn |-> 0]
    /\ triggered = FALSE

statVars == <<round, requests, groups, rtts, endpoints, made, traffic>>

Call(a) ==
    /\ todo[a] # <<>>
    /\ sendReport(a, Head(todo[a]))
    /\ told' = Append(told, [app |-> a, call |-> Head(todo[a])])
    /\ todo' = [todo EXCEPT ![a] = Tail(@)]
    /\ UNCHANGED <<agentVars, serverVars, statVars, triggered>>

\* The server's START_PUBLISH for the management item: it publishes that it
\* is up, and the agent, once it has subscribed, receives it.
PublishTrigger ==
    /\ ~triggered /\ agentUp
    /\ triggered' = TRUE
    /\ events' = Append(events, [type |-> "PUBLISHED_DATA", path |-> <<>>])
    /\ UNCHANGED <<nsNode, nsPaths, nsBuffer, mainPc, mainJob, received, evPc,
                   evJob, advertised, matched, toServer, todo, told>>
    /\ UNCHANGED <<molyVars, serverVars, statVars>>

isItem(p) == Len(p) = (IF p[2] = "LINKS" THEN 6 ELSE 5)

\* The rendezvous and the topology manager of the network (external).
Matching ==
    /\ \E p \in advertised :
         /\ Len(p) > 1 /\ isItem(p)
         /\ (p \in matched) # wanted(p)
         /\ matched' = IF p \in matched THEN matched \ {p} ELSE matched \union {p}
         /\ events' = Append(events, [path |-> p,
                        type |-> IF p \in matched THEN "STOP_PUBLISH"
                                 ELSE "START_PUBLISH"])
    /\ UNCHANGED <<nsNode, nsPaths, nsBuffer, mainPc, mainJob, received, evPc,
                   evJob, advertised, toServer, todo, told, triggered>>
    /\ UNCHANGED <<molyVars, serverVars, statVars>>

Arrive ==
    /\ toServer # <<>>
    /\ Write(Head(toServer))
    /\ toServer' = Tail(toServer)
    /\ UNCHANGED <<nsNode, nsPaths, nsBuffer, mainPc, mainJob, received, events,
                   evPc, evJob, advertised, matched, todo, told, triggered>>
    /\ UNCHANGED <<molyVars, statVars>>

ServerStep ==
    /\ \/ \E id \in advertised \union ownScopes :
            Len(id) > 1 /\ ~isItem(id) /\ ScopePublished(id)
       \/ \E f \in files : CheckFile(f)
       \/ Store
    /\ UNCHANGED <<molyVars, agentVars, statVars, todo, told, triggered>>

MonNext ==
    \/ AgentNext /\ UNCHANGED <<serverVars, statVars, todo, told, triggered>>
    \/ Measure \/ Collect
    \/ \E a \in App : Call(a)
    \/ PublishTrigger \/ Matching \/ Arrive \/ ServerStep

-----------------------------------------------------------------------------
(* The node a call is about: for one that names none, the node its         *)
(* application has announced last.                                         *)
subject(n) ==
    LET before == {k \in 1..n : told[k].app = told[n].app
                                /\ told[k].call.type = "ADD_NODE"}
    IN told[Max(before)].call.node

(* Every row of the tables links and nodes_values is a report some         *)
(* application made (told), with the fields it had there and for the node  *)
(* the application reported for, and no report is stored twice: the way is *)
(* through the primitives of MOLY, the scope paths and the buffer of the   *)
(* agent, which two threads share, and _send() of the server.  Requests    *)
(* are not counted twice either.                                           *)
RowsReported ==
    /\ \A k \in 1..Len(links) :
         LET c == told[links[k].n].call IN
         /\ c.type = "ADD_LINK"
         /\ links[k] = [link |-> hashLinkId(c.link), src |-> c.src,
                        dst |-> c.dst, tech |-> c.tech, n |-> links[k].n]
    /\ \A k \in 1..Len(values) :
         LET c == told[values[k].n].call IN
         /\ values[k].attribute = c.type
         /\ values[k].node = subject(values[k].n)
         /\ values[k].value = CASE c.type = "CMC_GROUP_SIZE" -> c.size
                                [] c.type = "HTTP_REQUESTS"  -> c.requests
                                [] c.type = "LATENCY"        -> c.latency
    /\ IsInjective([k \in 1..Len(links) |-> links[k].n])
    /\ IsInjective([k \in 1..Len(values) |-> values[k].n])
    /\ FoldLeft(LAMBDA s, r : IF r.attribute = "HTTP_REQUESTS"
                              THEN s + r.value ELSE s, 0, values)
         <= FoldFunction(+, 0, made)

(* The table of nodes shows no role nobody reported for the node, except   *)
(* the role of a forwarding node, which _send() supplies, and except after *)
(* a report for FN+TM+RV, whose new type _send() leaves uninitialised.     *)
RolesReported ==
    \A r \in nodes :
       \/ \A role \in r.element \ {"FN"} :
             \E n \in 1..Len(told) : /\ "role" \in DOMAIN told[n].call
                                     /\ told[n].call.role = role
                                     /\ subject(n) = r.id
       \/ {"TM", "RV"} \subseteq
            {told[n].call.role : n \in {m \in 1..Len(told) :
                  "role" \in DOMAIN told[m].call /\ subject(m) = r.id}}

\* The monitoring database holds what the applications have reported, under
\* the roles they reported (mysqlconnector, Bampers' node).
DatabaseTrue == RowsReported /\ RolesReported
=============================================================================
