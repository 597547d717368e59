----------------------------- MODULE MCPlatform -----------------------------
(***************************************************************************)
(* The parts of the platform around the three core components, on small    *)
(* instances: the node's netlink elements and bit vectors, the TM's QoS,   *)
(* traffic engineering and resource manager, monitoring, deployment, the   *)
(* SDN bootstrapping and the ns-3 port.  Each behaviour runs one of them,  *)
(* the others stay as they are.                                            *)
(***************************************************************************)
EXTENDS Netlink, Bitvector, Qos, TrafficEngineering, ResourceManager, Monitoring,
        Deployment, Sdn, Ns3, TLC

VARIABLE part

mcVars == <<part, netlinkVars, bitvecVars, byteVars, qosVars, teVars, rsVars, monVars,
            depVars, sdnVars, simVars>>

\* Two packets of one process and one of another, and the other port.
MCMaxSent == [e \in {"api", "mgm"} |-> [p \in {"p", "q"} |->
    IF e = "api" THEN (IF p = "p" THEN 2 ELSE 1) ELSE (IF p = "p" THEN 1 ELSE 0)]]

\* Fields within a byte and across two, a wide one at and off a byte boundary.
write(b, num, offset, bits, wide) ==
    [b |-> b, num |-> num, offset |-> offset, bits |-> bits, wide |-> wide]
MCWrites == {write(5, 3, 0, bits, FALSE) : bits \in {0, 4, 6}}
            \cup {write(165, 8, 1, bits, FALSE) : bits \in {0, 3}}
            \cup {write(258, 16, 0, bits, TRUE) : bits \in {0, 3}}

\* QoS: two monitors, the first with two links.
MCLinksOf == <<<<"ab", "ac">>, <<"ba">>>>
MCLIDBits == ("ab" :> <<1, 0, 0, 0, 0, 0, 0, 0>> @@ "ac" :> <<0, 0, 1, 0, 0, 0, 0, 1>>
              @@ "ba" :> <<0, 0, 0, 0, 0, 1, 0, 0>>)
MCConfPrios == {("ab" :> 0 @@ "ac" :> 10 @@ "ba" :> 0), ("ab" :> 10 @@ "ac" :> 0 @@ "ba" :> 20)}

\* Traffic engineering: a ring of three nodes and a chord.
MCTeEdges == {<<"a", "b">>, <<"b", "c">>, <<"a", "c">>, <<"c", "a">>}
MCTeRequests == {[publishers |-> p, subscribers |-> <<"b", "c">>] : p \in {<<"a", "b">>, <<"a">>}}

\* Resource manager: a square of four nodes.
MCRsLinks == {{1, 2}, {1, 3}, {2, 4}, {3, 4}}
MCNative == <<[pubs |-> {1}, subs |-> {4}], [pubs |-> {1, 3}, subs |-> {2, 4}]>>
MCOverICN == (3 :> [pubs |-> {1}, subs |-> {3, 4}])

\* Monitoring: the TM reports a topology, or the NAP one kind of traffic.
vertex(name, id, rv, tm_, out) == [name |-> name, node |-> id, rv |-> rv, tm |-> tm_, out |-> out]
scenario(run, vertices, kinds, wants) ==
    [run |-> run, graph |-> vertices, traffic |-> kinds, files |-> wants]
HttpRequests == {<<"NAP", "HTTP_REQUESTS", 3, i>> : i \in 1..2}
MCScenarios ==
    {scenario({"tm"}, <<vertex("x", 1, FALSE, TRUE, <<[link |-> <<48, 49>>, dst |-> 2]>>)>>, {}, {}),
     scenario({"tm"}, <<vertex("x", 1, FALSE, FALSE, <<>>), vertex("y", 2, TRUE, FALSE, <<>>)>>, {}, {}),
     scenario({"nap"}, <<>>, {"requests"}, HttpRequests)}
    \cup {scenario({"nap"}, <<>>, {k}, {}) : k \in {"groups", "delays", "endpoints"}}

\* Deployment: a line of three nodes, a switch in each of its modes, two
\* zones; nodes that join and leave.
MCIsLabel(x) == x < 100
MCIsAddress(x) == x >= 100
MCADD == 50
MCDELETE == 51
conn(to, src_if, dst_if) == [to |-> to, src_if |-> src_if, src_pt |-> "", dst_if |-> dst_if, dst_pt |-> ""]
vm(label, role, mode, conns) ==
    [label |-> label, ip |-> 100 + label, role |-> role, mode |-> mode, os |-> "Linux",
     sdn |-> "bridges", conns |-> conns]
Line(mode) == <<vm(1, {"RV"}, mode, <<conn(2, "e0", "e0")>>),
                vm(2, {}, mode, <<conn(1, "e0", "e0"), conn(3, "e1", "e0")>>),
                vm(3, {"TM"}, mode, <<conn(2, "e0", "e1")>>)>>
Star(sdn) == <<vm(1, {"RV", "TM"}, "kernel", <<conn(4, "e0", "1")>>),
               vm(2, {}, "kernel", <<conn(4, "e0", "2")>>),
               vm(3, {}, "user", <<conn(4, "e0", "3")>>),
               [vm(4, {}, "user", <<conn(1, "1", "e0"), conn(2, "2", "e0"), conn(3, "3", "e0")>>)
                    EXCEPT !.os = "ovs", !.sdn = sdn]>>
Zones == <<<<vm(1, {"RV", "TM"}, "kernel", <<conn(2, "e0", "e0")>>),
             vm(2, {}, "kernel", <<conn(1, "e0", "e0")>>)>>,
           <<vm(2, {}, "kernel", <<conn(3, "e1", "e0")>>),
             vm(3, {}, "kernel", <<conn(2, "e0", "e1")>>)>>>>
MCNetworks == {<<Line("kernel")>>, <<Line("user")>>, <<Star("bridges")>>, <<Star("tables")>>, Zones}
joining(ip, conns, mode) == [vm(MCADD, {}, mode, conns) EXCEPT !.ip = ip]
leaving(ip) == [vm(MCDELETE, {}, "kernel", <<>>) EXCEPT !.ip = ip]
MCNodeRequests ==
    {joining(110, <<conn(101, "e0", "e2"), conn(103, "e1", "e2")>>, "kernel"),
     joining(111, <<conn(110, "e0", "e3")>>, "kernel"),
     joining(111, <<conn(199, "e0", "e0")>>, "kernel"),
     joining(112, <<conn(102, "e0", "e4")>>, "user")}
    \cup {leaving(ip) : ip \in {101, 102, 110}}

\* SDN: two switches, the TM's host at one and a host at the other.
both(a, b, p, q) == {[src |-> a, dst |-> b, port |-> p], [src |-> b, dst |-> a, port |-> q]}
AllLinks == both("s1", "tm", "s1:1", "tm") \cup both("s1", "s2", "s1:2", "s2:1")
            \cup both("s2", "h", "s2:2", "h")
MCSdnPorts == {[src |-> "s1", dst |-> "s2", port |-> "s1:2"]}
MCSdnEvents == {AllLinks, {[src |-> "s2", dst |-> "s1", port |-> "s2:1"]}}
MCSdnQueries == {<<"s1", "s2">>}
MCSdnScripts ==
    {<<"activate", "created", "host", "query">>,
     <<"created", "activate", "monitor", "port", "port", "traffic", "unmonitor">>,
     <<"configure", "created", "removed", "activate", "created">>,
     <<"created", "activate", "monitor", "seen", "port">>,
     <<"created", "activate", "deactivate", "created">>}

\* ns-3: a line of four nodes, with one more edge in the graph from its end.
SimOps == {"publish_scope", "publish_info", "unpublish_scope", "unpublish_info",
           "subscribe_scope", "subscribe_info", "unsubscribe_scope", "unsubscribe_info",
           "publish_data"}
MCSimCalls == [op : SimOps, whole : {TRUE}, id : {1}, prefix : {1}]
              \cup {[op |-> "publish_scope", whole |-> FALSE, id |-> 1, prefix |-> 0],
                    [op |-> "unpublish_info", whole |-> TRUE, id |-> 2, prefix |-> 1]}
MCSimCable == {<<[node |-> n, dev |-> IF n = 1 THEN 0 ELSE 1], [node |-> n + 1, dev |-> 0]>> : n \in 1..3}
MCSimEdge == {e \in (1..4) \X (1..4) : e[1] - e[2] \in {-1, 1}} \cup {<<4, 1>>}
MCSimRequests ==
    [type : {"MATCH_PUB_SUBS"}, publishers : {{1, 3}, {2, 4}, {1, 2, 4}},
     subscribers : {{2}, {1, 4}, {3, 4}, {1, 2, 3}}]
    \cup {[type |-> "SCOPE_PUBLISHED", publishers |-> {}, subscribers |-> {1, 4}]}

Some(S) == CHOOSE x \in S : TRUE

MCInit ==
    /\ part \in {"netlink", "bits", "bytes", "qos", "te", "rm", "monitoring", "deployment", "sdn", "ns3"}
    /\ NetlinkInit /\ (part # "netlink" => build = "kernel")
    /\ QosInit /\ (part # "qos" => confPrio = Some(MCConfPrios))
    /\ SdnInit /\ (part # "sdn" => sdnScript = Some(MCSdnScripts))
    /\ MonInit /\ (part # "monitoring" => traffic = {"groups"})
    /\ BitvecInit /\ ByteInit /\ TeInit /\ RsInit /\ DepInit /\ SimInit

MCNext ==
    \/ /\ part = "netlink" /\ NetlinkNext
       /\ UNCHANGED <<part, bitvecVars, byteVars, qosVars, teVars, rsVars, monVars,
                      depVars, sdnVars, simVars>>
    \/ /\ part = "bits" /\ BitvecNext
       /\ UNCHANGED <<part, netlinkVars, byteVars, qosVars, teVars, rsVars, monVars,
                      depVars, sdnVars, simVars>>
    \/ /\ part = "bytes" /\ ByteNext
       /\ UNCHANGED <<part, netlinkVars, bitvecVars, qosVars, teVars, rsVars, monVars,
                      depVars, sdnVars, simVars>>
    \/ /\ part = "qos" /\ QosNext
       /\ UNCHANGED <<part, netlinkVars, bitvecVars, byteVars, teVars, rsVars, monVars,
                      depVars, sdnVars, simVars>>
    \/ /\ part = "te" /\ TeNext
       /\ UNCHANGED <<part, netlinkVars, bitvecVars, byteVars, qosVars, rsVars, monVars,
                      depVars, sdnVars, simVars>>
    \/ /\ part = "rm" /\ RsNext
       /\ UNCHANGED <<part, netlinkVars, bitvecVars, byteVars, qosVars, teVars, monVars,
                      depVars, sdnVars, simVars>>
    \/ /\ part = "monitoring" /\ MonNext
       /\ UNCHANGED <<part, netlinkVars, bitvecVars, byteVars, qosVars, teVars, rsVars,
                      depVars, sdnVars, simVars>>
    \/ /\ part = "deployment" /\ DepNext
       /\ UNCHANGED <<part, netlinkVars, bitvecVars, byteVars, qosVars, teVars, rsVars,
                      monVars, sdnVars, simVars>>
    \/ /\ part = "sdn" /\ SdnNext
       /\ UNCHANGED <<part, netlinkVars, bitvecVars, byteVars, qosVars, teVars, rsVars,
                      monVars, depVars, simVars>>
    \/ /\ part = "ns3" /\ SimNext
       /\ UNCHANGED <<part, netlinkVars, bitvecVars, byteVars, qosVars, teVars, rsVars,
                      monVars, depVars, sdnVars>>

MCSpec == MCInit /\ [][MCNext]_mcVars
=============================================================================
