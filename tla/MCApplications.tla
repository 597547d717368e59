--------------------------- MODULE MCApplications ---------------------------
(***************************************************************************)
(* What runs above the API of a node, on small instances: the handlers of  *)
(* the NAP and its setup, the CoAP and access control applications, the    *)
(* C++ library and its Java binding.  Each behaviour runs one of them,     *)
(* the others stay as they are.                                            *)
(***************************************************************************)
EXTENDS NapHttp, NapSetup, Coap, AccessControl, JavaBinding, Library

VARIABLE part

mcVars == <<part, httpVars, ipVars, setupVars, coapVars, acVars, javaVars, libVars>>

\* Environments of the HTTP handler.
asks(n, rs) == [nap |-> n, asks |-> rs]
env(c1, c2, events) == [conn |-> <<c1, c2>>, events |-> events]

MCScripts == {
    \* two NAPs ask for one resource while the FQDN stops and the cleaner runs
    env(asks(1, <<1>>), asks(2, <<1>>), {"stop", "clean", "close"}),
    \* two resources for one NAP; clients leave and numbers are given again
    env(asks(1, <<1>>), asks(1, <<2>>), {"leave"}),
    \* one resource for two clients of one NAP
    env(asks(1, <<1>>), asks(1, <<1>>), {"leave"}),
    \* a connection with two requests, a server that refuses or closes
    env(asks(1, <<1, 2>>), asks(2, <<1>>), {"close", "refuse"})}

\* Three-bit addresses: bit 2 is the first of the network part.  The numbers
\* order the bits as a little-endian reading of two octets would.
MCBit == 0..2
MCMask == {{}, {2}, {1, 2}, {0, 1, 2}}
MCUint(a) == (IF 2 \in a THEN 2 ELSE 0) + (IF 1 \in a THEN 1 ELSE 0) + (IF 0 \in a THEN 4 ELSE 0)

net(address, mask) == [address |-> address, mask |-> mask]
Tables == [1..2 -> [address : SUBSET MCBit, mask : MCMask]]
Flow == <<net({2}, {2}), net({1, 2}, {1, 2})>>
MCConfigs == Tables \cup {Flow}

\* One packet of two fragments, one of three, one that fills two exactly, one
\* that needs no fragments.
MCPacket == 1..4
MCDst == <<{2}, {2}, {1, 2}, {2}>>
MCSize == <<3, 5, 4, 1>>

\* Three NAPs that know each other's networks, or only the gateway's; a file
\* without a valid node ID, a host-based NAP and a gateway without a network.
NetA == net({2}, {1, 2})
NetB == net({1, 2}, {1, 2})
NetG == net({}, {})
file(network, gw, prefixes) ==
    [interface |-> TRUE, network |-> {network}, nodeId |-> {7}, dropRate |-> {},
     gw |-> gw, endpoint |-> {}, prefixes |-> prefixes, http |-> TRUE,
     surrogacy |-> FALSE, fqdns |-> {}]
Gateway == {net({2}, {2})}
MCDeployments == {
    <<file(NetA, {}, <<NetA, NetB, NetG>>),
      [file(NetB, {}, <<NetA, NetB, NetG>>) EXCEPT !.surrogacy = TRUE],
      [file(NetG, Gateway, <<NetA, NetB>>) EXCEPT !.http = FALSE]>>,
    <<file(NetA, {}, <<NetG>>),
      [file(NetB, {}, <<NetG>>) EXCEPT !.surrogacy = TRUE, !.fqdns = {40}],
      file(NetG, Gateway, <<NetA, NetB, NetG>>)>>,
    <<[file(NetA, {}, <<NetB, NetG>>) EXCEPT !.endpoint = {{2}}, !.http = FALSE],
      [file(NetA, {}, <<>>) EXCEPT !.nodeId = {100000000}],
      file(NetG, {}, <<NetA, NetB, NetG>>)>>}
MCCaptured == [dst : {{2}, {0, 1, 2}, {0}}, web : {FALSE}] \cup {[dst |-> {1, 2}, web |-> TRUE]}
MCSurrogateOf == {[nap |-> 2, fqdn |-> 40, activate |-> b] : b \in BOOLEAN}
MCWebOf == {[nap |-> 1, fqdn |-> 40]}

\* CoAP requests of two clients: option lengths around the values 13 and 14 at
\* which an extended byte begins, URIs with and without port and query.
fill(c, n) == [i \in 1..n |-> c]
uri(host, port, path, query) ==
    <<99, 58, 47, 47>> \o fill(104, host) \o port \o <<47>> \o fill(112, path) \o query
coap(from, token, opts, payload) ==
    [from |-> from, token |-> token, mid |-> 258, options |-> opts, payload |-> payload]
proxied(u) == <<[number |-> 35, value |-> u]>>
path(n) == <<[number |-> 11, value |-> fill(112, n)]>>
MCCoapRequests == {
    coap("a", <<1>>, proxied(uri(12, <<>>, 13, <<63, 113>>)), <<>>),
    coap("a", <<1>>, proxied(uri(13, <<58, 53, 54, 56, 51>>, 14, <<63>> \o fill(113, 13))), <<>>),
    coap("b", <<2, 3>>, proxied(uri(1, <<>>, 1, <<>>)), <<7>>),
    coap("b", <<>>, path(2), <<>>),
    coap("b", <<1>>, path(2) \o proxied(uri(2, <<>>, 3, <<63>> \o fill(113, 4))), <<9, 9>>),
    coap("a", <<4>>, path(13) \o proxied(uri(2, <<>>, 3, <<63>> \o fill(113, 4))), <<>>)}

\* One publisher, a subscriber with the right password and one without.
MCAcPassword == [e \in {"p", "s", "u"} |-> IF e = "u" THEN "no" ELSE "yes"]

\* Each call of the Java client, complete or with one part left out.
JavaCalls == [op : {"publishScope", "republishScope", "publishItem", "republishItem",
                    "unpublishScope", "unpublishItem", "subscribeScope", "subscribeItem",
                    "unsubscribeScope", "unsubscribeItem", "publishData", "publishDirect"},
              scope : {Null, <<"s", "t">>}, prefix : {Null, <<"p">>}, rid : {Null, <<"r">>},
              strategy : {2}, options : {<<"o">>}, data : {<<>>, <<"x", "y">>}]
MCJavaPlans == {<<c>> : c \in {d \in JavaCalls :
    /\ (d.data # <<>>) <=> (d.op \in {"publishData", "publishDirect"})
    /\ Cardinality({f \in {"scope", "prefix", "rid"} : d[f] = Null}) <= 1}}
MCJavaEvents == <<[type |-> 104, id |-> <<"a", "b">>, data |-> <<"1", "2">>],
                  [type |-> 109, id |-> <<"a", "b">>, data |-> <<"3">>]>>

\* Calls of two threads: with and without options, a list of nodes, an iSub, a
\* call the library does not accept.
call(api, type, id, prefix, str_opt) ==
    [api |-> api, type |-> type, id |-> id, prefix |-> prefix, strategy |-> 2,
     str_opt |-> str_opt, nodeIds |-> <<>>, isubID |-> <<>>, data |-> <<>>]
Item == <<1, 2>>
PublishInfo == call("publish_info", 1, Item, <<1>>, <<>>)
SubscribeScope == [call("subscribe_scope", 4, <<1>>, <<>>, <<77>>) EXCEPT !.strategy = 3]
UnpublishInfo == call("unpublish_info", 3, Item, <<1>>, <<>>)
PublishData == [call("publish_data", 8, Item, <<>>, <<77>>) EXCEPT !.strategy = 3, !.data = <<99>>]
PublishList == [call("publish_data_list", 111, <<1>>, <<>>, <<>>) EXCEPT
                    !.nodeIds = <<4, 5>>, !.data = <<99>>]
PublishISub == [call("publish_data_isub", 9, Item, <<>>, <<>>) EXCEPT
                    !.isubID = <<3>>, !.data = <<99>>]
event(type, id, nodeId, isubID, bytes) ==
    [type |-> type, id |-> id, nodeId |-> nodeId, isubID |-> isubID, data |-> bytes]
libPlan(first, events) ==
    [calls |-> [c \in {"a", "worker"} |-> IF c = "a" THEN first ELSE <<PublishData>>],
     events |-> events]
MCPlans == {
    libPlan(<<PublishInfo, SubscribeScope>>,
            <<event(100, Item, <<>>, <<>>, <<>>), event(104, Item, <<>>, <<>>, <<99>>)>>),
    libPlan(<<UnpublishInfo, PublishISub>>, <<event(109, <<1>>, <<5>>, <<1, 3>>, <<99>>)>>),
    libPlan(<<PublishList, PublishInfo>>, <<event(104, Item, <<>>, <<>>, <<99>>)>>)}
LibKinds == [kind : {"Blackadder", "NB_Blackadder"}, socket : {"netlink", "unix"}]
Some(S) == CHOOSE x \in S : TRUE

MCInit ==
    /\ part \in {"http", "ip", "prefixes", "setup", "coap", "access", "java", "library"}
    /\ HttpInit /\ (part # "http" => script = Some(MCScripts))
    /\ IpInit /\ (part # "prefixes" => configured = Flow)
    /\ SetupInit /\ (part # "setup" => files = Some(MCDeployments))
    /\ JavaInit /\ (part # "java" => javaPlan = Some(MCJavaPlans))
    /\ LibInit(LibKinds) /\ (part # "library" => lib = Some(LibKinds) /\ plan = Some(MCPlans))
    /\ CoapInit
    /\ AcInit

MCNext ==
    \/ /\ part = "http" /\ HttpNext
       /\ UNCHANGED <<part, ipVars, setupVars, coapVars, acVars, javaVars, libVars>>
    \/ /\ part = "ip" /\ IpNext
       /\ UNCHANGED <<part, httpVars, setupVars, coapVars, acVars, javaVars, libVars>>
    \/ /\ part = "prefixes" /\ ParsePrefix
       /\ UNCHANGED <<part, httpVars, setupVars, coapVars, acVars, javaVars, libVars>>
    \/ /\ part = "setup" /\ SetupNext
       /\ UNCHANGED <<part, httpVars, ipVars, coapVars, acVars, javaVars, libVars>>
    \/ /\ part = "coap" /\ CoapNext
       /\ UNCHANGED <<part, httpVars, ipVars, setupVars, acVars, javaVars, libVars>>
    \/ /\ part = "access" /\ AcNext
       /\ UNCHANGED <<part, httpVars, ipVars, setupVars, coapVars, javaVars, libVars>>
    \/ /\ part = "java" /\ JavaNext
       /\ UNCHANGED <<part, httpVars, ipVars, setupVars, coapVars, acVars, libVars>>
    \/ /\ part = "library" /\ LibNext
       /\ UNCHANGED <<part, httpVars, ipVars, setupVars, coapVars, acVars, javaVars>>

MCSpec == MCInit /\ [][MCNext]_mcVars
=============================================================================
