------------------------------- MODULE MCLtp -------------------------------
(***************************************************************************)
(* Model checking of LTP: the publication of responses (LtpResponse), the  *)
(* publication of requests (LtpRequest), whose variables have the prefix   *)
(* q, and the scan for missing fragments (LtpScan).  A behaviour is one of *)
(* the three parts; the other two stay in an initial state.                *)
(***************************************************************************)
EXTENDS LtpResponse, LtpScan

CONSTANTS n1, n2, s1, s2

VARIABLES part,
          qload, qthread, qicn, qtimer, qproxyPacketBuffer, qwindowEndedRequests,
          qicnPacketBuffer, qknownNIds, qpotentialCmcGroup, qdelivered, qup, qdown,
          qlosses, qclean

\* A packet of n fragments whose last one has length class t.
Pk(n, t) == [n |-> n, tail |-> t]

\* Two responses in one session, the second one shorter, a window of one
\* fragment, and the end of the session;
\* a cNAP restart or a stop of its forwarding.
Windowed == [nids |-> {n1}, sks |-> {s1}, packets |-> <<Pk(2, "a"), Pk(1, "full")>>,
             credit |-> 1, ends |-> TRUE, losses |-> 1, burst |-> 1, faults |-> 1, channel |-> 1]
\* Two responses to a group of two.
Group == [nids |-> {n1, n2}, sks |-> {s1}, packets |-> <<Pk(2, "a"), Pk(2, "b")>>,
          credit |-> 2, ends |-> FALSE, losses |-> 2, burst |-> 1, faults |-> 0, channel |-> 0]
\* Two sessions of a group of two.
Sessions == [nids |-> {n1, n2}, sks |-> {s1, s2}, packets |-> <<Pk(2, "a")>>,
             credit |-> 2, ends |-> FALSE, losses |-> 1, burst |-> 1, faults |-> 0, channel |-> 0]
ResponseLoads == {Windowed, Group, Sessions}

\* A request that waited in the HTTP buffer, then one of the session's thread.
FromBuffer == [nids |-> {n1}, sks |-> {s1}, packets |-> <<Pk(2, "a"), Pk(1, "full")>>,
               buffered |-> {s1}, losses |-> 1, burst |-> 1, channel |-> 0]
\* Requests of two cNAPs under the same CID.
TwoCnaps == [nids |-> {n1, n2}, sks |-> {s1}, packets |-> <<Pk(2, "a")>>,
             buffered |-> {}, losses |-> 1, burst |-> 1, channel |-> 0]
\* Two sessions of a cNAP, one request from the buffer.
TwoSessions == [nids |-> {n1}, sks |-> {s1, s2}, packets |-> <<Pk(1, "a")>>,
                buffered |-> {s1}, losses |-> 1, burst |-> 1, channel |-> 0]
\* Three requests of one session, and timers that may fire early.
ThreeRequests == [nids |-> {n1}, sks |-> {s1}, packets |-> <<Pk(1, "a"), Pk(2, "full"), Pk(1, "b")>>,
                  buffered |-> {}, losses |-> 1, burst |-> 1, channel |-> 1]
RequestLoads == {FromBuffer, TwoCnaps, TwoSessions, ThreeRequests}

Req == INSTANCE LtpRequest WITH
    Loads <- RequestLoads, load <- qload, thread <- qthread, icn <- qicn, timer <- qtimer,
    proxyPacketBuffer <- qproxyPacketBuffer, windowEndedRequests <- qwindowEndedRequests,
    icnPacketBuffer <- qicnPacketBuffer, knownNIds <- qknownNIds,
    potentialCmcGroup <- qpotentialCmcGroup, delivered <- qdelivered, up <- qup, down <- qdown,
    losses <- qlosses, clean <- qclean

qvars == <<qload, qthread, qicn, qtimer, qproxyPacketBuffer, qwindowEndedRequests, qicnPacketBuffer,
           qknownNIds, qpotentialCmcGroup, qdelivered, qup, qdown, qlosses, qclean>>
mcVars == <<part, vars, qvars, buffered, announced>>

MCInit ==
    /\ part \in {"response", "request", "scan"}
    /\ Init
    /\ Req!Init
    /\ ScanInit
    /\ part # "response" => load = Group
    /\ part # "request" => qload = TwoCnaps
    /\ part # "scan" => buffered = {1} /\ announced = 1

MCNext ==
    \/ part = "response" /\ Next /\ UNCHANGED <<part, qvars, buffered, announced>>
    \/ part = "request" /\ Req!Next /\ UNCHANGED <<part, vars, buffered, announced>>
    \/ part = "scan" /\ ScanNext /\ UNCHANGED <<part, vars, qvars>>

MCSpec == /\ MCInit
          /\ [][MCNext]_mcVars
          /\ WF_mcVars(part = "response" /\ Progress /\ UNCHANGED <<part, qvars, buffered, announced>>)
          /\ WF_mcVars(part = "request" /\ Req!Progress /\ UNCHANGED <<part, vars, buffered, announced>>)

\* LtpRequest: TcpClient gets the requests of a session whole, in order and once each.
RequestsInOrder == Req!RequestsInOrder

\* LtpRequest: every request handed to LTP reaches TcpClient.
RequestsDelivered == (part = "request") => Req!RequestsDelivered

\* LtpRequest: retrievePacket keeps the fragments of the other cNAPs.
RetrievalKeepsOthers == Req!RetrievalKeepsOthers

\* LtpResponse: every publish() returns.
ResponsesReturn == (part = "response") => PublishReturns

\* What LTP reports or hands over is whole, in order and confirmed by those it
\* was for: responses (LtpResponse) and requests (LtpRequest).
DeliveredAsSent == ConfirmedMeansDelivered /\ RequestsInOrder

\* Every publish() of a response returns and every request reaches TcpClient,
\* whatever messages were lost in between.
AllDelivered == ResponsesReturn /\ RequestsDelivered
=============================================================================
