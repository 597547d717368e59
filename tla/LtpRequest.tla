----------------------------- MODULE LtpRequest -----------------------------
(***************************************************************************)
(* LTP from the client-side NAPs (cNAPs) to the server-side NAP (sNAP): the*)
(* publication of HTTP requests under a CID with an implicit subscription  *)
(* to the rCID (apps/nap/transport/lightweight.cc, lightweighttimeout.cc). *)
(* A request is published by the thread of its TCP session, or, if it had  *)
(* to wait for a subscriber, by the ICN event thread (publishFromBuffer),  *)
(* which leaves the retries to a LightweightTimeout thread.                *)
(***************************************************************************)
EXTENDS LtpCore

CONSTANTS Nid,    \* the cNAPs
          Sk,     \* session keys
          ENIGMA, \* publication attempts
          Loads   \* workloads, see load

VARIABLES
    load,                \* [nids, sks, packets, buffered (sessions whose first request
                         \*  waited in the HTTP buffer), losses, burst, channel]
    thread,              \* thread[n][s]: [pc, pkt, seq, attempts] of publish()
    icn,                 \* icn[n]: [pc, sk, seq, todo] of publishFromBuffer() in the ICN thread;
                         \*   "wait" until START_PUBLISH says that there is a subscriber
    timer,               \* timer[n][s]: attempts left of the LightweightTimeout thread
    proxyPacketBuffer,   \* per cNAP: sk -> seq -> payload
    windowEndedRequests, \* per cNAP: sk -> WED received; the rCID is known iff not empty
    icnPacketBuffer,     \* the sNAP's reassembly buffer of the rCID
    knownNIds,           \* the sNAP's NIDs -> forwarding enabled
    potentialCmcGroup,   \* the sNAP's NIDs -> request complete
    delivered,           \* per cNAP and sk: the requests handed to TcpClient
    up, down,            \* channels cNAP -> sNAP and sNAP -> cNAP
    losses,
    clean                \* history: no fragment was lost or evicted, no publication was given
                         \*   up, no timer fired early, no session published beside its timer
                         \*   thread, and no timer thread misread a confirmation

cnap == <<thread, icn, timer, proxyPacketBuffer, windowEndedRequests>>
snap == <<icnPacketBuffer, knownNIds, potentialCmcGroup, delivered>>
vars == <<load, cnap, snap, up, down, losses, clean>>

Packets == load.packets

Init ==
    /\ load \in Loads
    /\ thread = [n \in Nid |-> [s \in Sk |->
                   [pc |-> IF n \in load.nids /\ s \in load.sks THEN "idle" ELSE "done",
                    pkt |-> IF n \in load.nids /\ s \in load.buffered THEN 2 ELSE 1, seq |-> 0, attempts |-> 0]]]
    /\ icn = [n \in Nid |-> [pc |-> IF n \in load.nids /\ load.buffered # {} THEN "wait" ELSE "idle",
                             sk |-> CHOOSE s \in Sk : TRUE, seq |-> 0,
                             todo |-> IF n \in load.nids THEN load.buffered ELSE {}]]
    /\ timer = [n \in Nid |-> [s \in Sk |-> 0]]
    /\ proxyPacketBuffer = [n \in Nid |-> NoEntries]
    /\ windowEndedRequests = [n \in Nid |-> NoEntries]
    /\ icnPacketBuffer = NorCID
    /\ knownNIds = NoEntries
    /\ potentialCmcGroup = NoEntries
    /\ delivered = [n \in Nid |-> [s \in Sk |-> <<>>]]
    /\ up = [n \in Nid |-> <<>>]
    /\ down = [n \in Nid |-> <<>>]
    /\ losses = 0
    /\ clean = TRUE

-----------------------------------------------------------------------------
(* Helpers.                                                                *)

Payload(p, i) == [pkt |-> p, len |-> IF i = Packets[p].n THEN Packets[p].tail ELSE "full"]

\* The request TcpClient is given: its index, or 0 when its bytes are not those of
\* one whole request.
RequestOf(got) ==
    LET S == {p \in DOMAIN Packets : got = [i \in 1..Packets[p].n |-> Payload(p, i)]}
    IN IF S = {} THEN 0 ELSE CHOOSE p \in S : TRUE

\* publish_data_isub(cId, rCId, ...)
SendUp(n, msg) == up' = [up EXCEPT ![n] = Append(@, msg)]
SendDown(n, msg) == down' = [down EXCEPT ![n] = Append(@, msg)]

\* _bufferProxyPacket
bufferProxyPacket(n, s, seq, payload) ==
    proxyPacketBuffer' = [proxyPacketBuffer EXCEPT ![n] = bufferLtpPacket(@, s, seq, payload)]

\* _deleteProxyPacket
deleteProxyPacket(n, s) == proxyPacketBuffer' = [proxyPacketBuffer EXCEPT ![n] = Del(@, s)]

\* _addWindowEnd
addWindowEnd(n, s) == windowEndedRequests' = [windowEndedRequests EXCEPT ![n] = Put(@, s, FALSE)]

\* Nothing is under way between n and the sNAP: a timer that fires now is not early.
Quiet(n) == up[n] = <<>> /\ down[n] = <<>>

\* The bound on how far an early timer may run ahead of the network.
MayFire(n) == Len(up[n]) <= load.channel /\ Len(down[n]) <= load.channel

-----------------------------------------------------------------------------
(* publish(cId, rCId, ...): the thread of a TCP session.                   *)

Publish(n, s) ==
    /\ thread[n][s].pc = "idle"
    /\ thread[n][s].pkt <= Len(Packets)
    /\ icn[n].pc # "wait"
    /\ thread' = [thread EXCEPT ![n][s].pc = "data", ![n][s].seq = 0]
    /\ clean' = (clean /\ (s \in load.buffered => s \notin icn[n].todo /\ timer[n][s] = 0 /\ Quiet(n)))
    /\ UNCHANGED <<load, icn, timer, proxyPacketBuffer, windowEndedRequests, snap, up, down, losses>>

\* _publishData: send a fragment, then buffer it.
PublishFragment(n, s) ==
    LET t == thread[n][s]
    IN /\ t.pc = "data"
       /\ t.seq < Packets[t.pkt].n
       /\ SendUp(n, DATA(s, t.seq + 1, Payload(t.pkt, t.seq + 1)))
       /\ bufferProxyPacket(n, s, t.seq + 1, Payload(t.pkt, t.seq + 1))
       /\ thread' = [thread EXCEPT ![n][s].seq = @ + 1]
       /\ UNCHANGED <<load, icn, timer, windowEndedRequests, snap, down, losses, clean>>

\* _publishWindowEnd, first half: WINDOW_END is published.
PublishWindowEnd(n, s) ==
    /\ thread[n][s].pc = "data"
    /\ thread[n][s].seq = Packets[thread[n][s].pkt].n
    /\ SendUp(n, WE(s, Packets[thread[n][s].pkt].n))
    /\ thread' = [thread EXCEPT ![n][s].pc = "we", ![n][s].attempts = ENIGMA]
    /\ UNCHANGED <<load, icn, timer, proxyPacketBuffer, windowEndedRequests, snap, down, losses, clean>>

\* _publishWindowEnd, second half: only now the confirmation is awaited.
AddWindowEnd(n, s) ==
    LET last == thread[n][s].attempts = 0
    IN /\ thread[n][s].pc = "we"
       /\ addWindowEnd(n, s)
       /\ thread' = [thread EXCEPT ![n][s].pc = IF last THEN "idle" ELSE "poll",
                                   ![n][s].pkt = IF last THEN @ + 1 ELSE @]
       /\ UNCHANGED <<load, icn, timer, proxyPacketBuffer, snap, up, down, losses, clean>>

\* publish() returns: the confirmation came, or the rCID has no entry any more.
PublishReturn(n, s) ==
    LET w == windowEndedRequests[n]
    IN /\ thread[n][s].pc = "poll"
       /\ \/ DOMAIN w = {} /\ UNCHANGED windowEndedRequests
          \/ /\ s \in DOMAIN w
             /\ w[s]
             /\ windowEndedRequests' = [windowEndedRequests EXCEPT ![n] = Del(w, s)]
       /\ thread' = [thread EXCEPT ![n][s].pc = "idle", ![n][s].pkt = @ + 1]
       /\ UNCHANGED <<load, icn, timer, proxyPacketBuffer, snap, up, down, losses, clean>>

\* Mutant: publish() keeps waiting and does not repeat WINDOW_END.
BadPublishTimeout(n, s) ==
    /\ thread[n][s].pc = "poll"
    /\ MayFire(n)
    /\ UNCHANGED vars

\* A round times out: WINDOW_END once more; after ENIGMA rounds publish() gives up.
PublishTimeout(n, s) ==
    /\ thread[n][s].pc = "poll"
    /\ MayFire(n)
    /\ SendUp(n, WE(s, Packets[thread[n][s].pkt].n))
    /\ thread' = [thread EXCEPT ![n][s].pc = "we", ![n][s].attempts = @ - 1]
    /\ clean' = (clean /\ Quiet(n) /\ thread[n][s].attempts > 1)
    /\ UNCHANGED <<load, icn, timer, proxyPacketBuffer, windowEndedRequests, snap, down, losses>>

-----------------------------------------------------------------------------
(* publishFromBuffer in the cNAP's ICN event thread, and the timer thread. *)

\* START_PUBLISH: forwarding is enabled, publishFromBuffer is called.
StartPublish(n) ==
    /\ icn[n].pc = "wait"
    /\ icn' = [icn EXCEPT ![n].pc = "idle"]
    /\ UNCHANGED <<load, thread, timer, proxyPacketBuffer, windowEndedRequests, snap, up, down, losses, clean>>

IcnPublish(n, s) ==
    /\ icn[n].pc = "idle"
    /\ s \in icn[n].todo
    /\ icn' = [icn EXCEPT ![n].pc = "data", ![n].sk = s, ![n].seq = 0]
    /\ UNCHANGED <<load, thread, timer, proxyPacketBuffer, windowEndedRequests, snap, up, down, losses, clean>>

IcnFragment(n) ==
    LET i == icn[n]
    IN /\ i.pc = "data"
       /\ i.seq < Packets[1].n
       /\ SendUp(n, DATA(i.sk, i.seq + 1, Payload(1, i.seq + 1)))
       /\ bufferProxyPacket(n, i.sk, i.seq + 1, Payload(1, i.seq + 1))
       /\ icn' = [icn EXCEPT ![n].seq = @ + 1]
       /\ UNCHANGED <<load, thread, timer, windowEndedRequests, snap, down, losses, clean>>

IcnWindowEnd(n) ==
    /\ icn[n].pc = "data"
    /\ icn[n].seq = Packets[1].n
    /\ SendUp(n, WE(icn[n].sk, Packets[1].n))
    /\ icn' = [icn EXCEPT ![n].pc = "we"]
    /\ UNCHANGED <<load, thread, timer, proxyPacketBuffer, windowEndedRequests, snap, down, losses, clean>>

\* _addWindowEnd, and the LightweightTimeout thread is created.
IcnTimer(n) ==
    LET s == icn[n].sk
    IN /\ icn[n].pc = "we"
       /\ addWindowEnd(n, s)
       /\ timer' = [timer EXCEPT ![n][s] = ENIGMA]
       /\ icn' = [icn EXCEPT ![n].pc = "idle", ![n].todo = @ \ {s}]
       /\ UNCHANGED <<load, thread, proxyPacketBuffer, snap, up, down, losses, clean>>

\* LightweightTimeout::operator(): a poll that finds no entry ends the thread.
TimerEnds(n, s) ==
    /\ timer[n][s] > 0
    /\ DOMAIN windowEndedRequests[n] = {}
    /\ timer' = [timer EXCEPT ![n][s] = 0]
    /\ UNCHANGED <<load, thread, icn, proxyPacketBuffer, windowEndedRequests, snap, up, down, losses, clean>>

\* The thread reads the map under the type map<uint32_t, bool>: what it takes for the
\* confirmation is padding.  Whenever that is not zero it erases the entry of the
\* rCID, with the confirmations of all sessions, and drops the request.
TimerMisreads(n, s) ==
    /\ timer[n][s] > 0
    /\ DOMAIN windowEndedRequests[n] # {}
    /\ windowEndedRequests' = [windowEndedRequests EXCEPT ![n] = NoEntries]
    /\ deleteProxyPacket(n, s)
    /\ timer' = [timer EXCEPT ![n][s] = 0]
    /\ clean' = FALSE
    /\ UNCHANGED <<load, thread, icn, snap, up, down, losses>>

\* _rePublishWindowEnd
TimerTimeout(n, s) ==
    /\ timer[n][s] > 0
    /\ MayFire(n)
    /\ SendUp(n, WE(s, Packets[1].n))
    /\ timer' = [timer EXCEPT ![n][s] = @ - 1]
    /\ clean' = (clean /\ Quiet(n))
    /\ UNCHANGED <<load, thread, icn, proxyPacketBuffer, windowEndedRequests, snap, down, losses>>

\* The ICN thread handles the next message of the sNAP, once it is done publishing.
FromSnap(n, type) == /\ icn[n].pc = "idle" /\ icn[n].todo = {}
                     /\ down[n] # <<>>
                     /\ Head(down[n]).t = type
                     /\ down' = [down EXCEPT ![n] = Tail(@)]

\* LTP_CONTROL_WINDOW_ENDED
HandleWindowEnded(n) ==
    LET s == Head(down[n]).sk
    IN /\ FromSnap(n, "WED")
       /\ IF s \in DOMAIN windowEndedRequests[n]
          THEN /\ windowEndedRequests' = [windowEndedRequests EXCEPT ![n][s] = TRUE]
               /\ deleteProxyPacket(n, s)
          ELSE UNCHANGED <<windowEndedRequests, proxyPacketBuffer>>
       /\ UNCHANGED <<load, thread, icn, timer, snap, up, losses, clean>>

\* _publishDataRange publishes the missing range again, but under the rCID and to the
\* node identifier of this cNAP itself; none of it goes to the sNAP.
publishDataRangeToSelf(n) == up' = up

\* LTP_CONTROL_NACK
HandleNack(n) ==
    /\ FromSnap(n, "NACK")
    /\ publishDataRangeToSelf(n)
    /\ UNCHANGED <<load, cnap, snap, losses, clean>>

-----------------------------------------------------------------------------
(* The sNAP's ICN event thread: handle(cId, rCId, nodeId, ...).            *)

\* _addNodeId: a new NID is known, with forwarding disabled.
addNodeId(n) == IF n \in DOMAIN knownNIds THEN knownNIds ELSE Put(knownNIds, n, FALSE)

FromCnap(n, type) == /\ up[n] # <<>>
                     /\ Head(up[n]).t = type
                     /\ up' = [up EXCEPT ![n] = Tail(@)]
                     /\ knownNIds' = addNodeId(n)

\* _publishWindowEnded, if forwarding to the NID is enabled.
publishWindowEnded(n, s) == IF knownNIds'[n] THEN SendDown(n, WED(s)) ELSE down' = down

\* _publishNegativeAcknowledgement
publishNegativeAcknowledgement(n, s, start, end) == SendDown(n, NACK(s, start, end))

\* START_PUBLISH_iSUB / STOP_PUBLISH_iSUB for a NID.
Forwarding(n) ==
    /\ n \in DOMAIN knownNIds
    /\ ~knownNIds[n]
    /\ knownNIds' = [knownNIds EXCEPT ![n] = TRUE]
    /\ UNCHANGED <<load, cnap, icnPacketBuffer, potentialCmcGroup, delivered, up, down, losses, clean>>

\* _handleData: buffer the fragment; the NID becomes a potential member of a CMC group.
HandleData(n) ==
    LET m == Head(up[n])
    IN /\ FromCnap(n, "DATA")
       /\ icnPacketBuffer' = bufferIcnPacket(icnPacketBuffer, n, m.sk, m.seq, m.payload)
       /\ potentialCmcGroup' = IF n \in DOMAIN potentialCmcGroup THEN potentialCmcGroup
                               ELSE Put(potentialCmcGroup, n, FALSE)
       /\ UNCHANGED <<load, cnap, delivered, down, losses, clean>>

\* _enableNIdInCmcGroup
enableNIdInCmcGroup(n) == IF n \in DOMAIN potentialCmcGroup THEN Put(potentialCmcGroup, n, TRUE)
                          ELSE potentialCmcGroup

\* LTP_CONTROL_WINDOW_END: a complete request is confirmed, retrieved and handed to
\* TcpClient; an incomplete one is NACKed; if nothing is buffered, "confirm anyway".
HandleWindowEnd(n) ==
    LET m == Head(up[n])
        b == icnPacketBuffer
        got == Received(b, n, m.sk)
        S == DOMAIN got
        after == afterRetrieval(b, n, m.sk)
    IN /\ FromCnap(n, "WE")
       /\ potentialCmcGroup' = enableNIdInCmcGroup(n)
       /\ \/ /\ S = {}
             /\ publishWindowEnded(n, m.sk)
             /\ UNCHANGED <<icnPacketBuffer, delivered, clean>>
          \/ /\ S # {}
             /\ allFragmentsReceived(S, m.seq)
             /\ publishWindowEnded(n, m.sk)
             /\ icnPacketBuffer' = after
             /\ delivered' = [delivered EXCEPT ![n][m.sk] = Append(@, RequestOf(got))]
             /\ clean' = (clean /\ DOMAIN b.nids \subseteq DOMAIN after.nids \cup {n})
          \/ /\ S # {}
             /\ ~allFragmentsReceived(S, m.seq)
             /\ publishNegativeAcknowledgement(n, m.sk, firstMissingSequence(S, m.seq),
                                               lastMissingSequence(S, m.seq))
             /\ UNCHANGED <<icnPacketBuffer, delivered, clean>>
       /\ UNCHANGED <<load, cnap, losses>>

-----------------------------------------------------------------------------
\* A burst of messages of one channel is lost.
Lose(n) ==
    /\ losses < load.losses
    /\ losses' = losses + 1
    /\ \E k \in 1..load.burst :
          \/ /\ k <= Len(down[n])
             /\ down' = [down EXCEPT ![n] = SubSeq(@, k + 1, Len(@))]
             /\ UNCHANGED <<up, clean>>
          \/ /\ k <= Len(up[n])
             /\ up' = [up EXCEPT ![n] = SubSeq(@, k + 1, Len(@))]
             /\ clean' = (clean /\ \A i \in 1..k : up[n][i].t # "DATA")
             /\ down' = down
    /\ UNCHANGED <<load, cnap, snap>>

Session(n, s) == \/ Publish(n, s) \/ PublishFragment(n, s) \/ PublishWindowEnd(n, s) \/ AddWindowEnd(n, s)
                 \/ PublishReturn(n, s) \/ PublishTimeout(n, s)
                 \/ TimerEnds(n, s) \/ TimerTimeout(n, s) \/ IcnPublish(n, s)
CnapIcn(n) == \/ StartPublish(n) \/ IcnFragment(n) \/ IcnWindowEnd(n) \/ IcnTimer(n)
              \/ HandleWindowEnded(n) \/ HandleNack(n)
SnapIcn(n) == HandleData(n) \/ HandleWindowEnd(n)

\* Every request was published and nothing is under way.
Finished == /\ \A n \in load.nids : /\ up[n] = <<>> /\ down[n] = <<>> /\ icn[n].todo = {}
                                    /\ \A s \in load.sks : /\ thread[n][s].pkt > Len(Packets)
                                                           /\ timer[n][s] = 0
            /\ UNCHANGED vars

\* A step of a thread, a timer or the network.
Progress == \E n \in Nid : \/ \E s \in Sk : Session(n, s)
                           \/ CnapIcn(n)
                           \/ SnapIcn(n)

Next == \/ Progress
        \/ \E n \in Nid : \/ \E s \in Sk : TimerMisreads(n, s)
                          \/ Forwarding(n)
                          \/ Lose(n)
        \/ Finished

Spec == Init /\ [][Next]_vars /\ WF_vars(Progress)

-----------------------------------------------------------------------------
(* Properties.                                                             *)

\* However the session threads, the ICN threads and the timer threads interleave, and
\* whatever WINDOW_ENDs and WINDOW_ENDEDs are lost, TcpClient gets the requests of a
\* session whole, in order and once each, as long as no data fragment is lost or evicted
\* by retrievePacket, timers do not fire early, and a session with a request published
\* from the buffer publishes the next one when its timer thread is done and
\* answered.
RequestsInOrder ==
    clean => \A n \in Nid, s \in Sk : delivered[n][s] = [i \in 1..Len(delivered[n][s]) |-> i]

\* Under the same conditions every request handed to LTP reaches TcpClient: a lost
\* WINDOW_END is repeated by publish() or by the LightweightTimeout thread.
RequestsDelivered ==
    <>(~clean \/ \A n \in load.nids, s \in load.sks : Len(delivered[n][s]) >= Len(Packets))

\* Handing one cNAP's request to TcpClient leaves the fragments of the other cNAPs in
\* the reassembly buffer (retrievePacket erases a level of the buffer when the last
\* entry below it is gone).
RetrievalKeepsOthers ==
    [][\A n \in Nid : n \in DOMAIN icnPacketBuffer.nids =>
          \/ n \in DOMAIN icnPacketBuffer'.nids
          \/ \E s \in Sk : Len(delivered'[n][s]) > Len(delivered[n][s])]_vars
=============================================================================
