---------------------------- MODULE LtpResponse ----------------------------
(***************************************************************************)
(* LTP from the server-side NAP (sNAP) to the client-side NAPs (cNAPs): the*)
(* publication of HTTP responses to a co-incidental multicast (CMC) group, *)
(* apps/nap/transport/lightweight.cc.  One publishing thread per session   *)
(* key (TcpClient), the sNAP's ICN event thread, and one ICN event thread  *)
(* per cNAP, over FIFO channels that may lose messages.                    *)
(***************************************************************************)
EXTENDS LtpCore

CONSTANTS Nid,          \* the cNAPs
          Sk,           \* session keys
          ENIGMA,       \* publication attempts
          Loads         \* workloads, see load

VARIABLES
    load,                  \* the workload: [nids, sks] of the group, its packets with
                           \*   packets[i] = [n, tail] (fragments of the i-th response of
                           \*   a session and length of the last), credit (ltpInitialCredit),
                           \*   whether the server closes the sessions in the end (ends), and
                           \*   the bounds losses, burst, faults and channel (how many messages
                           \*   may be under way when a timer fires early)
    thread,                \* thread[sk]: [pc, pkt, seq, credit, attempts] of publish()
    ltpPacketBuffer,       \* sk -> seq -> payload
    windowEndedResponses,  \* <<nid, sk>> -> WED received
    windowUpdate,          \* sk -> nid -> WUD received
    sessionEndedResponses, \* <<nid, sk>> -> SED received
    nackGroups,            \* sk -> [nids, start, end]
    cmcGroups,             \* sk -> set of nids
    knownNIds,             \* NIDs with forwarding enabled
    deleting,              \* session keys whose packet the ICN thread is about to delete
    icnPacketBuffer,       \* per cNAP: the reassembly buffer of the rCID
    cIdReverseLookUp,      \* per cNAP: whether the rCID's CID is known
    delivered,             \* per cNAP and sk: the packets written to the client (PacketOf)
    down, up,              \* channels sNAP -> cNAP and cNAP -> sNAP
    losses, faults,        \* messages lost; cNAP restarts and stops of a NID's forwarding
    arrived,               \* history: <<nid, sk, pkt>> of which a fragment arrived
    calm                   \* history: no give-up, and no timer that fired early

snap == <<thread, ltpPacketBuffer, windowEndedResponses, windowUpdate,
          sessionEndedResponses, nackGroups, cmcGroups, knownNIds, deleting>>
cnap == <<icnPacketBuffer, cIdReverseLookUp, delivered, arrived>>
net  == <<down, up, losses, faults>>
vars == <<load, snap, cnap, net, calm>>

Packets == load.packets

Init ==
    /\ load \in Loads
    /\ thread = [s \in Sk |-> [pc |-> IF s \in load.sks THEN "idle" ELSE "done", pkt |-> 1, seq |-> 0,
                               credit |-> load.credit, attempts |-> 0]]
    /\ ltpPacketBuffer = NoEntries
    /\ windowEndedResponses = NoEntries
    /\ windowUpdate = NoEntries
    /\ sessionEndedResponses = NoEntries
    /\ nackGroups = NoEntries
    /\ cmcGroups = [s \in load.sks |-> load.nids]
    /\ knownNIds = load.nids
    /\ deleting = {}
    /\ icnPacketBuffer = [n \in Nid |-> NorCID]
    /\ cIdReverseLookUp = [n \in Nid |-> TRUE]
    /\ delivered = [n \in Nid |-> [s \in Sk |-> <<>>]]
    /\ down = [n \in Nid |-> <<>>]
    /\ up = [n \in Nid |-> <<>>]
    /\ losses = 0
    /\ faults = 0
    /\ arrived = {}
    /\ calm = TRUE

-----------------------------------------------------------------------------
(* Helpers of the publishing side.                                         *)

\* publish_data(rCID, nodeIds): the message to each of a set of nodes.
SendDown(nids, msgs) == down' = [n \in Nid |-> IF n \in nids THEN down[n] \o msgs ELSE down[n]]

Payload(p, i) == [pkt |-> p, len |-> IF i = Packets[p].n THEN Packets[p].tail ELSE "full"]

\* The packet a client got: its index, or 0 when its bytes are not those of one
\* whole packet.
PacketOf(got) ==
    LET S == {p \in DOMAIN Packets : got = [i \in 1..Packets[p].n |-> Payload(p, i)]}
    IN IF S = {} THEN 0 ELSE CHOOSE p \in S : TRUE

\* _addWindowEnd: no NID has confirmed the packet yet, whatever was known before.
addWindowEnd(s) ==
    [x \in DOMAIN windowEndedResponses \cup (cmcGroups[s] \X {s}) |->
        IF x \in cmcGroups[s] \X {s} THEN FALSE ELSE windowEndedResponses[x]]

\* Mutant: an entry counts as a confirmation.
BadConfirmed(table, s) == {n \in Nid : <<n, s>> \in DOMAIN table}

\* The NIDs of publish()'s poll that have confirmed.
Confirmed(table, s) == {n \in Nid : <<n, s>> \in DOMAIN table /\ table[<<n, s>>]}

\* _addNodeIdToWindowUpdate for each NID: an entry that exists is kept.
addNodeIdToWindowUpdate(s, nids) ==
    LET known == At(windowUpdate, s)
    IN Put(windowUpdate, s,
           [n \in DOMAIN known \cup nids |-> IF n \in DOMAIN known THEN known[n] ELSE FALSE])

\* _removeNidsFromWindowUpdate
removeNidsFromWindowUpdate(s) ==
    IF s \in DOMAIN windowUpdate
    THEN Put(windowUpdate, s, Restrict(windowUpdate[s], DOMAIN windowUpdate[s] \ cmcGroups[s]))
    ELSE windowUpdate

\* _addSessionEnd: nobody has confirmed the end of the session yet.
addSessionEnd(s) ==
    [x \in DOMAIN sessionEndedResponses \cup (cmcGroups[s] \X {s}) |->
        IF x \in cmcGroups[s] \X {s} THEN FALSE ELSE sessionEndedResponses[x]]

\* _deleteSessionEnd
deleteSessionEnd(s) == Restrict(sessionEndedResponses, DOMAIN sessionEndedResponses \ (cmcGroups[s] \X {s}))

\* _publishSessionEnd
publishSessionEnd(s) == SendDown(cmcGroups[s], <<SE(s)>>)

\* _wudsNotReceived
wudsNotReceived(s) == {n \in DOMAIN At(windowUpdate, s) : ~windowUpdate[s][n]}

\* _publishWindowUpdate to those of a list of NIDs that have forwarding enabled.
publishWindowUpdate(s, nids) ==
    LET enabled == nids \cap knownNIds
    IN /\ windowUpdate' = IF enabled = {} THEN windowUpdate ELSE addNodeIdToWindowUpdate(s, enabled)
       /\ SendDown(enabled, <<WU(s)>>)

\* _publishWindowEnd: reset what is confirmed, then send WINDOW_END.
publishWindowEnd(s) ==
    /\ windowEndedResponses' = addWindowEnd(s)
    /\ SendDown(cmcGroups[s], <<WE(s, Packets[thread[s].pkt].n)>>)

Goto(s, pc) == thread' = [thread EXCEPT ![s].pc = pc]

\* Nothing of the session is under way: a timer that fires now is not early.
Quiet(s) == /\ \A n \in Nid : \A m \in Range(down[n]) \cup Range(up[n]) : m.sk # s
            /\ s \notin deleting

\* The bound on how far an early timer may run ahead of the network.
MayFire == \A n \in Nid : Len(down[n]) <= load.channel /\ Len(up[n]) <= load.channel

-----------------------------------------------------------------------------
(* The publishing thread of a session (publish, publishEndOfSession).      *)

\* publish() is called with the session's next response.
Publish(s) ==
    /\ thread[s].pc = "idle"
    /\ thread[s].pkt <= Len(Packets)
    /\ thread' = [thread EXCEPT ![s].pc = "data", ![s].seq = 0, ![s].credit = load.credit]
    /\ UNCHANGED <<load, ltpPacketBuffer, windowEndedResponses, windowUpdate, sessionEndedResponses,
                   nackGroups, cmcGroups, knownNIds, deleting, cnap, net, calm>>

\* _publishData, one round of its loop: send a fragment, then buffer it.
PublishFragment(s) ==
    LET t == thread[s]
        payload == Payload(t.pkt, t.seq + 1)
    IN /\ t.pc = "data"
       /\ t.seq < Packets[t.pkt].n
       /\ t.credit > 0
       /\ SendDown(cmcGroups[s], <<DATA(s, t.seq + 1, payload)>>)
       /\ ltpPacketBuffer' = bufferLtpPacket(ltpPacketBuffer, s, t.seq + 1, payload)
       /\ thread' = [thread EXCEPT ![s].seq = @ + 1, ![s].credit = @ - 1]
       /\ UNCHANGED <<load, windowEndedResponses, windowUpdate, sessionEndedResponses, nackGroups,
                      cmcGroups, knownNIds, deleting, cnap, up, losses, faults, calm>>

\* _publishData out of credit: ask the group for a window update and wait.
OutOfCredit(s) ==
    /\ thread[s].pc = "data"
    /\ thread[s].seq < Packets[thread[s].pkt].n
    /\ thread[s].credit = 0
    /\ publishWindowUpdate(s, cmcGroups[s])
    /\ Goto(s, "wu")
    /\ UNCHANGED <<load, ltpPacketBuffer, windowEndedResponses, sessionEndedResponses, nackGroups,
                   cmcGroups, knownNIds, deleting, cnap, up, losses, faults, calm>>

\* The wait for WINDOW_UPDATED times out: ask those that have not answered again,
\* without a limit on the number of rounds.
WindowUpdateTimeout(s) ==
    /\ thread[s].pc = "wu"
    /\ wudsNotReceived(s) # {}
    /\ MayFire
    /\ publishWindowUpdate(s, wudsNotReceived(s))
    /\ calm' = (calm /\ Quiet(s))
    /\ UNCHANGED <<load, thread, ltpPacketBuffer, windowEndedResponses, sessionEndedResponses,
                   nackGroups, cmcGroups, knownNIds, deleting, cnap, up, losses, faults>>

\* Everyone answered: _removeNidsFromWindowUpdate, and the credit is restored.
CreditRestored(s) ==
    /\ thread[s].pc = "wu"
    /\ wudsNotReceived(s) = {}
    /\ windowUpdate' = removeNidsFromWindowUpdate(s)
    /\ thread' = [thread EXCEPT ![s].pc = "data", ![s].credit = load.credit]
    /\ UNCHANGED <<load, ltpPacketBuffer, windowEndedResponses, sessionEndedResponses, nackGroups,
                   cmcGroups, knownNIds, deleting, cnap, net, calm>>

\* All fragments are out: the first WINDOW_END.
PublishWindowEnd(s) ==
    /\ thread[s].pc = "data"
    /\ thread[s].seq = Packets[thread[s].pkt].n
    /\ publishWindowEnd(s)
    /\ thread' = [thread EXCEPT ![s].pc = "poll", ![s].attempts = ENIGMA]
    /\ UNCHANGED <<load, ltpPacketBuffer, windowUpdate, sessionEndedResponses, nackGroups, cmcGroups,
                   knownNIds, deleting, cnap, up, losses, faults, calm>>

\* publish() finds that every NID has confirmed, and returns.
AllConfirmed(s) ==
    /\ thread[s].pc = "poll"
    /\ cmcGroups[s] \subseteq Confirmed(windowEndedResponses, s)
    /\ thread' = [thread EXCEPT ![s].pc = "idle", ![s].pkt = @ + 1]
    /\ UNCHANGED <<load, ltpPacketBuffer, windowEndedResponses, windowUpdate, sessionEndedResponses,
                   nackGroups, cmcGroups, knownNIds, deleting, cnap, net, calm>>

\* A round of publish() times out: WINDOW_END once more, and after ENIGMA rounds
\* publish() gives up.
WindowEndTimeout(s) ==
    /\ thread[s].pc = "poll"
    /\ MayFire
    /\ publishWindowEnd(s)
    /\ thread' = [thread EXCEPT ![s].attempts = @ - 1,
                                ![s].pc = IF thread[s].attempts = 1 THEN "idle" ELSE "poll",
                                ![s].pkt = IF thread[s].attempts = 1 THEN @ + 1 ELSE @]
    /\ calm' = (calm /\ Quiet(s) /\ thread[s].attempts > 1)
    /\ UNCHANGED <<load, ltpPacketBuffer, windowUpdate, sessionEndedResponses, nackGroups, cmcGroups,
                   knownNIds, deleting, cnap, up, losses, faults>>

\* publishEndOfSession once the session has no more responses: _addSessionEnd, SE.
PublishEndOfSession(s) ==
    /\ thread[s].pc = "idle"
    /\ thread[s].pkt > Len(Packets)
    /\ load.ends
    /\ s \in DOMAIN cmcGroups
    /\ sessionEndedResponses' = addSessionEnd(s)
    /\ publishSessionEnd(s)
    /\ thread' = [thread EXCEPT ![s].pc = "se", ![s].attempts = ENIGMA]
    /\ UNCHANGED <<load, ltpPacketBuffer, windowEndedResponses, windowUpdate, nackGroups, cmcGroups,
                   knownNIds, deleting, cnap, up, losses, faults, calm>>

\* Http::closeCmcGroup erases the group when publishEndOfSession returns.
closeCmcGroup(s) == cmcGroups' = Del(cmcGroups, s)

\* Every NID confirmed the end of the session: _deleteSessionEnd.
SessionEnded(s) ==
    /\ thread[s].pc = "se"
    /\ cmcGroups[s] \subseteq Confirmed(sessionEndedResponses, s)
    /\ sessionEndedResponses' = deleteSessionEnd(s)
    /\ closeCmcGroup(s)
    /\ Goto(s, "done")
    /\ UNCHANGED <<load, ltpPacketBuffer, windowEndedResponses, windowUpdate, nackGroups, knownNIds,
                   deleting, cnap, net, calm>>

\* A round times out: SE once more, and after ENIGMA rounds give up.
SessionEndTimeout(s) ==
    /\ thread[s].pc = "se"
    /\ MayFire
    /\ publishSessionEnd(s)
    /\ thread' = [thread EXCEPT ![s].attempts = @ - 1,
                                ![s].pc = IF thread[s].attempts = 1 THEN "done" ELSE "se"]
    /\ IF thread[s].attempts = 1 THEN closeCmcGroup(s) ELSE UNCHANGED cmcGroups
    /\ calm' = (calm /\ Quiet(s))
    /\ UNCHANGED <<load, ltpPacketBuffer, windowEndedResponses, windowUpdate, sessionEndedResponses,
                   nackGroups, knownNIds, deleting, cnap, up, losses, faults>>

-----------------------------------------------------------------------------
(* The sNAP's ICN event thread: _handleControl(cId, rCId, nodeId, ...).    *)

\* STOP_PUBLISH_iSUB: Http::forwarding(nid, false).
StopForwarding(n) ==
    /\ n \in knownNIds
    /\ faults < load.faults
    /\ faults' = faults + 1
    /\ knownNIds' = knownNIds \ {n}
    /\ UNCHANGED <<load, thread, ltpPacketBuffer, windowEndedResponses, windowUpdate,
                   sessionEndedResponses, nackGroups, cmcGroups, deleting, cnap, down, up, losses, calm>>

\* START_PUBLISH_iSUB: Http::forwarding(nid, true).
StartForwarding(n) ==
    /\ n \notin knownNIds
    /\ knownNIds' = knownNIds \cup {n}
    /\ UNCHANGED <<load, thread, ltpPacketBuffer, windowEndedResponses, windowUpdate,
                   sessionEndedResponses, nackGroups, cmcGroups, deleting, cnap, net, calm>>

\* The thread takes the next message from a cNAP.
FromCnap(n, type) == /\ deleting = {}
                     /\ up[n] # <<>>
                     /\ Head(up[n]).t = type
                     /\ up' = [up EXCEPT ![n] = Tail(@)]

\* What endSequence may hold in a nack_group_t that was not initialised.
Uninitialised == 0 .. Max({Packets[i].n : i \in DOMAIN Packets})

\* _addNackNodeId: a new group if the rCID has none; for a new session key beside
\* other groups endSequence is left uninitialised; else the group is widened.
addNackNodeId(n, m) ==
    IF DOMAIN nackGroups = {}
    THEN {Put(nackGroups, m.sk, [nids |-> {n}, start |-> m.start, end |-> m.end])}
    ELSE IF m.sk \notin DOMAIN nackGroups
    THEN {Put(nackGroups, m.sk, [nids |-> {n}, start |-> m.start, end |-> e]) : e \in Uninitialised}
    ELSE LET g == nackGroups[m.sk]
         IN {Put(nackGroups, m.sk, [nids |-> g.nids \cup {n}, start |-> Min({g.start, m.start}),
                                    end |-> Max({g.end, m.end})])}

\* _deleteNackGroup
deleteNackGroup(groups, s) == Del(groups, s)

\* LTP_CONTROL_NACK: once every member of the CMC group has confirmed or asked,
\* resend the range to those that asked.
HandleNack(n) ==
    LET m == Head(up[n])
        s == m.sk
    IN /\ FromCnap(n, "NACK")
       /\ \E groups \in addNackNodeId(n, m) :
             LET g == groups[s]
                 waiting == Cardinality(cmcGroups[s]) >
                            Cardinality(cmcGroups[s] \cap Confirmed(windowEndedResponses, s)) + Cardinality(g.nids)
             IN IF s \notin DOMAIN cmcGroups \/ DOMAIN windowEndedResponses = {} \/ waiting
                THEN nackGroups' = groups /\ down' = down
                ELSE /\ nackGroups' = deleteNackGroup(groups, s)
                     /\ SendDown(g.nids, publishDataRange(ltpPacketBuffer, s, g.start, g.end))
       /\ UNCHANGED <<load, thread, ltpPacketBuffer, windowEndedResponses, windowUpdate,
                      sessionEndedResponses, cmcGroups, knownNIds, deleting, cnap, losses, faults, calm>>

\* LTP_CONTROL_WINDOW_ENDED: note the confirmation and look whether the group is
\* complete; the buffered packet is deleted after the locks are released.
HandleWindowEnded(n) ==
    LET s == Head(up[n]).sk
        table == Put(windowEndedResponses, <<n, s>>, TRUE)
        complete == \/ s \notin DOMAIN cmcGroups
                    \/ \A c \in cmcGroups[s] : <<c, s>> \in DOMAIN table => table[<<c, s>>]
    IN /\ FromCnap(n, "WED")
       /\ IF <<n, s>> \in DOMAIN windowEndedResponses
          THEN /\ windowEndedResponses' = table
               /\ deleting' = IF complete THEN {s} ELSE {}
          ELSE UNCHANGED <<windowEndedResponses, deleting>>
       /\ UNCHANGED <<load, thread, ltpPacketBuffer, windowUpdate, sessionEndedResponses, nackGroups,
                      cmcGroups, knownNIds, cnap, down, losses, faults, calm>>

\* Mutant: the buffered packet is kept.
BadDeleteBufferedLtpPacket(s) ==
    /\ s \in deleting
    /\ deleting' = {}
    /\ UNCHANGED <<load, thread, ltpPacketBuffer, windowEndedResponses, windowUpdate,
                   sessionEndedResponses, nackGroups, cmcGroups, knownNIds, cnap, net, calm>>

\* _deleteBufferedLtpPacket
deleteBufferedLtpPacket(s) ==
    /\ s \in deleting
    /\ ltpPacketBuffer' = Del(ltpPacketBuffer, s)
    /\ deleting' = {}
    /\ UNCHANGED <<load, thread, windowEndedResponses, windowUpdate, sessionEndedResponses,
                   nackGroups, cmcGroups, knownNIds, cnap, net, calm>>

\* Mutant: the answer is not noted.
BadHandleWindowUpdated(n) ==
    /\ FromCnap(n, "WUD")
    /\ UNCHANGED <<load, snap, cnap, down, losses, faults, calm>>

\* LTP_CONTROL_WINDOW_UPDATED
HandleWindowUpdated(n) ==
    LET s == Head(up[n]).sk
    IN /\ FromCnap(n, "WUD")
       /\ windowUpdate' = IF n \in DOMAIN At(windowUpdate, s)
                          THEN [windowUpdate EXCEPT ![s][n] = TRUE] ELSE windowUpdate
       /\ UNCHANGED <<load, thread, ltpPacketBuffer, windowEndedResponses, sessionEndedResponses,
                      nackGroups, cmcGroups, knownNIds, deleting, cnap, down, losses, faults, calm>>

\* LTP_CONTROL_SESSION_ENDED
HandleSessionEnded(n) ==
    LET s == Head(up[n]).sk
    IN /\ FromCnap(n, "SED")
       /\ sessionEndedResponses' = IF <<n, s>> \in DOMAIN sessionEndedResponses
                                   THEN Put(sessionEndedResponses, <<n, s>>, TRUE)
                                   ELSE sessionEndedResponses
       /\ UNCHANGED <<load, thread, ltpPacketBuffer, windowEndedResponses, windowUpdate, nackGroups,
                      cmcGroups, knownNIds, deleting, cnap, down, losses, faults, calm>>

-----------------------------------------------------------------------------
(* A cNAP's ICN event thread: handle(rCid, ...).                           *)

FromSnap(n, type) == /\ down[n] # <<>>
                     /\ Head(down[n]).t = type
                     /\ down' = [down EXCEPT ![n] = Tail(@)]

\* Control messages of a cNAP go to the CID of the rCID, if it is known.
Reply(n, msg) == up' = IF cIdReverseLookUp[n] THEN [up EXCEPT ![n] = Append(@, msg)] ELSE up

\* _publishWindowEnded, _publishNegativeAcknowledgement, _publishWindowUpdated and
\* _publishSessionEnded of a cNAP.
publishWindowEnded(n, s) == Reply(n, WED(s))
publishNegativeAcknowledgement(n, s, start, end) == Reply(n, NACK(s, start, end))
publishWindowUpdated(n, s) == Reply(n, WUD(s))
publishSessionEnded(n, s) == Reply(n, SED(s))

\* _handleData: buffer the fragment.
HandleData(n) ==
    LET m == Head(down[n])
    IN /\ FromSnap(n, "DATA")
       /\ icnPacketBuffer' = [icnPacketBuffer EXCEPT ![n] = bufferIcnPacket(@, n, m.sk, m.seq, m.payload)]
       /\ arrived' = arrived \cup {<<n, m.sk, m.payload.pkt>>}
       /\ UNCHANGED <<load, snap, cIdReverseLookUp, delivered, up, losses, faults, calm>>

\* LTP_CONTROL_WINDOW_END when something is buffered for the session: confirm and
\* hand the packet to the client, or ask for the missing range.
HandleWindowEnd(n) ==
    LET m == Head(down[n])
        b == icnPacketBuffer[n]
        got == Received(b, n, m.sk)
        S == DOMAIN got
    IN /\ FromSnap(n, "WE")
       /\ S # {}
       /\ IF cIdReverseLookUp[n] /\ allFragmentsReceived(S, m.seq)
          THEN /\ publishWindowEnded(n, m.sk)
               /\ delivered' = [delivered EXCEPT ![n][m.sk] = Append(@, PacketOf(got))]
               /\ icnPacketBuffer' = [icnPacketBuffer EXCEPT ![n] = afterRetrieval(b, n, m.sk)]
          ELSE /\ publishNegativeAcknowledgement(n, m.sk, firstMissingSequence(S, m.seq), lastMissingSequence(S, m.seq))
               /\ UNCHANGED <<delivered, icnPacketBuffer>>
       /\ UNCHANGED <<load, snap, cIdReverseLookUp, arrived, losses, faults, calm>>

\* LTP_CONTROL_WINDOW_END when nothing is buffered: a cNAP that has no fragment at
\* all from the sNAP any more confirms "anyway"; one that does not know the rCID, or
\* only other sessions of it, stays silent.
HandleWindowEndNothing(n) ==
    LET m == Head(down[n])
        b == icnPacketBuffer[n]
    IN /\ FromSnap(n, "WE")
       /\ Received(b, n, m.sk) = NoEntries
       /\ IF b.known /\ n \notin DOMAIN b.nids THEN publishWindowEnded(n, m.sk) ELSE up' = up
       /\ UNCHANGED <<load, snap, cnap, losses, faults, calm>>

\* LTP_CONTROL_WINDOW_UPDATE
HandleWindowUpdate(n) ==
    /\ FromSnap(n, "WU")
    /\ publishWindowUpdated(n, Head(down[n]).sk)
    /\ UNCHANGED <<load, snap, cnap, losses, faults, calm>>

\* LTP_CONTROL_SESSION_END
HandleSessionEnd(n) ==
    /\ FromSnap(n, "SE")
    /\ publishSessionEnded(n, Head(down[n]).sk)
    /\ UNCHANGED <<load, snap, cnap, losses, faults, calm>>

-----------------------------------------------------------------------------
(* Faults: a lost message, and a cNAP that restarts with empty tables.     *)

\* A burst of messages of one channel is lost.
Lose(n) ==
    /\ losses < load.losses
    /\ losses' = losses + 1
    /\ \E k \in 1..load.burst :
          \/ /\ k <= Len(down[n])
             /\ down' = [down EXCEPT ![n] = SubSeq(@, k + 1, Len(@))]
             /\ up' = up
          \/ /\ k <= Len(up[n])
             /\ up' = [up EXCEPT ![n] = SubSeq(@, k + 1, Len(@))]
             /\ down' = down
    /\ UNCHANGED <<load, snap, cnap, faults, calm>>

Restart(n) ==
    /\ faults < load.faults
    /\ faults' = faults + 1
    /\ icnPacketBuffer' = [icnPacketBuffer EXCEPT ![n] = NorCID]
    /\ cIdReverseLookUp' = [cIdReverseLookUp EXCEPT ![n] = FALSE]
    /\ UNCHANGED <<load, snap, delivered, arrived, down, up, losses, calm>>

Publisher(s) == \/ Publish(s) \/ PublishFragment(s) \/ OutOfCredit(s) \/ CreditRestored(s)
                \/ PublishWindowEnd(s) \/ AllConfirmed(s) \/ PublishEndOfSession(s) \/ SessionEnded(s)
Timer(s) == WindowUpdateTimeout(s) \/ WindowEndTimeout(s) \/ SessionEndTimeout(s)
SnapIcn(n) == \/ HandleNack(n) \/ HandleWindowEnded(n) \/ HandleWindowUpdated(n) \/ HandleSessionEnded(n)
CnapIcn(n) == \/ HandleData(n) \/ HandleWindowEnd(n) \/ HandleWindowEndNothing(n)
              \/ HandleWindowUpdate(n) \/ HandleSessionEnd(n)

\* Every session has ended and nothing is under way.
Finished == /\ \A s \in Sk : /\ \/ thread[s].pc = "done"
                                \/ thread[s].pc = "idle" /\ thread[s].pkt > Len(Packets) /\ ~load.ends
                             /\ Quiet(s)
            /\ UNCHANGED vars

\* A step of a thread, a timer or the network.
Progress == \/ \E s \in Sk : Publisher(s) \/ Timer(s) \/ deleteBufferedLtpPacket(s)
            \/ \E n \in Nid : SnapIcn(n) \/ CnapIcn(n)

Next == \/ Progress
        \/ \E n \in Nid : Lose(n) \/ Restart(n) \/ StopForwarding(n) \/ StartForwarding(n)
        \/ Finished

\* As long as a thread can run, a timer expire or a message be handled, one of these
\* happens; no thread, timer or channel is favoured.
Fairness == WF_vars(Progress)

Spec == Init /\ [][Next]_vars /\ Fairness

-----------------------------------------------------------------------------
(* Properties.                                                             *)

Service == INSTANCE LtpService WITH
    published <- [s \in Sk |-> IF thread[s].pc \in {"data", "wu", "poll"}
                               THEN thread[s].pkt ELSE thread[s].pkt - 1],
    received <- delivered,
    broken <- ~calm

\* publish() with _handleControl and retrievePacket implements the service: until a
\* publisher gives up or a timer fires early, each cNAP writes a session's responses
\* to the client whole, in order and at most once, whatever messages are lost and
\* wherever a NACK, a repeated WINDOW_END or a restart falls.
ImplementsService == Service!Spec

\* When publish() returns because every NID confirmed, a NID that got any fragment
\* of the packet has handed the whole packet to its client: the WINDOW_ENDED a cNAP
\* sends "anyway" is only ever wrong about a packet it lost entirely.
ConfirmedMeansDelivered ==
    calm => \A n \in Nid, s \in Sk : \A p \in 1..thread[s].pkt - 1 :
        <<n, s, p>> \in arrived => p \in Range(delivered[n][s])

\* Every call of publish() and publishEndOfSession() returns, so that every session
\* gets all its responses published, unless a cNAP restarted or its forwarding was
\* stopped (the wait for WINDOW_UPDATED has no attempt limit).
PublishReturns ==
    <>(faults > 0 \/ \A s \in load.sks : /\ thread[s].pkt > Len(Packets)
                                         /\ thread[s].pc = IF load.ends THEN "done" ELSE "idle")
=============================================================================
