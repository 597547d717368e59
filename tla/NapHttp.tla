------------------------------ MODULE NapHttp ------------------------------
(***************************************************************************)
(* The HTTP handler of the NAP (apps/nap/namespaces/http.cc), its proxies  *)
(* (proxies/http), its buffer cleaner and the part of the ICN event loop   *)
(* (icn.cc) that drives them.  Client-side NAPs terminate the TCP          *)
(* connections of clients, one TcpServer thread each; the server-side NAP  *)
(* opens a connection to the web server for each (NID, session key), one   *)
(* reading TcpClient thread each.  A session key is the number of the      *)
(* client's socket, a small integer the kernel gives again after close().  *)
(* One FQDN is modelled, with several resources (rCIDs).  LTP appears as   *)
(* the service LtpRequest and LtpResponse establish: requests arrive once, *)
(* the data and the end of one session in order.                           *)
(***************************************************************************)
EXTENDS Naturals, Sequences, FiniteSetsExt

CONSTANTS
    Nap,        \* client-side NAPs
    Conn,       \* TCP connections of clients
    Fd,         \* socket numbers of a client-side NAP
    ServerFd,   \* socket numbers of the server-side NAP
    Resource,   \* resources of the FQDN
    Scripts,    \* environments: what each connection asks for, and which of the events
                \* "leave", "close", "stop", "clean", "refuse" may happen:
                \* [conn : [Conn -> [nap : Nap, asks : Seq(Resource)]], events : SUBSET STRING]
    ENIGMA      \* attempts to form a CMC group (http.cc:385)

None == 0

ASSUME NumbersAreNotNone == None \notin Fd \cup ServerFd

VARIABLES
    script,
    \* client-side NAPs
    cIds,                 \* the FQDN: "unknown", "known" or "forwarding"
    packetBufferRequests, \* the buffered requests, at most one per rCID
    ipEndpointSessions,   \* rCID -> session keys
    socket,               \* Fd -> the connection the descriptor denotes, or None
    tcpServer,            \* the TcpServer thread of each connection
    client,               \* the client's end of each connection
    starts,               \* a START_PUBLISH is on its way
    carried,              \* Fd -> requests sent with this session key (history)
    \* the ICN network
    requests,             \* requests LTP carries
    down,                 \* responses LTP carries, per NAP and server session
    \* server-side NAP
    potentialCmcGroups,   \* rCID -> NIDs whose request is complete
    nIds,                 \* NIDs with START_PUBLISH_iSUB
    tcpClients,           \* TcpClient threads that write a request
    socketFds,            \* NID -> session key -> socket towards the server
    reader,               \* the reading TcpClient thread of each server socket
    reverseLookup,        \* server socket -> rCID
    cmcGroups,            \* rCID -> server socket -> NIDs
    arrived, served       \* requests and groups per NID and rCID (history)

cnapVars == <<cIds, packetBufferRequests, ipEndpointSessions, socket, tcpServer, client, starts, carried>>
snapVars == <<potentialCmcGroups, nIds, tcpClients, socketFds, reader, reverseLookup, cmcGroups, arrived, served>>
httpVars == <<script, cnapVars, requests, down, snapVars>>

napOf(c) == script.conn[c].nap

NoReader == [pc |-> "none", first |-> TRUE, answers |-> <<>>, closed |-> FALSE, writeable |-> FALSE,
             nap |-> None, key |-> None, attempts |-> 0]

HttpInit ==
    /\ script \in Scripts
    /\ cIds = [n \in Nap |-> "unknown"]
    /\ packetBufferRequests = [n \in Nap |-> {}]
    /\ ipEndpointSessions = [n \in Nap |-> [r \in Resource |-> {}]]
    /\ socket = [n \in Nap |-> [f \in Fd |-> None]]
    /\ tcpServer = [c \in Conn |-> [pc |-> "none", fd |-> None, sent |-> 0]]
    /\ client = [c \in Conn |-> [open |-> TRUE, eof |-> FALSE, shut |-> FALSE, seen |-> {}]]
    /\ starts = [n \in Nap |-> FALSE]
    /\ carried = [n \in Nap |-> [f \in Fd |-> 0]]
    /\ requests = {}
    /\ down = [n \in Nap |-> [s \in ServerFd |-> <<>>]]
    /\ potentialCmcGroups = [r \in Resource |-> {}]
    /\ nIds = {}
    /\ tcpClients = {}
    /\ socketFds = [n \in Nap |-> [f \in Fd |-> None]]
    /\ reader = [s \in ServerFd |-> NoReader]
    /\ reverseLookup = [s \in ServerFd |-> None]
    /\ cmcGroups = [r \in Resource |-> [s \in ServerFd |-> {}]]
    /\ arrived = [n \in Nap |-> [r \in Resource |-> 0]]
    /\ served = [n \in Nap |-> [r \in Resource |-> 0]]

----------------------------------------------------------------------------
(* Client-side NAP: the listener and the TcpServer threads. *)

\* HttpProxy::operator(): accept() returns the lowest free number and a thread starts.
Accept(c) ==
    LET n == napOf(c)
        free == {f \in Fd : socket[n][f] = None}
    IN /\ tcpServer[c].pc = "none"
       /\ script.conn[c].asks # <<>>
       /\ free # {}
       /\ socket' = [socket EXCEPT ![n][Min(free)] = c]
       /\ tcpServer' = [tcpServer EXCEPT ![c].pc = "reading", ![c].fd = Min(free)]
       /\ UNCHANGED <<script, cIds, packetBufferRequests, ipEndpointSessions, client, starts,
                      carried, requests, down, snapVars>>

request(c) == [nap |-> napOf(c), key |-> tcpServer[c].fd, conn |-> c,
               resource |-> script.conn[c].asks[tcpServer[c].sent + 1]]

\* _addIpEndpointSession: the session key joins the rCID's list, once.
addIpEndpointSession(m) ==
    ipEndpointSessions' = [ipEndpointSessions EXCEPT ![m.nap][m.resource] = @ \cup {m.key}]

\* _bufferRequest: one entry per rCID; a later request replaces an earlier one.
bufferRequest(m) ==
    packetBufferRequests' = [packetBufferRequests EXCEPT ![m.nap] =
                                {b \in @ : b.resource # m.resource} \cup {m}]

\* Http::handleRequest.  The request is buffered before publish_info for an
\* FQDN seen for the first time, after it for a known one that is not
\* forwarding: the second buffering is a step of its own, BufferLate.
HandleRequest(c) ==
    LET m == request(c)
        n == napOf(c)
    IN /\ tcpServer[c].pc = "reading"
       /\ client[c].open /\ ~client[c].eof
       /\ tcpServer[c].sent < Len(script.conn[c].asks)
       /\ addIpEndpointSession(m)
       /\ carried' = [carried EXCEPT ![n][m.key] = @ + 1]
       /\ \/ /\ cIds[n] = "unknown"
             /\ cIds' = [cIds EXCEPT ![n] = "known"]
             /\ bufferRequest(m)
             /\ starts' = [starts EXCEPT ![n] = TRUE]
             /\ tcpServer' = [tcpServer EXCEPT ![c].sent = @ + 1]
             /\ UNCHANGED requests
          \/ /\ cIds[n] = "known"
             /\ starts' = [starts EXCEPT ![n] = TRUE]
             /\ tcpServer' = [tcpServer EXCEPT ![c].pc = "late"]
             /\ UNCHANGED <<cIds, packetBufferRequests, requests>>
          \/ /\ cIds[n] = "forwarding"
             /\ requests' = requests \cup {m}
             /\ tcpServer' = [tcpServer EXCEPT ![c].pc = "publishing", ![c].sent = @ + 1]
             /\ UNCHANGED <<cIds, packetBufferRequests, starts>>
       /\ UNCHANGED <<script, socket, client, down, snapVars>>

BufferLate(c) ==
    /\ tcpServer[c].pc = "late"
    /\ bufferRequest(request(c))
    /\ tcpServer' = [tcpServer EXCEPT ![c].pc = "reading", ![c].sent = @ + 1]
    /\ UNCHANGED <<script, cIds, ipEndpointSessions, socket, client, starts, carried, requests,
                   down, snapVars>>

\* The thread returns from Lightweight::publish once the request was taken.
Published(c) ==
    /\ tcpServer[c].pc = "publishing"
    /\ \A m \in requests : m.conn # c
    /\ tcpServer' = [tcpServer EXCEPT ![c].pc = "reading"]
    /\ UNCHANGED <<script, cIds, packetBufferRequests, ipEndpointSessions, socket, client, starts,
                   carried, requests, down, snapVars>>

\* The client closes or resets its end.
ClientLeaves(c) ==
    /\ "leave" \in script.events
    /\ client[c].open
    /\ tcpServer[c].pc # "none"
    /\ client' = [client EXCEPT ![c].open = FALSE]
    /\ UNCHANGED <<script, cIds, packetBufferRequests, ipEndpointSessions, socket, tcpServer, starts,
                   carried, requests, down, snapVars>>

\* Http::deleteSessionKey removes the key from every list it is in.
deleteSessionKey(n, f) ==
    ipEndpointSessions' = [ipEndpointSessions EXCEPT ![n] = [r \in Resource |-> @[r] \ {f}]]

\* TcpServer::operator(): read() failed.  The number is shut down for reading,
\* whichever connection it denotes by now, and its session key deleted.
ReadFails(c) ==
    LET n == napOf(c)
        f == tcpServer[c].fd
    IN /\ tcpServer[c].pc = "reading"
       /\ ~client[c].open \/ client[c].eof
       /\ client' = IF socket[n][f] = None THEN client
                    ELSE [client EXCEPT ![socket[n][f]].eof = TRUE]
       /\ deleteSessionKey(n, f)
       /\ tcpServer' = [tcpServer EXCEPT ![c].pc = "lingering"]
       /\ UNCHANGED <<script, cIds, packetBufferRequests, socket, starts, carried, requests, down,
                      snapVars>>

\* TcpServer::operator() after its sleep: the number is closed, whatever it denotes by now.
CloseSocket(c) ==
    /\ tcpServer[c].pc = "lingering"
    /\ socket' = [socket EXCEPT ![napOf(c)][tcpServer[c].fd] = None]
    /\ tcpServer' = [tcpServer EXCEPT ![c].pc = "gone"]
    /\ UNCHANGED <<script, cIds, packetBufferRequests, ipEndpointSessions, client, starts, carried,
                   requests, down, snapVars>>

----------------------------------------------------------------------------
(* Client-side NAP: the ICN event loop and the cleaner. *)

\* Http::publishFromBuffer(cId): every buffered request of the FQDN goes to LTP.
publishFromBuffer(n) ==
    /\ requests' = requests \cup packetBufferRequests[n]
    /\ packetBufferRequests' = [packetBufferRequests EXCEPT ![n] = {}]

\* START_PUBLISH: forwarding(cId, true) and publishFromBuffer(cId).
StartPublish(n) ==
    /\ starts[n]
    /\ starts' = [starts EXCEPT ![n] = FALSE]
    /\ cIds' = [cIds EXCEPT ![n] = "forwarding"]
    /\ publishFromBuffer(n)
    /\ UNCHANGED <<script, ipEndpointSessions, socket, tcpServer, client, carried, down, snapVars>>

\* STOP_PUBLISH or PAUSE_PUBLISH.
StopPublish(n) ==
    /\ "stop" \in script.events
    /\ cIds[n] = "forwarding"
    /\ cIds' = [cIds EXCEPT ![n] = "known"]
    /\ UNCHANGED <<script, packetBufferRequests, ipEndpointSessions, socket, tcpServer, client, starts,
                   carried, requests, down, snapVars>>

\* HttpBufferCleaner::operator(): the entries that are too old are dropped.
CleanBuffer(n) ==
    \E old \in SUBSET packetBufferRequests[n] :
        /\ "clean" \in script.events
        /\ old # {}
        /\ packetBufferRequests' = [packetBufferRequests EXCEPT ![n] = @ \ old]
        /\ UNCHANGED <<script, cIds, ipEndpointSessions, socket, tcpServer, client, starts, carried,
                       requests, down, snapVars>>

\* The connections whose sockets are in the rCID's list.
listed(n, r) == {socket[n][f] : f \in ipEndpointSessions[n][r]} \ {None}

BadSendToEndpoint(n, s) ==
    LET m == Head(down[n][s])
        all == {socket[n][f] : f \in UNION {ipEndpointSessions[n][r] : r \in Resource}} \ {None}
    IN /\ down[n][s] # <<>>
       /\ m.kind = "data"
       /\ client' = [c \in Conn |-> IF c \in all
                                    THEN [client[c] EXCEPT !.seen = @ \cup {m.content}] ELSE client[c]]
       /\ down' = [down EXCEPT ![n][s] = Tail(@)]
       /\ UNCHANGED <<script, cIds, packetBufferRequests, ipEndpointSessions, socket, tcpServer, starts,
                      carried, requests, snapVars>>

\* Http::sendToEndpoint: the packet is written to every socket of the rCID's
\* list.  A socket whose write fails (the client is gone) is closed and leaves
\* this list only; a number that is not open at all only leaves it.  A write to
\* a socket that endSession shut down raises SIGPIPE, which nothing handles:
\* that step is left out (the process ends).
SendToEndpoint(n, s) ==
    LET m == Head(down[n][s])
        to == listed(n, m.resource)
        gone == {c \in to : ~client[c].open}
        failed == {f \in ipEndpointSessions[n][m.resource] : socket[n][f] \in gone \cup {None}}
    IN /\ down[n][s] # <<>>
       /\ m.kind = "data"
       /\ \A c \in to : ~client[c].shut
       /\ client' = [c \in Conn |-> IF c \in to \ gone
                                    THEN [client[c] EXCEPT !.seen = @ \cup {m.content}] ELSE client[c]]
       /\ socket' = [socket EXCEPT ![n] = [f \in Fd |-> IF f \in failed THEN None ELSE @[f]]]
       /\ ipEndpointSessions' = [ipEndpointSessions EXCEPT ![n][m.resource] = @ \ failed]
       /\ down' = [down EXCEPT ![n][s] = Tail(@)]
       /\ UNCHANGED <<script, cIds, packetBufferRequests, tcpServer, starts, carried, requests, snapVars>>

\* Http::endSession: every socket of the rCID is shut down for writing.
EndSession(n, s) ==
    LET m == Head(down[n][s])
    IN /\ down[n][s] # <<>>
       /\ m.kind = "end"
       /\ client' = [c \in Conn |-> IF c \in listed(n, m.resource)
                                    THEN [client[c] EXCEPT !.shut = TRUE] ELSE client[c]]
       /\ down' = [down EXCEPT ![n][s] = Tail(@)]
       /\ UNCHANGED <<script, cIds, packetBufferRequests, ipEndpointSessions, socket, tcpServer, starts,
                      carried, requests, snapVars>>

----------------------------------------------------------------------------
(* Server-side NAP. *)

\* PUBLISHED_DATA_iSUB with the last fragment: LTP has made the NID a potential
\* member of the rCID's group, and a TcpClient thread starts with a copy of the
\* prepared request.
RequestArrives(m) ==
    /\ m \in requests
    /\ requests' = requests \ {m}
    /\ potentialCmcGroups' = [potentialCmcGroups EXCEPT ![m.resource] = @ \cup {m.nap}]
    /\ arrived' = [arrived EXCEPT ![m.nap][m.resource] = @ + 1]
    /\ tcpClients' = tcpClients \cup {[request |-> m, fd |-> None, callRead |-> FALSE]}
    /\ UNCHANGED <<script, cnapVars, down, nIds, socketFds, reader, reverseLookup, cmcGroups, served>>

\* START_PUBLISH_iSUB: Http::forwarding(nodeId, true) for a NID LTP knows.
ForwardToNid(n) ==
    /\ n \notin nIds
    /\ \E r \in Resource : arrived[n][r] > 0
    /\ nIds' = nIds \cup {n}
    /\ UNCHANGED <<script, cnapVars, requests, down, potentialCmcGroups, tcpClients, socketFds, reader,
                   reverseLookup, cmcGroups, arrived, served>>

\* TcpClient::_tcpSocket: reuse the socket of this NID and session key, or
\* connect (which can fail) and enter the new one.
TcpSocket(t) ==
    LET m == t.request
        free == {s \in ServerFd : reader[s].pc = "none"}
        known == socketFds[m.nap][m.key]
    IN /\ t.fd = None
       /\ \/ /\ known # None
             /\ tcpClients' = (tcpClients \ {t}) \cup {[t EXCEPT !.fd = known]}
             /\ UNCHANGED <<socketFds, reader>>
          \/ /\ known = None
             /\ free # {}
             /\ socketFds' = [socketFds EXCEPT ![m.nap][m.key] = Min(free)]
             /\ reader' = [reader EXCEPT ![Min(free)] = [NoReader EXCEPT !.pc = "connected",
                               !.writeable = TRUE, !.nap = m.nap, !.key = m.key]]
             /\ tcpClients' = (tcpClients \ {t}) \cup {[t EXCEPT !.fd = Min(free), !.callRead = TRUE]}
          \/ /\ known = None
             /\ "refuse" \in script.events
             /\ tcpClients' = tcpClients \ {t}
             /\ UNCHANGED <<socketFds, reader>>
       /\ UNCHANGED <<script, cnapVars, requests, down, potentialCmcGroups, nIds, reverseLookup,
                      cmcGroups, arrived, served>>

\* TcpClient::operator() up to the read loop.  _addReverseLookup keeps the rCID
\* of the first request of a socket.  A request for a socket that is not
\* writeable any more, or whose write fails, is dropped.
WriteRequest(t) ==
    LET s == t.fd
        written == reader[s].writeable /\ ~reader[s].closed
    IN /\ s # None
       /\ tcpClients' = tcpClients \ {t}
       /\ \/ /\ written
             /\ reader' = [reader EXCEPT ![s].answers = Append(@, t.request.resource),
                                         ![s].pc = IF t.callRead THEN "read" ELSE @]
             /\ reverseLookup' = IF reverseLookup[s] = None
                                 THEN [reverseLookup EXCEPT ![s] = t.request.resource] ELSE reverseLookup
          \/ /\ ~written
             /\ UNCHANGED <<reader, reverseLookup>>
       /\ UNCHANGED <<script, cnapVars, requests, down, potentialCmcGroups, nIds, socketFds, cmcGroups,
                      arrived, served>>

\* The web server closes the connection; what it has answered can still be read.
ServerCloses(s) ==
    /\ "close" \in script.events
    /\ reader[s].pc # "none"
    /\ ~reader[s].closed
    /\ reader' = [reader EXCEPT ![s].closed = TRUE]
    /\ UNCHANGED <<script, cnapVars, requests, down, potentialCmcGroups, nIds, tcpClients, socketFds,
                   reverseLookup, cmcGroups, arrived, served>>

\* TcpClient::operator(): read() returns (part of) the answer to the next request.
ReadAnswer(s) ==
    /\ reader[s].pc = "read"
    /\ reader[s].answers # <<>>
    /\ reader' = [reader EXCEPT ![s].pc = "forming", ![s].attempts = ENIGMA]
    /\ UNCHANGED <<script, cnapVars, requests, down, potentialCmcGroups, nIds, tcpClients, socketFds,
                   reverseLookup, cmcGroups, arrived, served>>

\* _forwardingEnabled for the NIDs of the potential group.
ready(r) == potentialCmcGroups[r] \cap nIds

\* _getCmcGroup finds the group of this rCID and session, or makes one of the
\* ready NIDs for the first packet of the session (with _createCmcGroup).
cmcGroup(s) ==
    LET r == reverseLookup[s]
    IN IF cmcGroups[r][s] # {} THEN cmcGroups[r][s]
       ELSE IF reader[s].first THEN ready(r) ELSE {}

BadHandleResponse(s) ==
    LET r == reverseLookup[s]
        group == cmcGroup(s)
    IN /\ reader[s].pc = "forming"
       /\ reader[s].attempts # 0
       /\ group # {}
       /\ cmcGroups' = [cmcGroups EXCEPT ![r][s] = group]
       /\ served' = [n \in Nap |-> [served[n] EXCEPT ![r] =
                        IF cmcGroups[r][s] = {} /\ n \in group THEN @ + 1 ELSE @]]
       /\ down' = [n \in Nap |-> IF n \in group
                     THEN [down[n] EXCEPT ![s] = Append(@, [kind |-> "data", resource |-> r,
                                                            content |-> Head(reader[s].answers)])]
                     ELSE down[n]]
       /\ reader' = [reader EXCEPT ![s].pc = "read", ![s].first = FALSE, ![s].answers = Tail(@)]
       /\ UNCHANGED <<script, cnapVars, requests, potentialCmcGroups, nIds, tcpClients, socketFds,
                      reverseLookup, arrived>>

\* Http::handleResponse with a group: its NIDs leave the potential group and the
\* packet is published to them.
HandleResponse(s) ==
    LET r == reverseLookup[s]
        group == cmcGroup(s)
        new == cmcGroups[r][s] = {}
    IN /\ reader[s].pc = "forming"
       /\ reader[s].attempts # 0
       /\ group # {}
       /\ cmcGroups' = [cmcGroups EXCEPT ![r][s] = group]
       /\ potentialCmcGroups' = [potentialCmcGroups EXCEPT ![r] = IF new THEN @ \ group ELSE @]
       /\ served' = [n \in Nap |-> [served[n] EXCEPT ![r] = IF new /\ n \in group THEN @ + 1 ELSE @]]
       /\ down' = [n \in Nap |-> IF n \in group
                     THEN [down[n] EXCEPT ![s] = Append(@, [kind |-> "data", resource |-> r,
                                                            content |-> Head(reader[s].answers)])]
                     ELSE down[n]]
       /\ reader' = [reader EXCEPT ![s].pc = "read", ![s].first = FALSE, ![s].answers = Tail(@)]
       /\ UNCHANGED <<script, cnapVars, requests, nIds, tcpClients, socketFds, reverseLookup, arrived>>

\* Http::handleResponse without a group: another attempt, or give up. The last
\* attempt gives up even when it formed the group.
RetryResponse(s) ==
    LET r == reverseLookup[s]
        group == cmcGroup(s)
    IN /\ reader[s].pc = "forming"
       /\ (group = {} \/ reader[s].attempts = 0)
       /\ cmcGroups' = [cmcGroups EXCEPT ![r][s] = group]
       /\ potentialCmcGroups' = [potentialCmcGroups EXCEPT ![r] = IF cmcGroups[r][s] = {} THEN @ \ group ELSE @]
       /\ reader' = [reader EXCEPT ![s].pc = IF reader[s].attempts = 0 THEN "closing" ELSE @,
                                   ![s].attempts = IF @ = 0 THEN 0 ELSE @ - 1]
       /\ UNCHANGED <<script, cnapVars, requests, down, nIds, tcpClients, socketFds, reverseLookup, arrived,
                      served>>

\* TcpClient::operator(): read() returns 0 or fails; the socket is not writeable any more.
ReadEnds(s) ==
    /\ reader[s].pc = "read"
    /\ reader[s].closed
    /\ reader' = [reader EXCEPT ![s].pc = "closing", ![s].writeable = FALSE]
    /\ UNCHANGED <<script, cnapVars, requests, down, potentialCmcGroups, nIds, tcpClients, socketFds,
                   reverseLookup, cmcGroups, arrived, served>>

\* The end of TcpClient::operator(): closeCmcGroup publishes the end of the
\* session to the group and erases it; the reverse look-up and the socket entry
\* go; the number is closed.
CloseCmcGroup(s) ==
    LET r == reverseLookup[s]
        group == cmcGroups[r][s]
    IN /\ reader[s].pc = "closing"
       /\ down' = [n \in Nap |-> IF n \in group
                     THEN [down[n] EXCEPT ![s] = Append(@, [kind |-> "end", resource |-> r,
                                                            content |-> r])]
                     ELSE down[n]]
       /\ cmcGroups' = [cmcGroups EXCEPT ![r][s] = {}]
       /\ reverseLookup' = [reverseLookup EXCEPT ![s] = None]
       /\ socketFds' = [socketFds EXCEPT ![reader[s].nap][reader[s].key] = None]
       /\ reader' = [reader EXCEPT ![s] = NoReader]
       /\ UNCHANGED <<script, cnapVars, requests, potentialCmcGroups, nIds, tcpClients, arrived, served>>

HttpNext ==
    \/ \E c \in Conn : Accept(c) \/ HandleRequest(c) \/ BufferLate(c) \/ Published(c)
                       \/ ClientLeaves(c) \/ ReadFails(c) \/ CloseSocket(c)
    \/ \E n \in Nap : StartPublish(n) \/ StopPublish(n) \/ CleanBuffer(n) \/ ForwardToNid(n)
    \/ \E n \in Nap, s \in ServerFd : SendToEndpoint(n, s) \/ EndSession(n, s)
    \/ \E m \in requests : RequestArrives(m)
    \/ \E t \in tcpClients : TcpSocket(t) \/ WriteRequest(t)
    \/ \E s \in ServerFd : ServerCloses(s) \/ ReadAnswer(s) \/ HandleResponse(s) \/ RetryResponse(s)
                           \/ ReadEnds(s) \/ CloseCmcGroup(s)

HttpSpec == HttpInit /\ [][HttpNext]_httpVars

----------------------------------------------------------------------------
(* Properties. *)

asked(c) == {script.conn[c].asks[i] : i \in 1..Len(script.conn[c].asks)}

\* As long as no session key has carried a second request (no second request on
\* a connection, no number given again), a client is only written what it asked
\* for: through buffering, CMC groups of several NAPs, write errors and closed
\* connections (http.cc sendToEndpoint, tcpclient.cc _addReverseLookup).
OnlyRequested ==
    (\A n \in Nap, f \in Fd : carried[n][f] <= 1) => \A c \in Conn : client[c].seen \subseteq asked(c)

\* A NAP is put in at most as many CMC groups of a resource as its requests for
\* the resource have arrived: no answer is published to it twice because it
\* stayed a potential member (http.cc _getCmcGroup).
ServedOnce ==
    \A n \in Nap, r \in Resource :
        served[n][r] + (IF n \in potentialCmcGroups[r] THEN 1 ELSE 0) <= arrived[n][r]

\* A client gets the responses to its own requests only, each of them once
\* (handleRequest, handleResponse, sendToEndpoint).
ClientsServed == OnlyRequested /\ ServedOnce
=============================================================================
