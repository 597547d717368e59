-------------------------------- MODULE Moly --------------------------------
(***************************************************************************)
(* MOLY, the monitoring library (lib/moly): an application on a node       *)
(* announces itself to the node's monitoring agent, waits for the trigger  *)
(* that says the monitoring server is up, and then reports data points to  *)
(* the agent as netlink messages.  The agent's bootstrap thread is the     *)
(* other end of the announcement.  A packet is the sequence of the fields  *)
(* the primitive's constructor copies, in the order in which it copies     *)
(* them; a name and its length are one field.                              *)
(***************************************************************************)
LOCAL INSTANCE Naturals
LOCAL INSTANCE Sequences
LOCAL INSTANCE SequencesExt
LOCAL INSTANCE TLC

CONSTANTS App,       \* applications of one node that report
          HASH       \* modulus of the hash of a link identifier (2^32)

VARIABLES appPc,         \* where an application is in startReporting()
          appSocket,     \* what waits at its bootstrap socket
          agentSocket,   \* what waits at the agent's bootstrap socket
          agentUp,       \* the agent has bound its sockets
          applications,  \* Agent::_applications: told to report, by PID
          serverUp,      \* bootstrapApplications()'s monitoringServerUp
          nlh,           \* the type and PID in the header it switches on
          ownBuffer,     \* recvmsg() still fills that header
          reports        \* what waits at the agent's listener socket

molyVars == <<appPc, appSocket, agentSocket, agentUp, applications, serverUp,
              nlh, ownBuffer, reports>>

-----------------------------------------------------------------------------
(* The primitives: what is composed, and how it is read back.              *)

hashLinkId(id) == FoldLeft(LAMBDA h, c : ((h * 31) + c) % HASH, 0, id)

AddLink(c) == <<c.name, hashLinkId(c.link), c.src, c.dst, c.tech>>

addLinkOf(p) == [name |-> p[1], link |-> p[2], src |-> p[3], dst |-> p[4],
                 tech |-> p[5]]

AddNode(c) == <<c.name, c.node, c.role>>

addNodeOf(p) == [name |-> p[1], node |-> p[2], role |-> p[3]]

AddNodeType(c) == <<c.name, c.role>>

addNodeTypeOf(p) == [name |-> p[1], role |-> p[2]]

CmcGroupSize(c) == <<c.size>>

cmcGroupSizeOf(p) == [size |-> p[1]]

HttpRequestsPerFqdn(c) == <<c.fqdn, c.requests>>

httpRequestsPerFqdnOf(p) == [fqdn |-> p[1], requests |-> p[2]]

LinkState(c) == <<c.link, c.dst, c.tech, c.state>>

linkStateOf(p) == [link |-> p[1], dst |-> p[2], tech |-> p[3], state |-> p[4]]

NetworkLatencyPerFqdn(c) == <<c.fqdn, c.latency>>

networkLatencyPerFqdnOf(p) == [fqdn |-> p[1], latency |-> p[2]]

NodeState(c) == <<c.role, c.node, c.state>>

nodeStateOf(p) == [role |-> p[1], node |-> p[2], state |-> p[3]]

\* Application::addLink() to nodeState(): the message of a call.
message(c) ==
    [type |-> c.type,
     data |-> CASE c.type = "ADD_LINK"      -> AddLink(c)
                [] c.type = "ADD_NODE"      -> AddNode(c)
                [] c.type = "ADD_NODE_TYPE" -> AddNodeType(c)
                [] c.type = "CMC_GROUP_SIZE" -> CmcGroupSize(c)
                [] c.type = "HTTP_REQUESTS" -> HttpRequestsPerFqdn(c)
                [] c.type = "LINK_STATE"    -> LinkState(c)
                [] c.type = "LATENCY"       -> NetworkLatencyPerFqdn(c)
                [] c.type = "NODE_STATE"    -> NodeState(c)]

-----------------------------------------------------------------------------
MolyInit(run) ==
    /\ appPc = [a \in App |-> IF a \in run THEN "connect" ELSE "off"]
    /\ appSocket = [a \in App |-> <<>>]
    /\ agentSocket = <<>>
    /\ agentUp = FALSE
    /\ applications = <<>>
    /\ serverUp = FALSE
    /\ nlh = [type |-> "none", pid |-> "none"]
    /\ ownBuffer = TRUE
    /\ reports = <<>>

\* Agent::initialiseListener() and the start of its bootstrap thread.
initialiseListener ==
    /\ ~agentUp
    /\ agentUp' = TRUE
    /\ UNCHANGED <<appPc, appSocket, agentSocket, applications, serverUp, nlh,
                   ownBuffer, reports>>

\* Application::startReporting(), to its first sendmsg(): it is repeated
\* until the agent's socket is there.
SendPid(a) ==
    /\ appPc[a] = "connect" /\ agentUp
    /\ agentSocket' = Append(agentSocket, [type |-> "MY_PID", pid |-> a])
    /\ appPc' = [appPc EXCEPT ![a] = "wait"]
    /\ UNCHANGED <<appSocket, agentUp, applications, serverUp, nlh, ownBuffer,
                   reports>>

\* The rest of startReporting(): it waits for the trigger.
AwaitTrigger(a) ==
    /\ appPc[a] = "wait" /\ appSocket[a] # <<>>
    /\ appSocket' = [appSocket EXCEPT ![a] = Tail(@)]
    /\ appPc' = IF Head(appSocket[a]) = "START_REPORTING"
                THEN [appPc EXCEPT ![a] = "report"] ELSE appPc
    /\ UNCHANGED <<agentSocket, agentUp, applications, serverUp, nlh,
                   ownBuffer, reports>>

\* Application::_send(); the result says whether the agent took it.
sendReport(a, c) ==
    /\ appPc[a] = "report"
    /\ reports' = IF agentUp THEN Append(reports, message(c)) ELSE reports
    /\ UNCHANGED <<appPc, appSocket, agentSocket, agentUp, applications,
                   serverUp, nlh, ownBuffer>>

\* BOOTSTRAP_MY_PID: the application is listed, and told to report at once
\* when the server's trigger has come before.
announce(a) ==
    /\ applications' = (a :> (serverUp \/ (a \in DOMAIN applications
                                           /\ applications[a])))
                       @@ applications
    /\ appSocket' = [appSocket EXCEPT ![a] =
                       @ \o (IF serverUp THEN <<"OK", "START_REPORTING">>
                             ELSE <<"OK">>)]
    /\ UNCHANGED <<serverUp, ownBuffer>>

\* BOOTSTRAP_SERVER_UP: the applications that wait are told to report.  To do
\* so the thread points its I/O vector at a header of its own, and leaves it
\* there: what is received next no longer reaches nlh.
trigger ==
    LET waiting == {a \in DOMAIN applications : ~applications[a]} IN
    /\ serverUp' = TRUE
    /\ applications' = [a \in DOMAIN applications |-> TRUE]
    /\ appSocket' = [a \in App |-> IF a \in waiting
                                   THEN Append(appSocket[a], "START_REPORTING")
                                   ELSE appSocket[a]]
    /\ ownBuffer' = (ownBuffer /\ waiting = {})

\* bootstrapApplications(): one turn of the thread's loop.
bootstrapApplications ==
    /\ agentUp /\ agentSocket # <<>>
    /\ agentSocket' = Tail(agentSocket)
    /\ nlh' = IF ownBuffer THEN Head(agentSocket) ELSE nlh
    /\ \/ nlh'.type = "MY_PID" /\ announce(nlh'.pid)
       \/ nlh'.type = "SERVER_UP" /\ trigger
    /\ UNCHANGED <<appPc, agentUp, reports>>

\* The event handler of the agent passes the server's trigger on.
passTrigger ==
    /\ agentSocket' = Append(agentSocket, [type |-> "SERVER_UP", pid |-> "none"])
    /\ UNCHANGED <<appPc, appSocket, agentUp, applications, serverUp, nlh,
                   ownBuffer, reports>>

BootstrapNext ==
    \/ initialiseListener
    \/ bootstrapApplications
    \/ \E a \in App : SendPid(a) \/ AwaitTrigger(a)
=============================================================================
