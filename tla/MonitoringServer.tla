--------------------------- MODULE MonitoringServer ---------------------------
(***************************************************************************)
(* The monitoring server (apps/monitoring/server): it follows the scopes   *)
(* the agents publish and subscribes below them, to the data points its    *)
(* configuration and the files of the visualisation ask for; what arrives  *)
(* goes on a stack, and a thread of its own takes it from there into the   *)
(* tables of the database.  The tables are external: an INSERT adds a row, *)
(* an UPDATE changes the rows its condition selects.                       *)
(***************************************************************************)
LOCAL INSTANCE Naturals
LOCAL INSTANCE Sequences
LOCAL INSTANCE SequencesExt
LOCAL INSTANCE FiniteSets

CONSTANTS DataPoints    \* mooseConfig.dataPoints, the points that are set

VARIABLES subscribed,   \* scopes and items the server is subscribed to
          notified,     \* scopes the rendezvous has told it of
          ownScopes,    \* Scopes::_scopesMap, those in the state published
          asked,        \* the items whose subscription state is set there
          files,        \* files of the visualisation: role, what, node, time
          stack,        \* MessageStack::_messageStack
          nodes,        \* table nodes
          links,        \* table links
          values        \* table nodes_values

serverVars == <<subscribed, notified, ownScopes, asked, files, stack, nodes,
                links, values>>

Root == <<"MONITORING">>

ServerInit(inDirectory) ==
    /\ subscribed = {Root}
    /\ notified = {}
    /\ ownScopes = {Root}
    /\ asked = {}
    /\ files = inDirectory
    /\ stack = <<>>
    /\ nodes = {}
    /\ links = <<>>
    /\ values = <<>>

-----------------------------------------------------------------------------
(* The identifiers: CIdAnalyser.                                           *)

nodesScope(id) == id[2] = "NODES"

linksScope(id) == id[2] = "LINKS"

primitive(id) ==
    CASE Last(id) = "HTTP_REQUESTS"  -> "HTTP_REQUESTS"
      [] Last(id) = "NAME"           -> "ADD_NODE"
      [] Last(id) = "SOURCE_NODE_ID" -> "ADD_LINK"
      [] Last(id) = "CMC_GROUP_SIZE" -> "CMC_GROUP_SIZE"
      [] Last(id) = "LATENCY"        -> "LATENCY"
      [] OTHER                       -> "UNKNOWN"

\* main(): any statistic in the configuration sets dataPoints.statistics.
statistics == DataPoints \intersect {"CMC_GROUP_SIZE", "LATENCY"} # {}

topology == "topology" \in DataPoints

\* SCOPE_PUBLISHED: what the server subscribes to below scope id.
below(id) ==
    (IF statistics /\ nodesScope(id)
     THEN IF Len(id) > 3
          THEN {Append(id, i) : i \in IF id[3] \in {"NAP", "GW"}
                                      THEN DataPoints \ {"topology"} ELSE {}}
          ELSE {id}
     ELSE IF topology /\ linksScope(id) THEN {id} ELSE {})
    \union
    (IF topology /\ nodesScope(id)
     THEN IF Len(id) < 4 THEN {id} ELSE {Append(id, "NAME")}
     ELSE {})

ScopePublished(id) ==
    /\ id \notin notified /\ Front(id) \in subscribed
    /\ notified' = notified \union {id}
    /\ ownScopes' = ownScopes \union {id}
    /\ subscribed' = subscribed \union below(id)
    /\ UNCHANGED <<asked, files, stack, nodes, links, values>>

\* FilesystemChecker::_attribute(): the item an attribute stands for.
_attribute(what) ==
    CASE what = "HTTP_REQUESTS"                 -> "HTTP_REQUESTS"
      [] what = "HTTP_REQ_RES_RATIO"            -> "CMC_GROUP_SIZE"
      [] what = "STATE"                         -> "STATE"
      [] what = "NAME"                          -> "NAME"
      [] what = "NETWORK_LATENCY"               -> "LATENCY"
      [] OTHER                                  -> "UNKNOWN"

\* FilesystemChecker::operator(): a file asks for a data point of a node, the
\* next one for the same data point ends the subscription.
CheckFile(f) ==
    LET cid    == <<"MONITORING", "NODES", f[1], f[3], _attribute(f[2])>>
        scopes == {SubSeq(cid, 1, k) : k \in 1..5}
    IN /\ f \in files
       /\ files' = files \ {f}
       /\ ownScopes' = ownScopes \union scopes
       /\ IF cid \in asked
          THEN asked' = asked \ {cid} /\ subscribed' = subscribed \ {cid}
          ELSE asked' = asked \union {cid} /\ subscribed' = subscribed \union {cid}
       /\ UNCHANGED <<notified, stack, nodes, links, values>>

\* MessageStack::write(), for PUBLISHED_DATA.
Write(job) ==
    /\ stack' = Append(stack, job)
    /\ UNCHANGED <<subscribed, notified, ownScopes, asked, files, nodes, links, values>>

-----------------------------------------------------------------------------
(* MySqlConnector::_send().                                                *)

EndPoint == {"UE", "SERVER"}

All == {"GW", "FN", "NAP", "RV", "TM"}

\* An element is the set of its roles.  Whether a role can be added to it:
\* a gateway is not also a NAP, and a node that only has the role of a
\* gateway, a rendezvous or a topology manager first has to become a
\* forwarding node.
combines(element, role) ==
    /\ role \in All \ element
    /\ element \in {{"GW"}, {"RV"}, {"TM"}} => role = "FN"
    /\ ~({"NAP", "GW"} \subseteq element \union {role})

\* FN+TM+RV has no new type: the variable that holds it stays uninitialised.
noType(element) == element = {"FN", "TM", "RV"}

elementTypes(element, role) ==
    IF noType(element) THEN SUBSET All
    ELSE IF combines(element, role) THEN {element \union {"FN", role}} ELSE {}

\* A row takes a further name unless it is the only one it has.
named(names, name) == IF names = <<name>> THEN names ELSE Append(names, name)

\* PRIMITIVE_TYPE_ADD_NODE.  An end point is kept by its name; for any other
\* role the UPDATE selects its rows by the node's identifier alone.
node(id, role, name) ==
    LET rows == {r \in nodes : r.id = id /\ r.element \intersect EndPoint = {}} IN
    IF role \in EndPoint
    THEN nodes' = IF \E r \in nodes : r.name = <<name>>
                                      /\ r.element \intersect EndPoint # {}
                  THEN nodes
                  ELSE nodes \union {[id |-> id, name |-> <<name>>,
                                      element |-> {role}]}
    ELSE IF rows = {}
    THEN nodes' = nodes \union {[id |-> id, name |-> <<name>>,
                                 element |-> {role}]}
    ELSE \E old \in rows :
           IF elementTypes(old.element, role) = {} THEN nodes' = nodes
           ELSE \E new \in elementTypes(old.element, role) :
                  nodes' = {IF r.id = id
                            THEN [id |-> id, name |-> named(old.name, name),
                                  element |-> new]
                            ELSE r : r \in nodes}

\* The value in the data of a statistic.
valueOf(job) ==
    IF primitive(job.path) = "CMC_GROUP_SIZE" THEN job.data[1] ELSE job.data[2]

\* MessageStack::readNext() and _send(): the newest message first.  Nothing is
\* stored of a message whose item primitive() does not know.
Store ==
    /\ stack # <<>>
    /\ stack' = Front(stack)
    /\ LET job == Last(stack)
           p   == primitive(job.path)
       IN /\ links' = IF p # "ADD_LINK" THEN links
                      ELSE Append(links, [link |-> job.path[3],
                                          src |-> job.data[1],
                                          dst |-> job.path[4],
                                          tech |-> job.path[5], n |-> job.n])
          /\ IF p = "ADD_NODE" THEN node(job.path[4], job.path[3], job.data[1])
                               ELSE UNCHANGED nodes
          /\ values' = IF p \notin {"CMC_GROUP_SIZE", "HTTP_REQUESTS", "LATENCY"}
                       THEN values
                       ELSE Append(values, [node |-> job.path[4], attribute |-> p,
                                            value |-> valueOf(job), n |-> job.n])
    /\ UNCHANGED <<subscribed, notified, ownScopes, asked, files>>

\* What the rendezvous answers for an item.
wanted(item) == item \in subscribed \/ Front(item) \in subscribed
=============================================================================
