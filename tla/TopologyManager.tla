--------------------------- MODULE TopologyManager ---------------------------
(***************************************************************************)
(* The topology manager (TM): it keeps the graph of the network, computes  *)
(* forwarding identifiers (FIDs) for the rendezvous point (RV), and        *)
(* maintains three FIDs for every node: to it from the TM, from it to the  *)
(* RV and from it to the TM.  Link monitors report failed and restored     *)
(* links; the TM updates its graph, repairs the FIDs that are affected and *)
(* sends them to the nodes.                                                *)
(*                                                                         *)
(* One thread handles one event at a time, so one message is one action.   *)
(* out is what the last one made the TM send.  told is history: what the   *)
(* messages that arrived have told each node about itself, on a network    *)
(* whose links are those of the graph.                                     *)
(***************************************************************************)
EXTENDS Naturals, Sequences, FiniteSets

CONSTANTS
    Node,          \* vertices; labels have the same order
    Bit,           \* the bits of a FID
    LID,           \* the link identifier of each edge of the topology file
    iLID,          \* the internal link identifier of each node
    TM, RV,        \* the nodes with the TM (and the RM), and with the RV
    Conf,          \* the ways the TM may be started
    Tie,           \* the ways igraph may break ties
    shortestPath,  \* igraph_get_shortest_paths()
    Reports,       \* the link-state notifications that may arrive
    Requests       \* the requests of rendezvous points that may arrive

FID == SUBSET Bit
Edge == DOMAIN LID

\* Links fail and come back in both directions at once.
Graph == {G \in SUBSET Edge : \A e \in G : <<e[2], e[1]>> \in G}

\* Sequences of nodes without repetition: shortest paths are among them.
Injective(p) == \A i, j \in DOMAIN p : p[i] = p[j] => i = j
Walk == UNION {{p : p \in {q \in [1..k -> Node] : Injective(q)}} :
                  k \in 1..Cardinality(Node)}

\* Walk p leads from a to b in graph G.
leads(p, G, a, b) ==
    /\ p[1] = a /\ p[Len(p)] = b
    /\ \A i \in 1..(Len(p) - 1) : <<p[i], p[i + 1]>> \in G

Routes(G, a, b) == {p \in Walk : leads(p, G, a, b)}
Shortest(G, a, b) ==
    {p \in Routes(G, a, b) : \A q \in Routes(G, a, b) : Len(p) <= Len(q)}

\* pm: path management, rs: resilience through the resiliency manager (RM);
\* uc: LIDs of failed links are sent to each node instead of to all at once.
\* Without pm and rs link-state notifications are not understood.
Configuration == {c \in [pm: BOOLEAN, rs: BOOLEAN, uc: BOOLEAN] : c.pm # c.rs}

Report == [remove: BOOLEAN, bidirectional: BOOLEAN, publisher: Node, affected: Node]

RequestType == {"MATCH_PUB_SUBS", "UPDATE_FID", "MATCH_PUB_iSUBS", "SCOPE"}
Request == [type: RequestType, unicast: BOOLEAN, pubs: SUBSET Node, subs: SUBSET Node]

ASSUME TopologyAssumption ==
    /\ Node \subseteq Nat /\ IsFiniteSet(Node) /\ TM \in Node /\ RV \in Node
    /\ Edge \subseteq Node \X Node
    /\ LID \in [Edge -> FID \ {{}}] /\ iLID \in [Node -> FID \ {{}}]
    /\ \A a, b \in Node : <<a, b>> \in Edge => <<b, a>> \in Edge /\ a # b

ASSUME InputAssumption ==
    /\ Conf \subseteq Configuration
    /\ Reports \subseteq {r \in Report : <<r.affected, r.publisher>> \in Edge}
    /\ Requests \subseteq Request
    /\ \A r \in Requests : /\ r.subs # {}
                           /\ r.type # "SCOPE" => r.pubs # {}
                           /\ r.type = "MATCH_PUB_iSUBS" => r.unicast
                           /\ r.unicast => Cardinality(r.pubs) <= 1

\* What the TM relies on: igraph finds a shortest path, or none if there is none.
ASSUME IgraphAssumption ==
    /\ shortestPath \in [Tie -> [Graph -> [Node -> [Node -> Walk \cup {<<>>}]]]]
    /\ \A t \in Tie, G \in Graph, a, b \in Node :
          shortestPath[t][G][a][b] \in IF Routes(G, a, b) = {} THEN {<<>>}
                                       ELSE Shortest(G, a, b)

VARIABLES
    conf,       \* how the TM was started
    edge_LID,   \* the LIDs of the edges of the graph
    freedLIDs,  \* the LIDs of the edges that failed
    TM_to_nodeFID, RVFID, TMFID,  \* the FIDs of each node
    fault,      \* undefined behaviour or an exception nobody catches
    out,        \* what the last message made the TM send
    told        \* history: the RVFID and TMFID each node was last told

vars == <<conf, edge_LID, freedLIDs, TM_to_nodeFID, RVFID, TMFID, fault, out, told>>

-----------------------------------------------------------------------------
(***************************************************************************)
(* Forwarding identifiers, in a graph given by the LIDs L of its edges.    *)
(***************************************************************************)
PathFID(p, L) ==
    (UNION {L[<<p[i], p[i + 1]>>] : i \in 1..(Len(p) - 1)}) \cup iLID[p[Len(p)]]

calculateFID(t, L, a, b) ==
    LET p == shortestPath[t][DOMAIN L][a][b]
    IN  IF p = <<>> THEN {} ELSE PathFID(p, L)

\* The packets that node a sends with this FID get to b.
arrives(fid, L, a, b) ==
    \E p \in Walk : leads(p, DOMAIN L, a, b) /\ PathFID(p, L) \subseteq fid

\* Wrong on purpose (as are all operators named Bad...): the FID is just the LID.
BadAffectedBy(fid, F) == \E e \in DOMAIN F : F[e] = fid

\* Some freed LID is in the FID.
affectedBy(fid, F) == \E e \in DOMAIN F : F[e] \subseteq fid

Nothing == [updates |-> {}, failed |-> {}, answers |-> {}, scopes |-> {},
            rm |-> {}, request |-> <<>>]

Init ==
    /\ conf \in Conf
    /\ edge_LID = LID
    /\ freedLIDs = [e \in {} |-> {}]
    /\ \E t \in Tie :
         /\ TM_to_nodeFID = [n \in Node |-> calculateFID(t, LID, TM, n)]
         /\ RVFID = [n \in Node |-> calculateFID(t, LID, n, RV)]
         /\ TMFID = [n \in Node |-> calculateFID(t, LID, n, TM)]
    /\ fault = FALSE
    /\ out = Nothing
    /\ told = [n \in Node |-> [rv |-> RVFID[n], tm |-> TMFID[n]]]

-----------------------------------------------------------------------------
(***************************************************************************)
(* A link fails or is restored (updateGraph() and the two handlers of link *)
(* state notifications).                                                   *)
(***************************************************************************)
Both(r) == {<<r.affected, r.publisher>>, <<r.publisher, r.affected>>}
exists(r) == <<r.affected, r.publisher>> \in DOMAIN edge_LID

withoutLink(r) == [e \in DOMAIN edge_LID \ Both(r) |-> edge_LID[e]]
freedWith(r) == [e \in DOMAIN freedLIDs \cup Both(r) |->
                   IF e \in DOMAIN freedLIDs THEN freedLIDs[e] ELSE edge_LID[e]]
withLink(r) == [e \in DOMAIN edge_LID \cup Both(r) |->
                  IF e \in DOMAIN edge_LID THEN edge_LID[e] ELSE freedLIDs[e]]
BadFreedWithout(r) == freedLIDs \* nothing is erased

freedWithout(r) == [e \in DOMAIN freedLIDs \ Both(r) |-> freedLIDs[e]]

\* New FIDs are sent to the nodes they are for, over their own new FIDs.
Update(type, n, via, fid) == [type |-> type, to |-> n, via |-> via, fid |-> fid]

BadUpdates(newRV, newTM, to) == \* over the FID from before
    {Update("UPDATE_RVFID", n, TM_to_nodeFID[n], RVFID'[n]) : n \in newRV}
      \cup {Update("UPDATE_TMFID", n, TM_to_nodeFID[n], TMFID'[n]) : n \in newTM}

Updates(newRV, newTM, to) ==
    {Update("UPDATE_RVFID", n, to[n], RVFID'[n]) : n \in newRV}
      \cup {Update("UPDATE_TMFID", n, to[n], TMFID'[n]) : n \in newTM}

toldBy(updates, L) ==
    [n \in Node |->
       LET got(type) == {m \in updates : /\ m.type = type /\ m.to = n
                                         /\ arrives(m.via, L, TM, n)}
       IN  [rv |-> IF got("UPDATE_RVFID") = {} THEN told[n].rv ELSE RVFID'[n],
            tm |-> IF got("UPDATE_TMFID") = {} THEN told[n].tm ELSE TMFID'[n]]]

\* The order of edges and of pairs of nodes.
notAfter(d, e) == d[1] < e[1] \/ (d[1] = e[1] /\ d[2] <= e[2])

BadFailureMessages(F, old, new) == \* over the FIDs from before
    {[lid |-> F[e], via |-> UNION {old[n] : n \in Node}] : e \in DOMAIN F}

\* What is sent about the freed LIDs F when the FIDs to the nodes change from
\* old to new.  In unicast mode each LID is sent as it is checked, in the
\* order of the edges, so the FID used may be one that is replaced later.
failureMessages(F, old, new) ==
    IF conf.uc
    THEN UNION {{[lid |-> F[e],
                  via |-> IF \E d \in DOMAIN F : notAfter(d, e) /\ F[d] \subseteq old[n]
                          THEN new[n] ELSE old[n]] : e \in DOMAIN F} : n \in Node}
    ELSE {[lid |-> F[e], via |-> UNION {new[n] : n \in Node}] : e \in DOMAIN F}

\* FIDs that contain a freed LID are computed again; a node that the TM has
\* no path to is taken to have none either.
removeLink(t, r) ==
    LET L == withoutLink(r)
        F == freedWith(r)
        to == [n \in Node |-> IF affectedBy(TM_to_nodeFID[n], F)
                              THEN calculateFID(t, L, TM, n) ELSE TM_to_nodeFID[n]]
        near == {n \in Node : to[n] # {}}
        newRV == {n \in near : affectedBy(RVFID[n], F)}
        newTM == {n \in near : affectedBy(TMFID[n], F)}
        updates == Updates(newRV, newTM, to)
    IN  /\ r.remove /\ exists(r)
        /\ edge_LID' = L
        /\ freedLIDs' = F
        /\ TM_to_nodeFID' = to
        /\ RVFID' = [n \in Node |-> IF n \in newRV THEN calculateFID(t, L, n, RV)
                                    ELSE IF n \in near THEN RVFID[n] ELSE {}]
        /\ TMFID' = [n \in Node |-> IF n \in newTM THEN calculateFID(t, L, n, TM)
                                    ELSE IF n \in near THEN TMFID[n] ELSE {}]
        /\ out' = [Nothing EXCEPT
                     !.updates = updates,
                     !.failed = IF conf.pm THEN failureMessages(F, TM_to_nodeFID, to)
                                           ELSE {},
                     !.rm = IF conf.rs THEN {Both(r)} ELSE {}]
        /\ told' = toldBy(updates, L)

BadReconnected(t, L) == \* looks at the graph without the link
    {n \in Node : TM_to_nodeFID[n] = {} /\ calculateFID(t, edge_LID, TM, n) # {}}

reconnected(t, L) ==
    {n \in Node : TM_to_nodeFID[n] = {} /\ calculateFID(t, L, TM, n) # {}}

\* Only nodes that the TM had no path to get new FIDs.
addLink(t, r) ==
    LET L == withLink(r)
        back == reconnected(t, L)
        to == [n \in Node |-> IF n \in back THEN calculateFID(t, L, TM, n)
                                            ELSE TM_to_nodeFID[n]]
        updates == Updates(back, back, to)
    IN  /\ ~ r.remove /\ ~ exists(r)
        /\ edge_LID' = L
        /\ freedLIDs' = freedWithout(r)
        /\ TM_to_nodeFID' = to
        /\ RVFID' = [n \in Node |-> IF n \in back THEN calculateFID(t, L, n, RV)
                                                  ELSE RVFID[n]]
        /\ TMFID' = [n \in Node |-> IF n \in back THEN calculateFID(t, L, n, TM)
                                                  ELSE TMFID[n]]
        /\ out' = [Nothing EXCEPT !.updates = updates]
        /\ told' = toldBy(updates, L)

\* The label of the affected node is taken from the message as a C string,
\* which ends at the second byte unless the change is bidirectional: then the
\* constructor of string throws.
handleLinkStateNotification(r) ==
    /\ \/ /\ r.bidirectional
          /\ \E t \in Tie : removeLink(t, r) \/ addLink(t, r)
          /\ UNCHANGED fault
       \/ /\ r.bidirectional
          /\ r.remove # exists(r)
          /\ out' = Nothing
          /\ UNCHANGED <<edge_LID, freedLIDs, TM_to_nodeFID, RVFID, TMFID, fault, told>>
       \/ /\ ~ r.bidirectional
          /\ fault' = TRUE
          /\ out' = Nothing
          /\ UNCHANGED <<edge_LID, freedLIDs, TM_to_nodeFID, RVFID, TMFID, told>>
    /\ UNCHANGED conf

-----------------------------------------------------------------------------
(***************************************************************************)
(* Requests of rendezvous points.                                          *)
(***************************************************************************)
inOrder(S) == CHOOSE s \in [1..Cardinality(S) -> S] :
                 \A i, j \in DOMAIN s : i < j => s[i] < s[j]

path(t, a, b) == shortestPath[t][DOMAIN edge_LID][a][b]

\* The first of the nearest: pairs S of a source and a destination.
nearer(t, x, y) ==
    LET px == path(t, x[1], x[2])
        py == path(t, y[1], y[2])
    IN  Len(px) < Len(py) \/ (Len(px) = Len(py) /\ notAfter(x, y))
connected(t, S) == {x \in S : path(t, x[1], x[2]) # <<>>}
nearest(t, S) == CHOOSE x \in connected(t, S) :
                    \A y \in connected(t, S) : nearer(t, x, y)

BadPut(fids, best, fid, replace) == \* the last subscriber only
    [p \in DOMAIN fids \cup best |-> IF p \in best THEN fid ELSE fids[p]]

put(fids, best, fid, replace) ==
    [p \in DOMAIN fids \cup best |->
       IF p \notin best THEN fids[p]
       ELSE IF replace \/ p \notin DOMAIN fids THEN fid ELSE fids[p] \cup fid]

\* calculateFID() for sets: each subscriber is served by the nearest publisher.
\* If none has a path to the subscriber, the publisher and the FID are still
\* those of the subscriber before, and replace what that publisher had; the
\* first subscriber has none before it, which is undefined (fault).
NoFIDs == [p \in {} |-> {}]
serve(t, pubs, s, done) ==
    LET S == pubs \X {s}
        x == nearest(t, S)
        best == IF connected(t, S) = {} THEN done.best ELSE {x[1]}
        fid == IF connected(t, S) = {} THEN done.fid
                                       ELSE PathFID(path(t, x[1], s), edge_LID)
        way == IF connected(t, S) = {} THEN done.way ELSE {path(t, x[1], s)}
    IN  [best |-> best, fid |-> fid, way |-> way,
         ways |-> done.ways \cup way,
         fids |-> put(done.fids, best, fid, connected(t, S) = {})]

multicast(t, pubs, subs) ==
    LET order == inOrder(subs)
        after[i \in 0..Len(order)] ==
            IF i = 0 THEN [best |-> {}, fid |-> {}, way |-> {}, ways |-> {}, fids |-> NoFIDs]
                     ELSE serve(t, pubs, order[i], after[i - 1])
    IN  after[Len(order)]

\* UcalculateFID(): the nearest subscriber is served, if any has a path.
unicast(t, pub, subs) ==
    LET S == {pub} \X subs
        x == nearest(t, S)
    IN  IF connected(t, S) = {} THEN [way |-> {}, fids |-> NoFIDs]
        ELSE [way |-> {path(t, pub, x[2])},
              fids |-> [p \in {pub} |-> PathFID(path(t, pub, x[2]), edge_LID)]]

Answer(p, type, fid) == [to |-> p, type |-> type, via |-> TM_to_nodeFID[p], fid |-> fid]
answerType(r) == IF r.type = "UPDATE_FID" THEN "UPDATE_FID" ELSE "START_PUBLISH"
Started(r, fids) == {Answer(p, answerType(r), fids[p]) : p \in DOMAIN fids}

handleMulticastPathRequest(t, r) ==
    LET m == multicast(t, r.pubs, r.subs)
        idle == r.pubs \ DOMAIN m.fids
    IN  /\ ~ r.unicast
        /\ \/ /\ r.type # "SCOPE"
              /\ fault' = (connected(t, r.pubs \X {inOrder(r.subs)[1]}) = {})
              /\ out' = [Nothing EXCEPT
                           !.request = <<r>>,
                           !.answers = Started(r, m.fids)
                                  \cup {Answer(p, "STOP_PUBLISH", {}) : p \in idle},
                           !.rm = IF conf.rs THEN {<<m.ways, idle>>} ELSE {}]
           \/ /\ r.type = "SCOPE"
              /\ out' = [Nothing EXCEPT !.scopes = {Answer(n, r.type, {}) : n \in r.subs}]
              /\ UNCHANGED fault

\* The alternatives sent to the RM are those before the subscriber that is
\* served.  Two or more subscribers of a scope are read from the wrong place.
handleUnicastPathRequest(t, r) ==
    /\ r.unicast
    /\ \/ \E p \in r.pubs :
            LET u == unicast(t, p, r.subs)
                served == UNION {{w[Len(w)]} : w \in u.way}
                before == {s \in r.subs : \A d \in served : s < d}
            IN  /\ r.type \in {"MATCH_PUB_SUBS", "UPDATE_FID"}
                /\ out' = [Nothing EXCEPT
                             !.request = <<r>>,
                             !.answers = Started(r, u.fids),
                             !.rm = IF conf.rs /\ u.way # {} THEN {<<u.way, before>>}
                                                             ELSE {}]
                /\ UNCHANGED fault
       \/ \E p \in r.pubs :
            /\ r.type = "MATCH_PUB_iSUBS"
            /\ out' = [Nothing EXCEPT
                         !.request = <<r>>,
                         !.answers = {Answer(p, "UPDATE_FID_iSUB",
                              [s \in r.subs |-> calculateFID(t, edge_LID, p, s)])}]
            /\ UNCHANGED fault
       \/ /\ r.type = "SCOPE"
          /\ fault' = (Cardinality(r.subs) > 1)
          /\ out' = [Nothing EXCEPT !.scopes =
                       IF Cardinality(r.subs) > 1 THEN {}
                       ELSE {Answer(n, r.type, {}) : n \in r.subs}]

handleRequest(r) ==
    /\ \E t \in Tie : handleMulticastPathRequest(t, r) \/ handleUnicastPathRequest(t, r)
    /\ UNCHANGED <<conf, edge_LID, freedLIDs, TM_to_nodeFID, RVFID, TMFID, told>>

Next ==
    /\ ~ fault
    /\ \/ \E r \in Reports : handleLinkStateNotification(r)
       \/ \E r \in Requests : handleRequest(r)

Spec == Init /\ [][Next]_vars

-----------------------------------------------------------------------------
(***************************************************************************)
(* Properties.                                                             *)
(***************************************************************************)
\* The types of the tables (tm_graph.hpp): every node has its three FIDs, and
\* every link of the topology file is either in the graph or has its LID kept
\* for the day it comes back, with the LID it always had.
TypeOK ==
    /\ conf \in Configuration
    /\ DOMAIN edge_LID \cup DOMAIN freedLIDs = Edge
    /\ DOMAIN edge_LID \cap DOMAIN freedLIDs = {}
    /\ edge_LID = [e \in DOMAIN edge_LID |-> LID[e]]
    /\ freedLIDs = [e \in DOMAIN freedLIDs |-> LID[e]]
    /\ TM_to_nodeFID \in [Node -> FID]
    /\ RVFID \in [Node -> FID] /\ TMFID \in [Node -> FID]
    /\ told \in [Node -> [rv: FID, tm: FID]]
    /\ fault \in BOOLEAN

\* fid is of a path from a to b in the graph, or zero.
validFID(fid, a, b) ==
    fid # {} => \E p \in Routes(DOMAIN edge_LID, a, b) : fid = PathFID(p, edge_LID)

\* Whatever links fail and come back in whatever order, no FID the TM keeps
\* uses a link that is not in the graph: finding the affected ones by their
\* bits misses none.
FIDsValid ==
    \A n \in Node : /\ validFID(TM_to_nodeFID[n], TM, n)
                    /\ validFID(RVFID[n], n, RV)
                    /\ validFID(TMFID[n], n, TM)

reaches(a, b) == Routes(DOMAIN edge_LID, a, b) # {}

\* The TM has a FID to and from every node that it has a path to, also after
\* the node was cut off and comes back.
NodesReached ==
    \A n \in Node : reaches(TM, n) => TM_to_nodeFID[n] # {} /\ TMFID[n] # {}

\* Every node that the TM can reach has been told the RVFID and TMFID that the
\* TM keeps for it: a node that was cut off hears of them when it is back.
NodesTold ==
    \A n \in Node : TM_to_nodeFID[n] # {} =>
        told[n] = [rv |-> RVFID[n], tm |-> TMFID[n]]

\* With path management, every node that the TM can still reach hears of every
\* link that fails (unless the LIDs are sent one by one, conf.uc).
FailureHeard ==
    [][(conf.pm /\ ~ conf.uc) =>
         \A e \in DOMAIN freedLIDs' \ DOMAIN freedLIDs, n \in Node :
            TM_to_nodeFID'[n] # {} =>
               \E m \in out'.failed : /\ m.lid = LID[e]
                                      /\ arrives(m.via, edge_LID', TM, n)]_vars

\* A request whose subscribers all have a path from some publisher is answered
\* with FIDs that get to all of them (in *-over-ICN, to one of them).
servedBy(r, s) ==
    \E m \in out.answers :
        m.type \in {"START_PUBLISH", "UPDATE_FID"} /\ arrives(m.fid, edge_LID, m.to, s)
RequestServed ==
    \A i \in DOMAIN out.request :
        LET r == out.request[i]
        IN  (/\ r.type # "MATCH_PUB_iSUBS"
             /\ \A s \in r.subs : \E p \in r.pubs : reaches(p, s))
            => /\ ~ r.unicast => \A s \in r.subs : servedBy(r, s)
               /\ r.unicast => \E s \in r.subs : servedBy(r, s)

\* tm_igraph.hpp: the FID from each node to the RV is maintained at all times.
RVReached == \A n \in Node : reaches(TM, n) /\ reaches(n, RV) => RVFID[n] # {}

\* The tables are complete and up to date after every failure, restoration and
\* request: valid FIDs for every node there is a path to, and the nodes know
\* theirs (removeLink, addLink and the updates they send).
FIDsMaintained == TypeOK /\ FIDsValid /\ NodesReached /\ NodesTold
=============================================================================
