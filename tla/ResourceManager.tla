-------------------------- MODULE ResourceManager --------------------------
(***************************************************************************)
(* The resource manager (TopologyManager/rm.cpp) and the topology          *)
(* manager's side of resilience (tm.cpp with the RS extension).  The TM    *)
(* tells the RM every path it hands out; when a link is removed it tells   *)
(* the RM which two nodes it joined, and the RM asks the TM again for      *)
(* every item one of whose paths passes both.                              *)
(*                                                                         *)
(* Native items have a set of paths (a tree per publisher), *-over-ICN     *)
(* items one path per publisher.  The RM runs beside the TM: what one      *)
(* sends the other arrives in order.  Links are bidirectional, as the      *)
(* monitor reports them unless told otherwise.                             *)
(***************************************************************************)
EXTENDS Naturals, Sequences, FiniteSets, FiniteSetsExt, SequencesExt, Functions

CONSTANTS
    RsNode,         \* the nodes, numbers: their identifiers are ordered
    RsLinks,        \* the links, a set of two-element sets
    Native,         \* native items: [item number -> [pubs, subs]]
    OverICN,        \* *-over-ICN items, likewise; numbers of their own
    MaxChanges      \* bound on the changes of the topology

VARIABLES
    up,                     \* links of the TM's graph
    changes,                \* changes so far
    firstAsked,             \* items whose first match has reached the TM
    toRM, toTM,             \* messages under way
    path_info, ex_pubs,     \* RM: native items' paths, unused publishers
    unicast_path_info,      \* RM: *-over-ICN item -> publisher -> path
    ex_subs,                \* RM: unused subscribers
    using,                  \* <<item, publisher>> -> paths the publisher uses
    unserved                \* <<item, publisher>> the TM could not serve last time

rsVars == <<up, changes, firstAsked, toRM, toTM, path_info, ex_pubs, unicast_path_info,
            ex_subs, using, unserved>>

rmTables == <<path_info, ex_pubs, unicast_path_info, ex_subs>>

front(v) == v[1]
back(v) == v[Len(v)]
linksOf(v) == {{v[i], v[i + 1]} : i \in 1..Len(v) - 1}

simplePaths ==
    {v \in UNION {[1..n -> RsNode] : n \in 1..Cardinality(RsNode)} :
        IsInjective(v) /\ linksOf(v) \subseteq RsLinks}

rsShortest(p, s) ==
    LET found == {v \in simplePaths : front(v) = p /\ back(v) = s /\ linksOf(v) \subseteq up}
        least == Min({Len(v) : v \in found})
    IN  {v \in found : Len(v) = least}

(***************************************************************************)
(* The topology manager.                                                   *)
(***************************************************************************)
\* The paths a native match may give: each subscriber that can be reached gets
\* a shortest path from a publisher as near as any, the first in order of those
nearest(pubs, s) ==
    LET found == UNION {rsShortest(p, s) : p \in pubs}
        least == Min({Len(v) : v \in found})
        first == Min({front(v) : v \in {w \in found : Len(w) = least}})
    IN  {v \in found : Len(v) = least /\ front(v) = first}

trees(pubs, subs) ==
    LET near == UNION {nearest(pubs, s) : s \in subs}
    IN  {t \in SUBSET near : /\ {back(v) : v \in t} = {back(v) : v \in near}
                             /\ \A v, w \in t : back(v) = back(w) => v = w}

\* handleMulticastPathRequest: publishers are started or stopped, and the RM
\* gets the paths and the publishers left without one
handleMulticastPathRequest(id, pubs, subs) ==
    \E tree \in trees(pubs, subs) :
        LET idle == {p \in pubs : \A v \in tree : front(v) # p}
        IN  /\ using' = [k \in DOMAIN using \cup ({id} \X pubs) |->
                  IF k \in {id} \X pubs THEN {v \in tree : front(v) = k[2]}
                  ELSE using[k]]
            /\ unserved' = (unserved \ {k \in unserved : k[1] = id}) \cup
                  {<<id, s>> : s \in {s \in subs : \A v \in tree : back(v) # s}}
            /\ toRM' = Append(toRM, [type |-> "UPDATE_DELIVERY", id |-> id,
                                     paths |-> tree, alternatives |-> idle])

\* UcalculateFID: the first nearest subscriber; the ones before it in order are
\* the alternatives, the loop stops at the one with a FID
nearestSub(p, subs) ==
    LET found == UNION {rsShortest(p, s) : s \in subs}
        least == Min({Len(v) : v \in found})
        first == Min({back(v) : v \in {w \in found : Len(w) = least}})
    IN  {v \in found : Len(v) = least /\ back(v) = first}

\* handleUnicastPathRequest: without a path nobody is told anything
handleUnicastPathRequest(id, p, subs) ==
    IF nearestSub(p, subs) = {}
    THEN /\ unserved' = unserved \cup {<<id, p>>}
         /\ UNCHANGED <<toRM, using>>
    ELSE \E v \in nearestSub(p, subs) :
            /\ using' = (<<id, p>> :> {v}) @@ using
            /\ unserved' = unserved \ {<<id, p>>}
            /\ toRM' = Append(toRM, [type |-> "UPDATE_UNICAST", id |-> id,
                                     publisher |-> p, path |-> v,
                                     alternatives |-> {s \in subs : s < back(v)}])

\* The rendezvous asks for an item for the first time
Match ==
    \E k \in (((DOMAIN Native) \X {0}) \cup
              UNION {{id} \X OverICN[id].pubs : id \in DOMAIN OverICN}) \ firstAsked :
        /\ firstAsked' = firstAsked \cup {k}
        /\ IF k[1] \in DOMAIN Native
           THEN handleMulticastPathRequest(k[1], Native[k[1]].pubs, Native[k[1]].subs)
           ELSE handleUnicastPathRequest(k[1], k[2], OverICN[k[1]].subs)
        /\ UNCHANGED <<up, changes, toTM, rmTables>>

\* A request of the RM; a garbled one names no item the TM could answer for
ReMatch ==
    /\ toTM # <<>>
    /\ LET m == Head(toTM)
       IN  CASE m.type = "native" -> handleMulticastPathRequest(m.id, m.pubs, m.subs)
             [] m.type = "unicast" -> handleUnicastPathRequest(m.id, m.pub, m.subs)
             [] m.type = "garbled" ->
                   /\ unserved' = unserved \cup {<<m.id, s>> : s \in m.subs}
                   /\ UNCHANGED <<toRM, using>>
    /\ toTM' = Tail(toTM)
    /\ UNCHANGED <<up, changes, firstAsked, rmTables>>

\* handleLinkStateNotificationRM: a removed link is reported to the RM, an
\* added one is not
handleLinkStateNotificationRM ==
    /\ changes < MaxChanges
    /\ changes' = changes + 1
    /\ \E l \in RsLinks :
          IF l \in up
          THEN /\ up' = up \ {l}
               /\ toRM' = Append(toRM, [type |-> "DISCOVER_FAILURE", nodes |-> l])
          ELSE up' = up \cup {l} /\ UNCHANGED toRM
    /\ UNCHANGED <<firstAsked, toTM, rmTables, using, unserved>>

(***************************************************************************)
(* The resource manager: DispathToHandler takes the next message.          *)
(***************************************************************************)
handleMulticastPathNotification(m) ==
    /\ path_info' = IF m.paths = {} THEN Restrict(path_info, DOMAIN path_info \ {m.id})
                    ELSE (m.id :> m.paths) @@ path_info
    /\ ex_pubs' = (m.id :> m.alternatives) @@ ex_pubs
    /\ UNCHANGED <<unicast_path_info, ex_subs, toTM>>

handleUnicastPathNotification(m) ==
    /\ unicast_path_info' =
          (m.id :> ((m.publisher :> m.path) @@
                    (IF m.id \in DOMAIN unicast_path_info
                     THEN unicast_path_info[m.id] ELSE <<>>))) @@ unicast_path_info
    /\ ex_subs' = (m.id :> m.alternatives) @@ ex_subs
    /\ UNCHANGED <<path_info, ex_pubs, toTM>>

\* requestMulticastTree: one message per item in order; its offset starts from
\* 0 for the first item only, so that the fields of the others are written
\* past where they are read
requestMulticastTree(ids) ==
    [i \in 1..Cardinality(ids) |->
        LET id == SetToSortSeq(ids, <)[i]
            pubs == {front(v) : v \in path_info[id]} \cup ex_pubs[id]
            subs == {back(v) : v \in path_info[id]}
        IN  IF i = 1 THEN [type |-> "native", id |-> id, pubs |-> pubs, subs |-> subs]
            ELSE [type |-> "garbled", id |-> id, pubs |-> pubs, subs |-> subs]]

\* requestUnicastPaths: for every publisher of the item, broken path or not
requestUnicastPaths(ids) ==
    LET subs(id) == {back(v) : v \in Range(unicast_path_info[id])} \cup ex_subs[id]
        asks(id) == [i \in 1..Cardinality(DOMAIN unicast_path_info[id]) |->
                        [type |-> "unicast", id |-> id, subs |-> subs(id),
                         pub |-> SetToSortSeq(DOMAIN unicast_path_info[id], <)[i]]]
    IN  FlattenSeq([i \in 1..Cardinality(ids) |-> asks(SetToSortSeq(ids, <)[i])])

BadhandleLinkStateNotification(m) ==
    LET cut(v) == \E i \in 1..Len(v) - 1 :
                     v[i] = Min(m.nodes) /\ v[i + 1] = Max(m.nodes)
        native  == {id \in DOMAIN path_info : \E v \in path_info[id] : cut(v)}
        unicast == {id \in DOMAIN unicast_path_info :
                       \E v \in Range(unicast_path_info[id]) : cut(v)}
    IN  /\ toTM' = toTM \o requestMulticastTree(native) \o requestUnicastPaths(unicast)
        /\ UNCHANGED rmTables

\* A path is cut when both nodes are on it
handleLinkStateNotification(m) ==
    LET cut(v)  == m.nodes \subseteq Range(v)
        native  == {id \in DOMAIN path_info : \E v \in path_info[id] : cut(v)}
        unicast == {id \in DOMAIN unicast_path_info :
                       \E v \in Range(unicast_path_info[id]) : cut(v)}
    IN  /\ toTM' = toTM \o requestMulticastTree(native) \o requestUnicastPaths(unicast)
        /\ UNCHANGED rmTables

DispathToHandler ==
    /\ toRM # <<>>
    /\ toRM' = Tail(toRM)
    /\ LET m == Head(toRM)
       IN  CASE m.type = "UPDATE_DELIVERY" -> handleMulticastPathNotification(m)
             [] m.type = "UPDATE_UNICAST" -> handleUnicastPathNotification(m)
             [] m.type = "DISCOVER_FAILURE" -> handleLinkStateNotification(m)
    /\ UNCHANGED <<up, changes, firstAsked, using, unserved>>

RsInit ==
    /\ up = RsLinks /\ changes = 0 /\ firstAsked = {}
    /\ toRM = <<>> /\ toTM = <<>>
    /\ path_info = <<>> /\ ex_pubs = <<>>
    /\ unicast_path_info = <<>> /\ ex_subs = <<>>
    /\ using = <<>> /\ unserved = {}

RsNext ==
    \/ Match \/ ReMatch \/ handleLinkStateNotificationRM
    \/ DispathToHandler

(***************************************************************************)
(* Properties.                                                             *)
(***************************************************************************)
\* Once the TM and the RM have answered each other, no publisher still uses a
\* path over a link that is gone, unless the TM had no path to give (or got a
\* garbled request) when it was last asked for that item: a failure never
\* overtakes the notice of a path it cuts (tm.cpp:266-284, 415-442, 769-783;
\* rm.cpp:288-363).
BrokenPathsReplaced ==
    toRM = <<>> /\ toTM = <<>> =>
        \A k \in DOMAIN using : \A v \in using[k] :
            \/ linksOf(v) \subseteq up
            \/ <<k[1], k[2]>> \in unserved
            \/ <<k[1], back(v)>> \in unserved
=============================================================================
