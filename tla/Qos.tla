-------------------------------- MODULE Qos --------------------------------
(***************************************************************************)
(* Quality of service: the link monitor of every node (src/tm_ext/         *)
(* linkmon.cc) packs the state of its links into a link-state report       *)
(* (LSMPacket), the topology manager unpacks it, stores it on the edges of *)
(* its graph and rebuilds the weight vector of every priority level        *)
(* (TMIgraph::updateLinkState, qlwm).  A path request of an item asks the  *)
(* item's publisher for its priority first (IIMetaCache, tm_qos.cpp) and   *)
(* takes the weights of the nearest level below it.                        *)
(*                                                                         *)
(* Identifiers, node identifiers and LIDs are one byte long here, the      *)
(* fields keep their order and their widths; times are in units of the     *)
(* cache's query expiry.                                                   *)
(***************************************************************************)
EXTENDS ByteArray, Integers, FiniteSets, FiniteSetsExt, Functions

CONSTANTS
    Monitor,            \* the nodes that run a LinkMon, numbered from 1
    LinksOf,            \* [Monitor -> the edges it reports, in order]
    LIDBits,            \* [edge -> its LID, eight bits]
    ConfPrios,          \* the configurations: a set of [edge -> priority]
    QueueLens,          \* queue lengths a poll may read
    Item,               \* the items a path is requested for
    MetaPrios,          \* priorities an item's publisher may answer with
    EXPIRATION_TIME,    \* how long an answer is kept
    MaxClock            \* bound on time

VARIABLES
    confPrio, status, active,   \* LinkMon: configuration, links, publication
    lsm,                        \* reports under way, in order
    attrs,                      \* the QoS attributes of the edges of the graph
    qlwm,                       \* priority level -> weight of each edge
    ii_meta,                    \* the cache: item -> entry
    queries,                    \* metadata subscriptions the TM holds
    answers,                    \* metadata packets under way
    clock,                      \* time(NULL)
    lastReport,                 \* what each edge's last applied report said
    lastServed                  \* the last path request: item, priority, level

qosVars == <<confPrio, status, active, lsm, attrs, qlwm, ii_meta, queries,
             answers, clock, lastReport, lastServed>>

QoS_PRIO == 15
QoS_QUEUELEN == 4
QoS_REPORT == 107
QoS_METADATA == 108
QoS_ITEM_SIZE == 3
MAX_PRIO == 100
UCHAR_MAX == 255
DEFAULT_QOS_PRIO == 0
QUERY_EXP_TIME == 1
Edge == DOMAIN LIDBits

(***************************************************************************)
(* LSMPacket: type, node, number of links; then for each link its LID, the *)
(* number of its status items and the items (key, 16-bit value).           *)
(***************************************************************************)
NODEID_LEN == 1
FID_LEN == 1
CONST_HDR_LEN == 1 + NODEID_LEN + 1

newLSM(node) ==
    LET hdr == extended(<<>>, CONST_HDR_LEN, 255)
    IN  setBytes([hdr EXCEPT ![1] = QoS_REPORT, ![NODEID_LEN + 2] = 0], <<node>>, 1)

getRepLen(p) == at(p, NODEID_LEN + 1)

\* A QoSList is a map ordered by key
keysOf(q) == SetToSortSeq(DOMAIN q, <)

\* The status items of q written from byte `pos' on
putItems(p, pos, q) ==
    FoldLeftDomain(
        LAMBDA acc, i :
            LET o == pos + (i - 1) * QoS_ITEM_SIZE
            IN  setBits64([acc EXCEPT ![o + 1] = keysOf(q)[i]],
                          q[keysOf(q)[i]], 16, o + 1, 0),
        p, keysOf(q))

getItems(p, pos, num) ==
    LET off(i) == pos + (i - 1) * QoS_ITEM_SIZE
    IN  [k \in {at(p, off(i)) : i \in 1..num} |->
            getBits(p, 16, off(CHOOSE i \in 1..num : at(p, off(i)) = k) + 1, 0)]

appendLinkStatus(p, lid, q) ==
    LET pos  == Len(p)
        grown == extended(p, FID_LEN + 1 + Cardinality(DOMAIN q) * QoS_ITEM_SIZE, 255)
        byte == FoldLeft(LAMBDA b, x : (2 * b + x) % 256, 0, lid)
        put  == [grown EXCEPT ![pos + 1] = byte,
                              ![pos + FID_LEN + 1] = Cardinality(DOMAIN q)]
    IN  [putItems(put, pos + FID_LEN + 1, q) EXCEPT
            ![NODEID_LEN + 2] = (getRepLen(p) + 1) % 256]

\* getLinkOffset walks over the links before the index-th
getLinkOffset(p, index) ==
    IF index > getRepLen(p) THEN -1
    ELSE FoldLeftDomain(
             LAMBDA off, i : off + FID_LEN + at(p, off + FID_LEN) * QoS_ITEM_SIZE + 1,
             CONST_HDR_LEN, [i \in 1..index |-> i])

getStatusListLen(p, index) == at(p, getLinkOffset(p, index) + FID_LEN)

getLidStr(p, index) ==
    [i \in 1..8 * FID_LEN |->
        getBits8_ORLESS(p, 1, getLinkOffset(p, index) + (i - 1) \div 8, (i - 1) % 8)]

getLinkStatus(p, index) ==
    getItems(p, getLinkOffset(p, index) + FID_LEN + 1, getStatusListLen(p, index))

\* MetaDataPacket: type, length of the identifier, identifier, number of
\* items, items
newMetaData(id) == <<QoS_METADATA, 1, id, 0>>

appendIIStatus(p, q) ==
    LET pos == Len(p) - 1
        grown == extended(p, Cardinality(DOMAIN q) * QoS_ITEM_SIZE, 255)
    IN  putItems([grown EXCEPT ![pos + 1] = Cardinality(DOMAIN q)], pos + 1, q)

getID_RAW(p) == getStrBytes(p, at(p, 1), 2, 0)

getIIStatus(p) == getItems(p, 3 + at(p, 1), at(p, 3 + at(p, 1) - 1))

(***************************************************************************)
(* LinkMon.                                                                *)
(***************************************************************************)
\* initialize: a link per entry of the forwarding table, with its configured
\* priority; the queue length appears with the first poll
LinkMonInit ==
    /\ confPrio \in ConfPrios
    /\ status = [e \in Edge |-> (QoS_PRIO :> confPrio[e])]
    /\ active = [n \in Monitor |-> FALSE]
    /\ lsm = <<>>

Poll(n) ==
    /\ Len(LinksOf[n]) > 0
    /\ \E len \in QueueLens :
          status' = [e \in Edge |->
              IF e \in Range(LinksOf[n]) THEN (QoS_QUEUELEN :> len) @@ status[e]
              ELSE status[e]]
    /\ UNCHANGED <<confPrio, active, lsm, attrs, qlwm, ii_meta, queries, answers,
                   clock, lastReport, lastServed>>

\* push: the rendezvous starts or stops the publication
StartOrStop(n) ==
    /\ active' = [active EXCEPT ![n] = ~@]
    /\ UNCHANGED <<confPrio, status, lsm, attrs, qlwm, ii_meta, queries, answers,
                   clock, lastReport, lastServed>>

\* report: an inactive monitor publishes its item again, which the rendezvous
\* answers with the start of StartOrStop; a monitor without links waits
Report(n) ==
    /\ Len(lsm) < 2
    /\ lsm' = IF ~active[n] \/ Len(LinksOf[n]) = 0 THEN lsm ELSE Append(lsm,
          [bytes |-> FoldLeft(LAMBDA p, e : appendLinkStatus(p, LIDBits[e], status[e]),
                              newLSM(n), LinksOf[n]),
           said  |-> [e \in Range(LinksOf[n]) |-> status[e]]])
    /\ UNCHANGED <<confPrio, status, active, attrs, qlwm, ii_meta, queries, answers,
                   clock, lastReport, lastServed>>

(***************************************************************************)
(* The topology manager's link weights.                                    *)
(***************************************************************************)
\* An edge no report named yet has no priority attribute: not a number, which
\* the cast to uint8_t makes 0
edgePrio(as, e) == IF QoS_PRIO \in DOMAIN as[e] THEN as[e][QoS_PRIO] % 256 ELSE 0

createNewQoSLinkPrioMap(as, map_prio) ==
    [e \in Edge |-> IF map_prio >= edgePrio(as, e)
                    THEN (MAX_PRIO - edgePrio(as, e)) % 256 ELSE UCHAR_MAX]

BadupdateLinkState(g, lid, st) ==
    LET eid == CHOOSE e \in Edge : LIDBits[e] = lid
        as  == [g.attrs EXCEPT ![eid] = st @@ @]
        lp  == st[QoS_PRIO] % 256
    IN  [attrs |-> as,
         qlwm  |-> IF lp \in DOMAIN g.qlwm
                   THEN [g.qlwm EXCEPT ![lp][eid] = MAX_PRIO - lp]
                   ELSE (lp :> createNewQoSLinkPrioMap(as, lp)) @@ g.qlwm]

updateLinkState(g, lid, st) ==
    LET eid  == CHOOSE e \in Edge : LIDBits[e] = lid
        as   == [g.attrs EXCEPT ![eid] = st @@ @]
        lp   == st[QoS_PRIO] % 256
        maps == IF lp \in DOMAIN g.qlwm THEN g.qlwm
                ELSE (lp :> createNewQoSLinkPrioMap(as, lp)) @@ g.qlwm
    IN  [attrs |-> as,
         qlwm  |-> [p \in DOMAIN maps |->
                       [maps[p] EXCEPT ![eid] = IF p < lp THEN UCHAR_MAX
                                                ELSE MAX_PRIO - lp]]]

handleLSMUpdate ==
    /\ lsm # <<>>
    /\ LET p == Head(lsm).bytes
           g == FoldLeft(LAMBDA acc, i :
                             updateLinkState(acc, getLidStr(p, i), getLinkStatus(p, i)),
                         [attrs |-> attrs, qlwm |-> qlwm],
                         [i \in 1..getRepLen(p) |-> i - 1])
       IN  attrs' = g.attrs /\ qlwm' = g.qlwm
    /\ lastReport' = Head(lsm).said @@ lastReport
    /\ lsm' = Tail(lsm)
    /\ UNCHANGED <<confPrio, status, active, ii_meta, queries, answers, clock, lastServed>>

isQoSMapOk == 0 \in DOMAIN qlwm

\* The level of that priority, or the nearest one below it
getWeightKeyForIIPrio(prio) == Max({p \in DOMAIN qlwm : p <= prio} \cup {0})

(***************************************************************************)
(* IIMetaCache.  getQoSID is the hash of the item: another identifier.     *)
(***************************************************************************)
getQoSID(ii) == 100 + ii

expired(entry, now) ==
    \/ entry.created > 0 /\ now - entry.created > EXPIRATION_TIME
    \/ entry.created = 0 /\ entry.querying /\ now - entry.querytime > QUERY_EXP_TIME

\* checkClean: an expired query also unsubscribes, but from the item and not
\* from the item's metadata
BadcheckClean(cache, ii, now) == cache

checkClean(cache, ii, now) ==
    IF ii \in DOMAIN cache /\ expired(cache[ii], now)
    THEN Restrict(cache, DOMAIN cache \ {ii}) ELSE cache

\* cleanAllExpired runs only after NON_LAZY_INT, longer than both expiries
addMetaItem(cache, ii, now) ==
    (ii :> [qos |-> (QoS_PRIO :> 99), querying |-> FALSE, querytime |-> 0,
            created |-> now]) @@ cache

\* The priority of an item whose entry is in the cache (an entry that expired
\* since the query was weighed up is read after its removal; both outcomes of
\* that read give the default)
getIIQoSPrio(cache, ii, now) ==
    LET c == checkClean(cache, ii, now)
    IN  IF ii \notin DOMAIN c THEN DEFAULT_QOS_PRIO
        ELSE IF c[ii].querying \/ QoS_PRIO \notin DOMAIN c[ii].qos
        THEN DEFAULT_QOS_PRIO
        ELSE c[ii].qos[QoS_PRIO]

\* A path request of the item: sendQueryIfNeeded, then the priority unless the
\* query has just been sent; the clock may tick between the two
PathRequest(ii) ==
    LET cleaned == checkClean(ii_meta, ii, clock)
    IN  /\ isQoSMapOk
        /\ IF ii \notin DOMAIN cleaned
           THEN /\ ii_meta' = (ii :> [qos |-> <<>>, querying |-> TRUE,
                                      querytime |-> clock, created |-> 0])
                              @@ addMetaItem(cleaned, getQoSID(ii), clock)
                /\ queries' = queries \cup {ii}
                /\ lastServed' = [ii |-> ii, prio |-> DEFAULT_QOS_PRIO,
                              key |-> getWeightKeyForIIPrio(DEFAULT_QOS_PRIO),
                              at |-> clock]
           ELSE /\ \E now \in clock..clock + 1 :
                      LET prio == getIIQoSPrio(cleaned, ii, now)
                      IN  /\ ii_meta' = checkClean(cleaned, ii, now)
                          /\ lastServed' = [ii |-> ii, prio |-> prio,
                                        key |-> getWeightKeyForIIPrio(prio),
                                        at |-> clock]
                /\ UNCHANGED queries
        /\ UNCHANGED <<confPrio, status, active, lsm, attrs, qlwm, answers, clock,
                       lastReport>>

\* The item's publisher is asked through the TM's subscription and may answer
\* late, or never
PublishMetaData(ii) ==
    /\ ii \in queries /\ Cardinality(answers) < 1
    /\ \E prio \in MetaPrios :
          answers' = answers \cup
              {[bytes |-> appendIIStatus(newMetaData(ii), (QoS_PRIO :> prio)),
                prio |-> prio]}
    /\ UNCHANGED <<confPrio, status, active, lsm, attrs, qlwm, ii_meta, queries,
                   clock, lastReport, lastServed>>

\* handleIIMetaData, IIMetaCache::update
handleIIMetaData ==
    \E m \in answers :
        LET ii == getID_RAW(m.bytes)[1]
        IN  /\ answers' = answers \ {m}
            /\ IF ii \notin DOMAIN ii_meta
               THEN UNCHANGED <<ii_meta, queries>>
               ELSE /\ ii_meta' = Restrict(
                          [ii_meta EXCEPT ![ii].qos = getIIStatus(m.bytes),
                                          ![ii].querying = FALSE,
                                          ![ii].created = clock],
                          DOMAIN ii_meta \ {getQoSID(ii)})
                    /\ queries' = queries \ {ii}
            /\ UNCHANGED <<confPrio, status, active, lsm, attrs, qlwm, clock,
                           lastReport, lastServed>>

ClockTick ==
    /\ clock < MaxClock
    /\ clock' = clock + 1
    /\ UNCHANGED <<confPrio, status, active, lsm, attrs, qlwm, ii_meta, queries,
                   answers, lastReport, lastServed>>

QosInit ==
    /\ LinkMonInit
    /\ attrs = [e \in Edge |-> <<>>]
    /\ qlwm = <<>> /\ ii_meta = <<>>
    /\ queries = {} /\ answers = {}
    /\ clock = 1
    /\ lastReport = <<>>
    /\ lastServed = [ii |-> 0, prio |-> 0, key |-> 0, at |-> 0]

QosNext ==
    \/ \E n \in Monitor : Poll(n) \/ StartOrStop(n) \/ Report(n)
    \/ handleLSMUpdate
    \/ \E ii \in Item : PathRequest(ii) \/ PublishMetaData(ii)
    \/ handleIIMetaData
    \/ ClockTick

(***************************************************************************)
(* Properties.                                                             *)
(***************************************************************************)
\* Whatever the order in which the monitors report and the priority levels
\* come to exist, the weight vector of every level gives each reported edge
\* the weight of the priority its last report carried, through the packet's
\* bytes: MAX_PRIO minus the priority, or UCHAR_MAX where the level is below
\* the edge's (TMIgraph::updateLinkState, createNewQoSLinkPrioMap).
WeightsFollowReports ==
    \A e \in DOMAIN lastReport :
        LET lp == lastReport[e][QoS_PRIO]
        IN  /\ attrs[e] = lastReport[e] @@ attrs[e]
            /\ lp \in DOMAIN qlwm
            /\ \A p \in DOMAIN qlwm :
                  qlwm[p][e] = IF p < lp THEN UCHAR_MAX ELSE MAX_PRIO - lp

\* A path request is served with the default priority or with one that the
\* item's publisher gave at most EXPIRATION_TIME before, and never takes the
\* weights of a level above the item's priority, late answers and expired
\* queries included (IIMetaCache::getIIQoSPrio, getWeightKeyForIIPrio).
FreshPriority ==
    /\ lastServed.key <= lastServed.prio
    /\ lastServed.at = clock /\ lastServed.prio # DEFAULT_QOS_PRIO =>
          /\ lastServed.prio \in MetaPrios
          /\ lastServed.ii \in DOMAIN ii_meta
          /\ clock - ii_meta[lastServed.ii].created <= EXPIRATION_TIME

\* Paths are weighed by what the monitors last reported, at a priority the
\* item's publisher has stated not too long ago (handleLinkStateMonitoring,
\* IIMetaCache).
QoSPathsCurrent == WeightsFollowReports /\ FreshPriority
=============================================================================
