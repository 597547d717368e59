------------------------------ MODULE LocalProxy ------------------------------
(***************************************************************************)
(* The proxy of a Blackadder node (the Click element LocalProxy, with the  *)
(* records it owns: ActivePublication, ActiveSubscription, ActiveNode and  *)
(* LocalHost).  It stands between the applications of the node and the     *)
(* rendezvous point: it merges the requests of all applications into the   *)
(* requests of one node, keeps the forwarding identifier (FID) of every    *)
(* publication, and decides which of the publishers of an item is told to  *)
(* publish.                                                                *)
(*                                                                         *)
(* Every message is handled to its end before the next one (a Click push), *)
(* so one message is one action.  out is what the last message made the    *)
(* proxy send; atRV is a history variable, the registrations of this node  *)
(* left by all the requests forwarded so far.                              *)
(***************************************************************************)
EXTENDS Naturals, Sequences

CONSTANTS
    Host,          \* applications and Click elements, in hash table order
    Fragment,      \* the fragments an ID is made of
    MaxDepth,      \* the longest ID, in fragments
    Bit,           \* the bits of a forwarding identifier
    NoFID,         \* BABitvector(): a bit vector of size 0
    NodeID,        \* labels of the nodes with implicit subscriptions
    IsRV,          \* gc->type[RV]: this node is the rendezvous point
    DefaultRV,     \* gc->defaultRV_dl as configured
    DefaultTM,     \* gc->TMFID as configured
    pathMgmtIID,   \* the ID link failures are announced under
    Inputs         \* the messages that may arrive, by kind

Reaching == {"NODE_LOCAL", "DOMAIN_LOCAL"}
Strategy == Reaching \cup {"IMPLICIT_RENDEZVOUS", "LINK_LOCAL", "BROADCAST_IF"}

PublishTypes == {"PUBLISH_SCOPE", "PUBLISH_INFO"}
UnpublishTypes == {"UNPUBLISH_SCOPE", "UNPUBLISH_INFO"}
SubscribeTypes == {"SUBSCRIBE_SCOPE", "SUBSCRIBE_INFO"}
UnsubscribeTypes == {"UNSUBSCRIBE_SCOPE", "UNSUBSCRIBE_INFO"}
RequestTypes == PublishTypes \cup UnpublishTypes
                    \cup SubscribeTypes \cup UnsubscribeTypes

FullID == Seq(Fragment) \ {<<>>}
FID == SUBSET Bit
AnyFID == {NoFID} \cup FID

Request == [type: RequestTypes, host: Host, id: FullID,
            prefix: Seq(Fragment), strategy: Strategy]

\* The states a publisher of an item goes through.
PublisherState == {"STOP_PUBLISH", "START_PUBLISH", "RE_PUBLISH",
                   "PAUSE_PUBLISH", "RESUME_PUBLISH"}
NodeState == {"STOP_PUBLISH_iSUB", "START_PUBLISH_iSUB"}

NotificationTypes == {"SCOPE_PUBLISHED", "SCOPE_UNPUBLISHED", "START_PUBLISH",
                      "UPDATE_FID", "UPDATE_RVFID", "UPDATE_TMFID",
                      "STOP_PUBLISH"}
Notification == [type: NotificationTypes, ids: Seq(FullID), fid: FID]
MappRequest == {"GET_NODEID", "GET_RVTMFID", "DISCONNECTED", "RECONNECTED"}

\* The messages of each kind: API requests, notifications of the rendezvous
\* point, answers about implicit subscribers, failed links, IDs of published
\* data, FIDs given by applications, IDs of implicit subscriptions, ID lists
\* of data from the network, and requests of management applications; and
\* the applications and remote nodes that send them.
NodeNotice == UNION {[N -> FID] : N \in SUBSET NodeID}
Input == [hosts: SUBSET Host, nodes: SUBSET NodeID,
          requests: SUBSET Request, notifications: SUBSET Notification,
          nodeNotices: SUBSET NodeNotice, links: SUBSET (FID \ {{}}),
          published: SUBSET FullID, fids: SUBSET FID, isubs: SUBSET FullID,
          packets: SUBSET Seq(FullID), mapp: SUBSET MappRequest]

\* The order of a hash table: every set of hosts has a first one.
ASSUME HostAssumption ==
    \A S \in SUBSET Host : S # {} => \E h \in S : \A g \in S : h <= g
ASSUME FIDAssumption == /\ \A f \in FID : f # NoFID
                        /\ DefaultRV \in FID /\ DefaultTM \in FID
                        /\ IsRV \in BOOLEAN
ASSUME InputAssumption ==
    /\ pathMgmtIID \in FullID /\ MaxDepth \in Nat
    /\ Inputs \in Input
    /\ \A r \in Inputs.requests : Len(r.prefix) < MaxDepth
    /\ \A n \in Inputs.notifications : n.type = "START_PUBLISH" => n.ids # <<>>

VARIABLES
    pubs,   \* activePublicationIndex
    subs,   \* activeSubscriptionIndex
    nodes,  \* activeNodeIndex
    hosts,  \* local_pub_sub_Index
    gc,     \* the part of GlobalConf that changes
    fault,  \* an assertion failed or freed memory was used
    out,    \* what the last message made the proxy send
    atRV    \* history: the registrations this node has asked for

vars == <<pubs, subs, nodes, hosts, gc, fault, out, atRV>>

-----------------------------------------------------------------------------
(***************************************************************************)
(* Hash tables, IDs and forwarding identifiers.                            *)
(***************************************************************************)
Put(f, k, v) == [x \in DOMAIN f \cup {k} |-> IF x = k THEN v ELSE f[x]]
Without(f, k) == [x \in DOMAIN f \ {k} |-> f[x]]
Range(s) == {s[i] : i \in DOMAIN s}

Suffix(id) == id[Len(id)]
Father(id) == SubSeq(id, 1, Len(id) - 1)
FullIDOf(r) == Append(r.prefix, Suffix(r.id))

\* zero(), and FID == NULL: no bit is set (a vector of size 0 has none).
zero(fid) == fid = NoFID \/ fid = {}

\* The entry that begin() of a table of publishers yields.
First(publishers) == CHOOSE h \in DOMAIN publishers :
                        \A g \in DOMAIN publishers : h <= g

Place(rvfid) == IF zero(rvfid) \/ IsRV THEN "local" ELSE "domain"

(***************************************************************************)
(* What a message makes the proxy send.  rv is a sequence of sets: the     *)
(* requests of one set leave in the order of a hash table.                 *)
(***************************************************************************)
Nothing == [rv |-> <<>>, apps |-> {}, net |-> {}, isub |-> {}]

ToApp(h, type, id) == [host |-> h, type |-> type, id |-> id]
ToRV(type, id, strategy, rvfid) ==
    [type |-> type, id |-> id, strategy |-> strategy, place |-> Place(rvfid)]
ToNet(type, ids, fid) == [type |-> type, ids |-> ids, fid |-> fid]

Role(type) == IF type \in PublishTypes \cup UnpublishTypes THEN "pub" ELSE "sub"
Registration(m) == <<m.place, Role(m.type), m.id>>

\* The requests in batches leave for the rendezvous point, the messages in
\* apps for the applications.
Send(batches, apps) ==
    LET sent == UNION Range(batches)
        undo == {m \in sent : m.type \in UnpublishTypes \cup UnsubscribeTypes}
    IN  /\ out' = [Nothing EXCEPT !.rv = batches, !.apps = apps]
        /\ atRV' = (atRV \ {Registration(m) : m \in undo})
                       \cup {Registration(m) : m \in sent \ undo}

SendOnly(message) == out' = message /\ UNCHANGED atRV

NewHost == [pubs |-> {}, subs |-> {}]

getLocalHost(h) == IF h \in DOMAIN hosts THEN hosts ELSE Put(hosts, h, NewHost)

Init ==
    /\ pubs = [id \in {} |-> NewHost]
    /\ subs = [id \in {} |-> NewHost]
    /\ nodes = [n \in {} |-> NewHost]
    /\ hosts = [h \in {} |-> NewHost]
    /\ gc = [rv |-> DefaultRV, tm |-> DefaultTM, status |-> "CONNECTED"]
    /\ fault = FALSE
    /\ out = Nothing
    /\ atRV = {}

-----------------------------------------------------------------------------
(***************************************************************************)
(* Publications.                                                           *)
(***************************************************************************)
\* Wrong on purpose (as are all operators named Bad...): the state is that
\* of an implicit subscription.
BadNewPublication(h, strategy, scope, rvfid) ==
    [strategy |-> strategy, isScope |-> scope, rvfid |-> rvfid, fid |-> NoFID,
     known |-> <<>>, publishers |-> [g \in {h} |-> "STOP_PUBLISH_iSUB"]]

NewPublication(h, strategy, scope, rvfid) ==
    [strategy |-> strategy, isScope |-> scope, rvfid |-> rvfid, fid |-> NoFID,
     known |-> <<>>, publishers |-> [g \in {h} |-> "STOP_PUBLISH"]]

publishedAs(id, strategy) ==
    strategy \in Reaching /\ id \in DOMAIN pubs /\ pubs[id].strategy = strategy

\* The FID of h's publication became invalid and h was told to publish again.
republishes(h, id) ==
    /\ id \in DOMAIN pubs /\ h \in DOMAIN pubs[id].publishers
    /\ pubs[id].publishers[h] \in {"RE_PUBLISH", "RESUME_PUBLISH"}

\* The publisher is added to the publication and not to its own record.

storeActivePublication(r, id, rvfid) ==
    LET h == r.host
        new == r.strategy \in Reaching /\ id \notin DOMAIN pubs
        again == r.strategy \in Reaching /\ republishes(h, id)
        joins == ~ again /\ publishedAs(id, r.strategy)
        recorded == [getLocalHost(h) EXCEPT ![h].pubs = @ \cup {id}]
        forward == Send(<<{ToRV(r.type, id, r.strategy, rvfid)}>>, {})
    IN  \/ /\ new
           /\ pubs' = Put(pubs, id, NewPublication(h, r.strategy,
                                        r.type = "PUBLISH_SCOPE", rvfid))
           /\ hosts' = recorded
           /\ forward
        \/ /\ again
           /\ UNCHANGED pubs
           /\ hosts' = getLocalHost(h)
           /\ forward
        \/ /\ joins
           /\ pubs' = IF h \in DOMAIN pubs[id].publishers THEN pubs
                      ELSE [pubs EXCEPT ![id].publishers =
                                            Put(@, h, "STOP_PUBLISH")]
           /\ hosts' = recorded
           /\ SendOnly(Nothing)
        \/ /\ ~ (new \/ again \/ joins)
           /\ UNCHANGED pubs
           /\ hosts' = getLocalHost(h)
           /\ SendOnly(Nothing)

removeActivePublication(r, id, rvfid) ==
    LET h == r.host
        remaining == Without(pubs[id].publishers, h)
    IN  \/ /\ publishedAs(id, r.strategy)
           /\ hosts' = [getLocalHost(h) EXCEPT ![h].pubs = @ \ {id}]
           /\ \/ /\ DOMAIN remaining = {}
                 /\ pubs' = Without(pubs, id)
                 /\ Send(<<{ToRV(r.type, id, r.strategy, rvfid)}>>, {})
              \/ /\ DOMAIN remaining # {}
                 /\ pubs' = [pubs EXCEPT ![id].publishers = remaining]
                 /\ SendOnly(Nothing)
        \/ /\ ~ publishedAs(id, r.strategy)
           /\ hosts' = getLocalHost(h)
           /\ UNCHANGED pubs
           /\ SendOnly(Nothing)

(***************************************************************************)
(* Subscriptions.                                                          *)
(***************************************************************************)
NewSubscription(h, strategy, scope, rvfid) ==
    [strategy |-> strategy, isScope |-> scope, rvfid |-> rvfid,
     subscribers |-> {h}]

subscribedAs(id, strategy) ==
    id \in DOMAIN subs /\ subs[id].strategy = strategy

\* The table after host h subscribes; a strategy mismatch leaves it alone.
storedSubscription(h, id, strategy, scope, rvfid) ==
    IF id \notin DOMAIN subs
    THEN Put(subs, id, NewSubscription(h, strategy, scope, rvfid))
    ELSE IF subscribedAs(id, strategy)
    THEN [subs EXCEPT ![id].subscribers = @ \cup {h}]
    ELSE subs

\* The record of host h after the same.
recordedSubscription(h, id, strategy) ==
    IF id \notin DOMAIN subs \/ subscribedAs(id, strategy)
    THEN [getLocalHost(h) EXCEPT ![h].subs = @ \cup {id}]
    ELSE getLocalHost(h)

\* Only a second subscriber is forwarded.
BadSubscriptionForwarded(id, strategy) == subscribedAs(id, strategy)

subscriptionForwarded(id, strategy) ==
    \/ id \notin DOMAIN subs /\ strategy \in Reaching
    \/ subscribedAs(id, strategy)

storeActiveSubscription(r, id, rvfid) ==
    /\ subs' = storedSubscription(r.host, id, r.strategy,
                                  r.type = "SUBSCRIBE_SCOPE", rvfid)
    /\ hosts' = recordedSubscription(r.host, id, r.strategy)
    /\ IF subscriptionForwarded(id, r.strategy)
       THEN Send(<<{ToRV(r.type, id, r.strategy, rvfid)}>>, {})
       ELSE SendOnly(Nothing)

\* The record of the leaving subscriber is not updated.
BadUnsubscribed(h, id) == getLocalHost(h)

unsubscribed(h, id) == [getLocalHost(h) EXCEPT ![h].subs = @ \ {id}]

removeActiveSubscription(r, id, rvfid) ==
    LET h == r.host
        remaining == subs[id].subscribers \ {h}
    IN  \/ /\ subscribedAs(id, r.strategy)
           /\ hosts' = unsubscribed(h, id)
           /\ \/ /\ remaining = {}
                 /\ subs' = Without(subs, id)
                 /\ IF r.strategy \in Reaching
                    THEN Send(<<{ToRV(r.type, id, r.strategy, rvfid)}>>, {})
                    ELSE SendOnly(Nothing)
              \/ /\ remaining # {}
                 /\ subs' = [subs EXCEPT ![id].subscribers = remaining]
                 /\ SendOnly(Nothing)
        \/ /\ ~ subscribedAs(id, r.strategy)
           /\ hosts' = getLocalHost(h)
           /\ UNCHANGED subs
           /\ SendOnly(Nothing)

(***************************************************************************)
(* A pub/sub request of an application.  Requests of the DOMAIN_LOCAL      *)
(* strategy go to the rendezvous point the node is configured with.        *)
(***************************************************************************)
RVFIDOf(strategy) == IF strategy = "DOMAIN_LOCAL" THEN gc.rv ELSE {}

handleLocalRequest(r) ==
    LET id == FullIDOf(r)
        rvfid == RVFIDOf(r.strategy)
    IN  /\ \/ /\ r.type \in PublishTypes
              /\ storeActivePublication(r, id, rvfid)
              /\ UNCHANGED subs
           \/ /\ r.type \in UnpublishTypes
              /\ removeActivePublication(r, id, rvfid)
              /\ UNCHANGED subs
           \/ /\ r.type \in SubscribeTypes
              /\ storeActiveSubscription(r, id, rvfid)
              /\ UNCHANGED pubs
           \/ /\ r.type \in UnsubscribeTypes
              /\ removeActiveSubscription(r, id, rvfid)
              /\ UNCHANGED pubs
        /\ UNCHANGED <<nodes, gc, fault>>

-----------------------------------------------------------------------------
(***************************************************************************)
(* An application disconnects: all that it published and subscribed to is  *)
(* undone, items before scopes and deep scopes before shallow ones.  A     *)
(* notified publisher hands over to the next one in the table.             *)
(***************************************************************************)

Undone(type, table, ids) ==
    {ToRV(type, id, table[id].strategy, table[id].rvfid) : id \in ids}

BadLevels(type, table, ids) == \* shallow scopes first
    [i \in 1..MaxDepth |-> Undone(type, table, {id \in ids : Len(id) = i})]

Levels(type, table, ids) ==
    [i \in 1..MaxDepth |->
        Undone(type, table, {id \in ids : Len(id) = MaxDepth + 1 - i})]

BadSuccessor(h, id) == FALSE \* nobody takes over

\* The remaining publishers of item id need one that is notified.
needsSuccessor(h, id) ==
    /\ ~ pubs[id].isScope
    /\ pubs[id].publishers[h] # "STOP_PUBLISH"
    /\ DOMAIN pubs[id].publishers # {h}

afterLeaving(h, id) ==
    LET rest == Without(pubs[id].publishers, h)
    IN  [pubs[id] EXCEPT !.publishers =
            IF needsSuccessor(h, id)
            THEN [rest EXCEPT ![First(rest)] = "START_PUBLISH"] ELSE rest]

\* The tables without host h; the entries it was the last one of are gone.
lastPublished(h) == {id \in getLocalHost(h)[h].pubs :
                        DOMAIN pubs[id].publishers = {h}}
lastSubscribed(h) == {id \in getLocalHost(h)[h].subs : subs[id].subscribers = {h}}

deleteAllActivePublications(h) ==
    [id \in DOMAIN pubs \ lastPublished(h) |->
        IF id \in getLocalHost(h)[h].pubs THEN afterLeaving(h, id) ELSE pubs[id]]

deleteAllActiveSubscriptions(h) ==
    [id \in DOMAIN subs \ lastSubscribed(h) |->
        [subs[id] EXCEPT !.subscribers = @ \ {h}]]

disconnect(h) ==
    LET told == {id \in lastSubscribed(h) : subs[id].strategy \in Reaching}
        itemsOf(table, ids) == {id \in ids : ~ table[id].isScope}
        scopesOf(table, ids) == {id \in ids : table[id].isScope}
        successors == {id \in getLocalHost(h)[h].pubs : needsSuccessor(h, id)}
    IN  /\ pubs' = deleteAllActivePublications(h)
        /\ subs' = deleteAllActiveSubscriptions(h)
        /\ hosts' = Without(hosts, h)
        /\ Send(<<Undone("UNPUBLISH_INFO", pubs, itemsOf(pubs, lastPublished(h))),
                  Undone("UNSUBSCRIBE_INFO", subs, itemsOf(subs, told))>>
                \o Levels("UNPUBLISH_SCOPE", pubs, scopesOf(pubs, lastPublished(h)))
                \o Levels("UNSUBSCRIBE_SCOPE", subs, scopesOf(subs, told)),
                {ToApp(First(Without(pubs[id].publishers, h)),
                       "START_PUBLISH", id) : id \in successors})
        /\ UNCHANGED <<nodes, gc, fault>>

-----------------------------------------------------------------------------
(***************************************************************************)
(* Notifications of the rendezvous point.                                  *)
(***************************************************************************)
Named(n) == Range(n.ids) \cap DOMAIN pubs

\* The publications named by n get its IDs and the given FID, and their
\* publishers the states the table gives them.
Renewed(n, fid, table) ==
    [id \in DOMAIN pubs |->
       IF id \in Named(n)
       THEN [pubs[id] EXCEPT !.known = n.ids, !.fid = fid, !.publishers = table[id]]
       ELSE pubs[id]]

BadStartPublish(n) == \* the IDs of the item are not stored
    /\ n.type = "START_PUBLISH"
    /\ pubs' = [id \in DOMAIN pubs |->
                  IF id \in Named(n)
                  THEN [pubs[id] EXCEPT !.fid = n.fid,
                          !.publishers[First(pubs[id].publishers)] = "START_PUBLISH"]
                  ELSE pubs[id]]
    /\ SendOnly([Nothing EXCEPT !.apps =
           {ToApp(First(pubs[id].publishers), "START_PUBLISH", id) : id \in Named(n)}])
    /\ UNCHANGED <<subs, nodes, hosts, gc, fault>>

BadQuietStart(n) == \* only the first of the IDs is notified
    LET started == [id \in Named(n) |-> [pubs[id].publishers EXCEPT
                        ![First(pubs[id].publishers)] = "START_PUBLISH"]]
    IN  /\ n.type = "START_PUBLISH"
        /\ pubs' = Renewed(n, n.fid, started)
        /\ SendOnly([Nothing EXCEPT !.apps =
              {ToApp(First(pubs[id].publishers), "START_PUBLISH", id) :
                 id \in Named(n) \cap {n.ids[1]}}])
        /\ UNCHANGED <<subs, nodes, hosts, gc, fault>>

startPublish(n) ==
    LET started == [id \in Named(n) |-> [pubs[id].publishers EXCEPT
                        ![First(pubs[id].publishers)] = "START_PUBLISH"]]
    IN  /\ n.type = "START_PUBLISH"
        /\ pubs' = Renewed(n, n.fid, started)
        /\ SendOnly([Nothing EXCEPT !.apps =
              {ToApp(First(pubs[id].publishers), "START_PUBLISH", id) :
                 id \in Named(n)}])
        /\ UNCHANGED <<subs, nodes, hosts, gc, fault>>

BadUpdateFID(n) == \* the notification names the first ID of the item
    /\ n.type = "UPDATE_FID"
    /\ pubs' = Renewed(n, n.fid, [id \in Named(n) |-> pubs[id].publishers])
    /\ SendOnly([Nothing EXCEPT !.apps =
          {ToApp(First(pubs[id].publishers), "UPDATE_PUBLISH", n.ids[1]) :
             id \in Named(n)}])
    /\ UNCHANGED <<subs, nodes, hosts, gc, fault>>

updateFID(n) ==
    LET same == [id \in Named(n) |-> pubs[id].publishers]
        first(id) == First(pubs[id].publishers)
    IN  /\ n.type = "UPDATE_FID"
        /\ pubs' = Renewed(n, n.fid, same)
        /\ SendOnly([Nothing EXCEPT !.apps =
              {ToApp(first(id), "UPDATE_PUBLISH", id) :
                 id \in {d \in Named(n) :
                           pubs[d].publishers[first(d)] = "START_PUBLISH"}}])
        /\ UNCHANGED <<subs, nodes, hosts, gc, fault>>

NotifiedAt(id) == {h \in DOMAIN pubs[id].publishers :
                      pubs[id].publishers[h] = "START_PUBLISH"}

BadStopPublish(n) == \* the publishers are told and their state is kept
    /\ n.type = "STOP_PUBLISH"
    /\ pubs' = [id \in DOMAIN pubs |->
                  IF id \in Named(n) THEN [pubs[id] EXCEPT !.fid = {}] ELSE pubs[id]]
    /\ SendOnly([Nothing EXCEPT !.apps =
           UNION {{ToApp(h, "STOP_PUBLISH", id) : h \in NotifiedAt(id)} :
                     id \in Named(n)}])
    /\ UNCHANGED <<subs, nodes, hosts, gc, fault>>

stopPublish(n) ==
    LET stopped == [id \in Named(n) |-> [h \in DOMAIN pubs[id].publishers |->
                        IF h \in NotifiedAt(id) THEN "STOP_PUBLISH"
                        ELSE pubs[id].publishers[h]]]
    IN  /\ n.type = "STOP_PUBLISH"
        /\ pubs' = Renewed(n, {}, stopped)
        /\ SendOnly([Nothing EXCEPT !.apps =
              UNION {{ToApp(h, "STOP_PUBLISH", id) : h \in NotifiedAt(id)} :
                        id \in Named(n)}])
        /\ UNCHANGED <<subs, nodes, hosts, gc, fault>>

SubscribersAt(id) == IF id \in DOMAIN subs THEN subs[id].subscribers ELSE {}

findActiveSubscriptions(id) ==
    IF Father(id) \in DOMAIN subs /\ subs[Father(id)].isScope
    THEN subs[Father(id)].subscribers ELSE {}

scopeNotification(n) ==
    /\ n.type \in {"SCOPE_PUBLISHED", "SCOPE_UNPUBLISHED"}
    /\ SendOnly([Nothing EXCEPT !.apps =
          UNION {{ToApp(h, n.type, id) : h \in findActiveSubscriptions(id)} :
                    id \in Range(n.ids)}])
    /\ UNCHANGED <<pubs, subs, nodes, hosts, gc, fault>>

updateConf(n) ==
    /\ n.type \in {"UPDATE_RVFID", "UPDATE_TMFID"}
    /\ gc' = IF n.type = "UPDATE_RVFID" THEN [gc EXCEPT !.rv = n.fid]
                                        ELSE [gc EXCEPT !.tm = n.fid]
    /\ SendOnly(Nothing)
    /\ UNCHANGED <<pubs, subs, nodes, hosts, fault>>

handleRVNotification(n) ==
    \/ startPublish(n)
    \/ updateFID(n)
    \/ stopPublish(n)
    \/ scopeNotification(n)
    \/ updateConf(n)

\* UPDATE_FID_iSUB: f gives implicit subscribers their FIDs.  The table of
\* an ActiveNode may still point to an application that is gone.
updateNodeFIDs(f) ==
    LET named == DOMAIN f \cap DOMAIN nodes
        heard == {n \in named : DOMAIN nodes[n].publishers # {}}
        state(n) == IF zero(f[n]) THEN "STOP_PUBLISH_iSUB"
                                  ELSE "START_PUBLISH_iSUB"
        first(n) == First(nodes[n].publishers)
    IN  /\ nodes' = [n \in DOMAIN nodes |->
              IF n \notin named THEN nodes[n]
              ELSE [fid |-> f[n],
                    publishers |-> IF n \in heard
                       THEN [nodes[n].publishers EXCEPT ![first(n)] = state(n)]
                       ELSE nodes[n].publishers]]
        /\ SendOnly([Nothing EXCEPT !.apps =
                        {ToApp(first(n), state(n), <<n>>) : n \in heard}])
        /\ fault' = \E n \in heard : first(n) \notin DOMAIN hosts
        /\ UNCHANGED <<pubs, subs, hosts, gc>>

-----------------------------------------------------------------------------
(***************************************************************************)
(* Data.                                                                   *)
(***************************************************************************)
listens(h, id) == h \in SubscribersAt(id) \cup SubscribersAt(Father(id))

\* The local subscribers to any of the given IDs.
findLocalSubscribers(ids) ==
    UNION {SubscribersAt(id) \cup SubscribersAt(Father(id)) : id \in ids}

\* Host h publishes data under id with the FID of its publication, or of the
\* publication of the father.
userPublication(h, id, type) ==
    LET own == id \in DOMAIN pubs
        at == IF own THEN id ELSE Father(id)
        ids == IF own THEN Range(pubs[at].known) ELSE {id}
        local == findLocalSubscribers(ids) \ {h}
        state == IF h \in DOMAIN pubs[at].publishers
                 THEN pubs[at].publishers[h] ELSE "none"
    IN  IF at \notin DOMAIN pubs THEN Nothing
        ELSE IF ~ zero(pubs[at].fid)
        THEN [Nothing EXCEPT !.net = {ToNet(type, ids, pubs[at].fid)},
                             !.apps = {ToApp(g, type, id) : g \in local}]
        ELSE IF state \in {"RE_PUBLISH", "PAUSE_PUBLISH"}
        THEN [Nothing EXCEPT !.apps = {ToApp(h, state, id)}]
        ELSE Nothing

publishData(h, id) ==
    /\ hosts' = getLocalHost(h)
    /\ SendOnly(userPublication(h, id, "DATA"))
    /\ UNCHANGED <<pubs, subs, nodes, gc, fault>>

\* The IDs of data published with a given FID: those its father is known by.
augmented(id) ==
    {id} \cup IF Father(id) \in DOMAIN pubs
              THEN {Append(k, Suffix(id)) : k \in Range(pubs[Father(id)].known)}
              ELSE {}

\* Data under id for the FID of the application (IMPLICIT_RENDEZVOUS,
\* LINK_LOCAL, and BROADCAST_IF, whose FID has all bits set).
givenFID(h, id, fid) ==
    LET ids == augmented(id)
        local == findLocalSubscribers(ids) \ {h}
        remote == local = {} \/ zero(gc.tm) \/ fid # gc.tm
    IN  [Nothing EXCEPT
           !.net = IF remote THEN {ToNet("DATA", ids, fid)} ELSE {},
           !.apps = {ToApp(g, "DATA", id) : g \in local}]

publishImplicit(h, id, fid) ==
    /\ hosts' = getLocalHost(h)
    /\ SendOnly(givenFID(h, id, fid))
    /\ UNCHANGED <<pubs, subs, nodes, gc, fault>>

\* Data from the network reach each local subscriber once, under the last
\* of the IDs that it listens to.
lastHeard(h, ids) ==
    ids[CHOOSE i \in DOMAIN ids :
           /\ listens(h, ids[i])
           /\ \A j \in DOMAIN ids : listens(h, ids[j]) => j <= i]

networkPublication(ids, type) ==
    {ToApp(h, type, lastHeard(h, ids)) : h \in findLocalSubscribers(Range(ids))}

publicationFromNetwork(ids) ==
    /\ SendOnly([Nothing EXCEPT !.apps = networkPublication(ids, "DATA")])
    /\ UNCHANGED <<pubs, subs, nodes, hosts, gc, fault>>

-----------------------------------------------------------------------------
(***************************************************************************)
(* Implicit subscriptions.                                                 *)
(***************************************************************************)

NewNode(ids) ==
    [fid |-> {}, publishers |-> [h \in findLocalSubscribers(Range(ids)) |->
                                    "STOP_PUBLISH_iSUB"]]

\* Data and the implicit subscription of node n arrive from the network: a
\* path to n is requested unless one is known.
implicitSubscription(n, ids) ==
    LET new == n \notin DOMAIN nodes
        request == new \/ zero(nodes[n].fid)
    IN  /\ nodes' = IF new THEN Put(nodes, n, NewNode(ids)) ELSE nodes
        /\ SendOnly([Nothing EXCEPT
                       !.isub = IF request THEN {n} ELSE {},
                       !.apps = networkPublication(ids, "DATA_iSUB")])
        /\ UNCHANGED <<pubs, subs, hosts, gc, fault>>

\* An application publishes under id and subscribes implicitly to sid, which
\* is in the payload.  It is read after the packet is sent or freed, unless
\* the publication waits for a new FID; then any ID may be found there.
publishISub(h, id, sid) ==
    LET message == userPublication(h, id, "DATA_iSUB")
        intact == \E m \in message.apps : m.type \in PublisherState
    IN  \E read \in IF intact THEN {sid} ELSE Inputs.isubs :
          /\ subs' = storedSubscription(h, read, "DOMAIN_LOCAL", FALSE, gc.rv)
          /\ hosts' = recordedSubscription(h, read, "DOMAIN_LOCAL")
          /\ SendOnly(message)
          /\ UNCHANGED <<pubs, nodes, gc, fault>>

\* Data for the implicit subscribers N.  The bits of a FID of size 0 are read
\* from whatever follows it in memory.  Without a publication the packet is
\* freed twice.
publishMulticast(h, id, N) ==
    LET at == IF id \in DOMAIN pubs THEN id ELSE Father(id)
        fids == {nodes[n].fid : n \in N \cap DOMAIN nodes}
        known == UNION (fids \ {NoFID})
    IN  /\ hosts' = getLocalHost(h)
        /\ \/ /\ at \in DOMAIN pubs
              /\ pubs' = [pubs EXCEPT ![at].known = <<id>>]
              /\ \E fid \in IF NoFID \in fids THEN {f \in FID : known \subseteq f}
                                              ELSE {known} :
                    SendOnly([Nothing EXCEPT !.net = {ToNet("DATA", {id}, fid)}])
              /\ UNCHANGED fault
           \/ /\ at \notin DOMAIN pubs
              /\ fault' = TRUE
              /\ SendOnly(Nothing)
              /\ UNCHANGED pubs
        /\ UNCHANGED <<subs, nodes, gc>>

-----------------------------------------------------------------------------
(***************************************************************************)
(* Link failures, and losing and regaining the network.                    *)
(***************************************************************************)
crosses(lid, fid) == ~ zero(fid) /\ lid \subseteq fid

BadInvalidated(p) == \* the notified publishers stay as they are
    [p EXCEPT !.fid = NoFID]

invalidated(p) ==
    [p EXCEPT !.fid = NoFID,
              !.publishers = [h \in DOMAIN p.publishers |->
                 IF p.publishers[h] = "START_PUBLISH" THEN "RE_PUBLISH"
                                                      ELSE p.publishers[h]]]

\* A link failed: the FIDs that use it are dropped, and new ones requested
\* for implicit subscribers.  The AND with a FID of size 0 is asserted away.
processTMNotification(lid) ==
    /\ pubs' = [id \in DOMAIN pubs |->
                  IF ~ pubs[id].isScope /\ crosses(lid, pubs[id].fid)
                  THEN invalidated(pubs[id]) ELSE pubs[id]]
    /\ fault' = \E n \in DOMAIN nodes : nodes[n].fid = NoFID
    /\ UNCHANGED <<subs, nodes, gc>>

affectedNodes(lid) == {n \in DOMAIN nodes : crosses(lid, nodes[n].fid)}

linkFailed(lid) ==
    /\ processTMNotification(lid)
    /\ SendOnly([Nothing EXCEPT !.isub = affectedNodes(lid)])
    /\ UNCHANGED hosts

\* The topology manager of this node announces it: first to the network, and
\* then to this proxy, which by then has freed the packet unless some other
\* application listens.
tmPublication(h, fid, lid) ==
    LET local == findLocalSubscribers(augmented(pathMgmtIID)) \ {h}
        sent == givenFID(h, pathMgmtIID, fid).net
    IN  \E read \in IF local = {} THEN Inputs.links ELSE {lid} :
          /\ processTMNotification(read)
          /\ SendOnly([Nothing EXCEPT !.net = sent,
                                      !.isub = affectedNodes(read)])
          /\ hosts' = getLocalHost(h)

paused(p) ==
    [p EXCEPT !.fid = NoFID,
              !.publishers = [h \in DOMAIN p.publishers |->
                 IF p.publishers[h] # "STOP_PUBLISH" THEN "PAUSE_PUBLISH"
                                                     ELSE "STOP_PUBLISH"]]

PausedAt(id) == {h \in DOMAIN pubs[id].publishers :
                    ~ pubs[id].isScope
                    /\ pubs[id].publishers[h] = "PAUSE_PUBLISH"}

resumed(id) ==
    [pubs[id] EXCEPT !.publishers = [h \in DOMAIN pubs[id].publishers |->
        IF h \in PausedAt(id) THEN "RESUME_PUBLISH" ELSE pubs[id].publishers[h]]]

updateStates(status) ==
    \/ /\ status = "DISCONNECTED"
       /\ gc' = [gc EXCEPT !.rv = NoFID, !.status = status]
       /\ pubs' = [id \in DOMAIN pubs |->
                     IF pubs[id].isScope THEN pubs[id] ELSE paused(pubs[id])]
       /\ nodes' = [n \in DOMAIN nodes |-> [nodes[n] EXCEPT !.fid = NoFID]]
       /\ SendOnly(Nothing)
    \/ /\ status = "RECONNECTED"
       /\ gc' = [gc EXCEPT !.status = status]
       /\ pubs' = [id \in DOMAIN pubs |-> resumed(id)]
       /\ SendOnly([Nothing EXCEPT
             !.apps = UNION {{ToApp(h, "RESUME_PUBLISH", pubs[id].known[1]) :
                                h \in PausedAt(id)} : id \in DOMAIN pubs},
             !.isub = DOMAIN nodes])
       /\ UNCHANGED nodes

handleMappRequest(h, q) ==
    /\ hosts' = getLocalHost(h)
    /\ \/ /\ q \in {"GET_NODEID", "GET_RVTMFID"}
          /\ SendOnly([Nothing EXCEPT !.apps = {ToApp(h, q, <<>>)}])
          /\ UNCHANGED <<pubs, nodes, gc>>
       \/ updateStates(q)
    /\ UNCHANGED <<subs, fault>>

-----------------------------------------------------------------------------
Step(in) ==
    /\ ~ fault
    /\ \/ \E r \in in.requests : handleLocalRequest(r)
       \/ \E h \in in.hosts : disconnect(h)
       \/ \E n \in in.notifications : handleRVNotification(n)
       \/ \E f \in in.nodeNotices : updateNodeFIDs(f)
       \/ \E h \in in.hosts, id \in in.published : publishData(h, id)
       \/ \E h \in in.hosts, id \in in.published, fid \in in.fids :
             publishImplicit(h, id, fid)
       \/ \E ids \in in.packets : publicationFromNetwork(ids)
       \/ \E n \in in.nodes, ids \in in.packets : implicitSubscription(n, ids)
       \/ \E h \in in.hosts, id \in in.published, sid \in in.isubs :
             publishISub(h, id, sid)
       \/ \E h \in in.hosts, id \in in.published, N \in (SUBSET in.nodes) \ {{}} :
             publishMulticast(h, id, N)
       \/ \E lid \in in.links : linkFailed(lid)
       \/ \E h \in in.hosts, lid \in in.links, fid \in in.fids :
             tmPublication(h, fid, lid)
       \/ \E h \in in.hosts, q \in in.mapp : handleMappRequest(h, q)

Next == Step(Inputs)

Spec == Init /\ [][Next]_vars

-----------------------------------------------------------------------------
(***************************************************************************)
(* Properties.                                                             *)
(***************************************************************************)
PublicationType(p) ==
    /\ p.strategy \in Reaching /\ p.isScope \in BOOLEAN
    /\ p.rvfid \in AnyFID /\ p.fid \in AnyFID
    /\ p.known \in Seq(FullID)
    /\ DOMAIN p.publishers \subseteq Host
    /\ \A h \in DOMAIN p.publishers : p.publishers[h] \in PublisherState

SubscriptionType(p) ==
    /\ p.strategy \in Strategy /\ p.isScope \in BOOLEAN
    /\ p.rvfid \in AnyFID /\ p.subscribers \subseteq Host

NodeType(p) ==
    /\ p.fid \in AnyFID
    /\ DOMAIN p.publishers \subseteq Host
    /\ \A h \in DOMAIN p.publishers : p.publishers[h] \in NodeState

\* The types of the tables LocalProxy declares (localproxy.hh).
TypeOK ==
    /\ DOMAIN pubs \subseteq FullID
    /\ \A id \in DOMAIN pubs : PublicationType(pubs[id])
    /\ DOMAIN subs \subseteq FullID
    /\ \A id \in DOMAIN subs : SubscriptionType(subs[id])
    /\ DOMAIN nodes \subseteq NodeID
    /\ \A n \in DOMAIN nodes : NodeType(nodes[n])
    /\ DOMAIN hosts \subseteq Host
    /\ \A h \in DOMAIN hosts : hosts[h].pubs \subseteq FullID
                               /\ hosts[h].subs \subseteq FullID
    /\ gc.rv \in AnyFID /\ gc.tm \in FID
    /\ fault \in BOOLEAN

\* The record of every application lists exactly the publications and
\* subscriptions that list the application, and none is without an
\* application: disconnect() follows the records without checking them, and
\* what it does not reach would point to a deleted LocalHost.
PublishersAgree ==
    /\ \A id \in DOMAIN pubs : DOMAIN pubs[id].publishers # {}
    /\ \A id \in DOMAIN pubs : DOMAIN pubs[id].publishers \subseteq DOMAIN hosts
    /\ \A h \in DOMAIN hosts :
          hosts[h].pubs = {id \in DOMAIN pubs : h \in DOMAIN pubs[id].publishers}

SubscribersAgree ==
    /\ \A id \in DOMAIN subs : subs[id].subscribers # {}
    /\ \A id \in DOMAIN subs : subs[id].subscribers \subseteq DOMAIN hosts
    /\ \A h \in DOMAIN hosts :
          hosts[h].subs = {id \in DOMAIN subs : h \in subs[id].subscribers}

RecordsAgree == PublishersAgree /\ SubscribersAgree

Active ==
    {<<Place(pubs[id].rvfid), "pub", id>> : id \in DOMAIN pubs}
      \cup {<<Place(subs[id].rvfid), "sub", id>> : id \in DOMAIN subs}

\* The rendezvous points hold no registration of this node that no
\* application of the node stands behind: the last one to unpublish,
\* unsubscribe or disconnect has it removed.
RVNotStale == atRV \subseteq Active

\* The rendezvous points hold exactly the registrations of the applications,
\* although only some of the requests are forwarded to them.
RVInformed == atRV = Active

\* A publisher that was ever notified belongs to a publication with a known
\* ID: updateStates() reads allKnownIDs[0] of every publication it resumes.
ResumeHasID ==
    \A id \in DOMAIN pubs : \A h \in DOMAIN pubs[id].publishers :
        pubs[id].publishers[h] # "STOP_PUBLISH" => pubs[id].known # <<>>

StartedOnPath(id) == NotifiedAt(id) # {} => ~ zero(pubs[id].fid)

\* A publisher told to start has a path to publish on: its data are not
\* dropped by handleUserPublication().
StartedHasPath == \A id \in DOMAIN pubs : StartedOnPath(id)

\* An application is notified only about items it publishes itself, and
\* about scopes under scopes it subscribes to.
NotifiedOwnIDs ==
    \A m \in out.apps :
        /\ m.type \in PublisherState \cup {"UPDATE_PUBLISH"} =>
              m.id \in DOMAIN pubs /\ m.host \in DOMAIN pubs[m.id].publishers
        /\ m.type \in {"SCOPE_PUBLISHED", "SCOPE_UNPUBLISHED"} =>
              m.host \in SubscribersAt(Father(m.id))

\* When an application disconnects, an item that had a notified publisher
\* and keeps some publisher still has a notified one.
HandsOver ==
    \A id \in DOMAIN pubs \cap DOMAIN pubs' :
       (~ pubs[id].isScope /\ NotifiedAt(id) # {} /\ (NotifiedAt(id))' = {})
          => \A h \in DOMAIN hosts : ~ disconnect(h)

\* disconnect() undoes a scope only after the scopes below it: the rendezvous
\* point refuses to drop a scope that still has something under it.
DeepestFirst ==
    \A i, j \in DOMAIN out.rv : i < j =>
        \A m \in out.rv[i], k \in out.rv[j] :
            m.type = k.type => Len(k.id) <= Len(m.id)

\* Whatever happens to links and to the network, only a leaving publisher can
\* leave a started one without a path: processTMNotification() and
\* updateStates() take the started state away together with the FID.
PathLossNoticed ==
    \A id \in DOMAIN pubs \cap DOMAIN pubs' :
       (StartedOnPath(id) /\ ~ StartedOnPath(id)')
          => \E h \in Host : disconnect(h)

\* No publisher is started, stopped or resumed without being told.
NoSilentChange ==
    \A id \in DOMAIN pubs \cap DOMAIN pubs' :
      \A h \in DOMAIN pubs[id].publishers \cap DOMAIN pubs'[id].publishers :
         LET new == pubs'[id].publishers[h] IN
         (/\ new # pubs[id].publishers[h]
          /\ new \in {"START_PUBLISH", "STOP_PUBLISH", "RESUME_PUBLISH"})
         => \E m \in out'.apps : m.host = h /\ m.type = new

-----------------------------------------------------------------------------
(***************************************************************************)
(* What the comments of the code say and the code does not keep to.        *)
(***************************************************************************)
\* activepub.hh: only one publisher of a publication is notified at a time.
OnlyOneNotified ==
    \A id \in DOMAIN pubs : \A g, h \in NotifiedAt(id) : g = h

\* localproxy.hh: after disconnect() the application is like it never existed.
LikeItNeverExisted ==
    \A n \in DOMAIN nodes : DOMAIN nodes[n].publishers \subseteq DOMAIN hosts

\* The tables of LocalProxy are well typed, and the publications and
\* subscriptions agree with the sets each local host keeps of its own
\* (addPublisher, removePublisher and their like change both).
TablesAgree == TypeOK /\ RecordsAgree

\* Whatever else happens, an item passes from a leaving notified publisher to
\* another one, nobody's state changes without a notification, and a lost path
\* is noticed (disconnect, processTMNotification, updateStates).
ChangesNoticed == [][HandsOver /\ NoSilentChange /\ PathLossNoticed]_vars
=============================================================================
