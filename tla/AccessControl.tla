--------------------------- MODULE AccessControl ---------------------------
(***************************************************************************)
(* The higher layer of addons/access_control/: requests with a payload and *)
(* rendezvous points of one's own (core/), and the rendezvous that compares *)
(* passwords (simple_authentication/).  An end point hands its request to  *)
(* the rendezvous as an information item of a common scope; the rendezvous *)
(* tells both sides, in the same way, the name under which they talk.      *)
(*                                                                         *)
(* Names: <<"rvs", n>> a request, <<"re", n>> the answer to it, <<"ack", n>>*)
(* an acknowledgement, <<"c", n>> a name drawn by the rendezvous; rndRId is *)
(* taken to draw a new one each time.  Blackadder is external: a publisher *)
(* hears START_PUBLISH once another process subscribes to its item, data   *)
(* goes to the other subscribers, and events to one process may overtake.  *)
(***************************************************************************)
EXTENDS Naturals
LOCAL INSTANCE Sequences
LOCAL INSTANCE FiniteSets
LOCAL INSTANCE SequencesExt

CONSTANTS
    AcPublisher, AcSubscriber,  \* end points
    AcPassword,     \* end point -> the payload of its request
    MAX_PACKET      \* MAX_PACKET_SIZE, small

ASSUME PacketAssumption == MAX_PACKET \in Nat /\ MAX_PACKET > 2

VARIABLES
    infos,          \* items published: [by, id]
    acSubs,         \* items subscribed: [by, id]
    acEvents,       \* events under way: [to, type, id, data]
    buffered,       \* publications waiting for START_PUBLISH: [by, id, data]
    AppIDtoLowerID, \* the name an end point publishes its data under, or {}
    LowerIDtoAppId, \* the names an end point knows: [by, id]
    pubpass, pubpub, \* the rendezvous: the password and the publisher's answer id, or {}
    drawn,          \* names drawn so far
    acShown,        \* what subscribers were shown: [by, what]
    acAsked         \* end points that made their requests

acVars == <<infos, acSubs, acEvents, buffered, AppIDtoLowerID, LowerIDtoAppId, pubpass, pubpub,
            drawn, acShown, acAsked>>

EndPoint == AcPublisher \cup AcSubscriber
RV == "rv"

Event(to, type, id, data) == [to |-> to, type |-> type, id |-> id, data |-> data]

(***************************************************************************)
(* Blackadder: what the calls of one step come to.                         *)
(***************************************************************************)
\* The rendezvous subscribes to the common scope (listen)
Wants(q, id, subs) == [by |-> q, id |-> id] \in subs \/ (q = RV /\ id[1] = "rvs")
Process == EndPoint \cup {RV}

\* publish_info and subscribe_info of p, with the matches they make
Starts(pubs, subs, news) ==
    {Event(i.by, "START_PUBLISH", i.id, <<>>) : i \in {i \in pubs : \E q \in Process \ {i.by} :
         Wants(q, i.id, subs) /\ (i \in news \/ [by |-> q, id |-> i.id] \in news)}}

DataFor(p, id, data) ==
    {Event(q, "PUBLISHED_DATA", id, data) : q \in {q \in Process \ {p} : Wants(q, id, acSubs)}}

(***************************************************************************)
(* Transport: packets of at most MAX_PACKET bytes, two of them a counter.  *)
(***************************************************************************)
\* publish_data: the sizes of the packets of n bytes
Packets(n) == [k \in 1..(n \div (MAX_PACKET - 2)) |-> MAX_PACKET]
              \o <<(n % (MAX_PACKET - 2)) + 2>>

\* eventHandler: what is collected, and handed up with a packet that is not full
BadeventHandler(b, size) ==
    LET all == b.data + (IF size > 2 THEN size - 2 ELSE 0)
    IN  IF size <= MAX_PACKET THEN [data |-> 0, up |-> Append(b.up, all)]
        ELSE [b EXCEPT !.data = all]
eventHandler(b, size) ==
    LET all == b.data + (IF size > 2 THEN size - 2 ELSE 0)
    IN  IF size < MAX_PACKET THEN [data |-> 0, up |-> Append(b.up, all)]
        ELSE [b EXCEPT !.data = all]
Collected(packets) == FoldLeft(eventHandler, [data |-> 0, up |-> <<>>], packets).up

(***************************************************************************)
(* End points (BaseEP, PubSubWPayloadAPI).                                 *)
(***************************************************************************)
getResponseRId(id) == <<"re", id[2]>>

\* The common part of the *_wpl calls: the payload is kept, the answers are
\* subscribed to, then the request is published
RequestAs(p, type, n) ==
    LET id == <<"rvs", n>>
        subs == {[by |-> p, id |-> <<"ack", n>>], [by |-> p, id |-> getResponseRId(id)]} IN
    [keep |-> {[by |-> p, id |-> id, data |-> <<type, AcPassword[p]>>]},
     subs |-> subs, infos |-> {[by |-> p, id |-> id]}]

publish_scope_wpl(p, n) == RequestAs(p, "SCOPE", n)
publish_info_wpl(p, n) == RequestAs(p, "PUBLISH", n)
subscribe_info_wpl(p, n) == RequestAs(p, "SUBSCRIBE", n)

Ask(p, requests) ==
    LET subs == acSubs \cup UNION {r.subs : r \in requests}
        new == UNION {r.infos : r \in requests} IN
    /\ p \notin acAsked
    /\ acAsked' = acAsked \cup {p}
    /\ drawn' = drawn + Cardinality(requests)
    /\ buffered' = buffered \cup UNION {r.keep : r \in requests}
    /\ acSubs' = subs
    /\ infos' = infos \cup new
    /\ acEvents' = acEvents \cup Starts(new, subs, new)
    /\ UNCHANGED <<AppIDtoLowerID, LowerIDtoAppId, pubpass, pubpub, acShown>>

startPulish(p) == Ask(p, {publish_scope_wpl(p, drawn + 1), publish_info_wpl(p, drawn + 2)})
startSubscribe(p) == Ask(p, {subscribe_info_wpl(p, drawn + 1)})

\* START_PUBLISH for something kept: it is published, unpublished and forgotten
\* (the rendezvous unpublishes an acknowledgement in the wrong scope, to no effect)
SendKept(e) ==
    \E b \in buffered :
        /\ b.by = e.to /\ b.id = e.id
        /\ acEvents' = (acEvents \ {e}) \cup DataFor(e.to, e.id, b.data)
        /\ infos' = IF e.id[1] = "ack" THEN infos ELSE infos \ {[by |-> e.to, id |-> e.id]}
        /\ buffered' = buffered \ {b}
        /\ UNCHANGED <<acSubs, AppIDtoLowerID, LowerIDtoAppId, pubpass, pubpub, drawn,
                       acShown, acAsked>>

\* publish_data of the application: under the last name it was told
publish_data_app(p, id) ==
    UNION {DataFor(p, name, <<"CONTENT">>) : name \in
           IF [by |-> p, id |-> id] \in LowerIDtoAppId THEN AppIDtoLowerID[p] ELSE {}}

\* START_PUBLISH for anything else: the application is told to start
TellApplication(e) ==
    /\ \A b \in buffered : b.by # e.to \/ b.id # e.id
    /\ acEvents' = (acEvents \ {e}) \cup publish_data_app(e.to, e.id)
    /\ UNCHANGED <<infos, acSubs, buffered, AppIDtoLowerID, LowerIDtoAppId, pubpass, pubpub,
                   drawn, acShown, acAsked>>

\* PUBLICATION_MATCH and SUBSCRIPTION_MATCH: the name is noted, then
\* published or subscribed to
Matched(e) ==
    LET name == e.data[2]
        mine == [by |-> e.to, id |-> name]
        pubs == IF e.data[1] = "PUBLICATION_MATCH" THEN infos \cup {mine} ELSE infos
        subs == IF e.data[1] = "PUBLICATION_MATCH" THEN acSubs ELSE acSubs \cup {mine} IN
    /\ e.data[1] \in {"PUBLICATION_MATCH", "SUBSCRIPTION_MATCH"}
    /\ AppIDtoLowerID' = [AppIDtoLowerID EXCEPT ![e.to] = {name}]
    /\ LowerIDtoAppId' = LowerIDtoAppId \cup {mine}
    /\ infos' = pubs /\ acSubs' = subs
    /\ acEvents' = (acEvents \ {e}) \cup Starts(pubs, subs, {mine})
    /\ UNCHANGED <<buffered, pubpass, pubpub, drawn, acShown, acAsked>>

\* Data, or a message of the rendezvous, for the application
Shown(e) ==
    /\ e.data[1] \in {"CONTENT", "WRONG"}
    /\ acShown' = acShown \cup {[by |-> e.to, what |-> e.data[1]]}
    /\ acEvents' = acEvents \ {e}
    /\ UNCHANGED <<infos, acSubs, buffered, AppIDtoLowerID, LowerIDtoAppId, pubpass, pubpub,
                   drawn, acAsked>>

(***************************************************************************)
(* The rendezvous (BaseRV, ACRV).                                          *)
(***************************************************************************)
\* A publication of the rendezvous, kept until START_PUBLISH
Publish(kept, e) ==
    LET new == {[by |-> RV, id |-> k.id] : k \in kept} IN
    /\ buffered' = {b \in buffered : \A k \in kept : b.by # RV \/ b.id # k.id} \cup kept
    /\ infos' = infos \cup new
    /\ acEvents' = (acEvents \ {e}) \cup Starts(new, acSubs, new)

new_pub_scope(e) ==
    /\ acEvents' = acEvents \ {e}
    /\ UNCHANGED <<infos, buffered, pubpass, pubpub, drawn>>

new_pub_info(e) ==
    /\ pubpass' = {e.data[2]}
    /\ pubpub' = {getResponseRId(e.id)}
    /\ acEvents' = acEvents \ {e}
    /\ UNCHANGED <<infos, buffered, drawn>>

\* notifyPubSub: the same new name to both sides
notifyPubSub(toPub, toSub, e) ==
    /\ drawn' = drawn + 1
    /\ Publish({[by |-> RV, id |-> toPub, data |-> <<"PUBLICATION_MATCH", <<"c", drawn + 1>>>>],
                [by |-> RV, id |-> toSub, data |-> <<"SUBSCRIPTION_MATCH", <<"c", drawn + 1>>>>]}, e)

sendACK(e) ==
    /\ Publish({[by |-> RV, id |-> <<"ack", e.id[2]>>, data |-> <<"WRONG", <<>>>>]}, e)
    /\ UNCHANGED drawn

Badnew_sub_info(e) ==
    /\ \/ pubpass # {} /\ \E p \in pubpub : notifyPubSub(p, getResponseRId(e.id), e)
       \/ pubpass = {} /\ sendACK(e)
    /\ UNCHANGED <<pubpass, pubpub>>
new_sub_info(e) ==
    /\ \/ pubpass = {e.data[2]} /\ \E p \in pubpub : notifyPubSub(p, getResponseRId(e.id), e)
       \/ pubpass # {e.data[2]} /\ sendACK(e)
    /\ UNCHANGED <<pubpass, pubpub>>

\* fromLowerLayer of the rendezvous: an answer it kept is called for
RVAnswer(e) == e.to = RV /\ e.type = "START_PUBLISH" /\ SendKept(e)

\* fromLowerLayer of the rendezvous: a request of an end point
RVRequest(e) ==
    /\ e.to = RV /\ e.type = "PUBLISHED_DATA"
    /\ \/ e.data[1] = "SCOPE" /\ new_pub_scope(e)
       \/ e.data[1] = "PUBLISH" /\ new_pub_info(e)
       \/ e.data[1] = "SUBSCRIBE" /\ new_sub_info(e)
    /\ UNCHANGED <<acSubs, AppIDtoLowerID, LowerIDtoAppId, acShown, acAsked>>

AcInit ==
    /\ infos = {} /\ acSubs = {} /\ acEvents = {} /\ buffered = {}
    /\ AppIDtoLowerID = [p \in EndPoint |-> {}] /\ LowerIDtoAppId = {}
    /\ pubpass = {} /\ pubpub = {}
    /\ drawn = 0 /\ acShown = {} /\ acAsked = {}

\* fromLowerLayer of an end point
EndPointEvent(e) ==
    /\ e.to # RV
    /\ \/ e.type = "START_PUBLISH" /\ (SendKept(e) \/ TellApplication(e))
       \/ e.type = "PUBLISHED_DATA" /\ (Matched(e) \/ Shown(e))

AcNext ==
    \/ \E p \in AcPublisher : startPulish(p)
    \/ \E s \in AcSubscriber : startSubscribe(s)
    \/ \E e \in acEvents : EndPointEvent(e) \/ RVAnswer(e) \/ RVRequest(e)

AcSpec == AcInit /\ [][AcNext]_acVars

(***************************************************************************)
(* Properties.                                                             *)
(***************************************************************************)
\* A message of any size arrives as one.
MessagesWhole == \A n \in 0..(3 * MAX_PACKET) : Collected(Packets(n)) = <<n>>

\* A subscriber is shown the content only if its password is the publisher's,
\* and the notice of a wrong password never follows once the rendezvous has
\* matched it (ACRV::new_sub_info and the relay through notifyPubSub, Matched
\* and publish_data under the last name told); a message of any size arrives
\* as one (Transport::publish_data and eventHandler).
OnlyMatched ==
    /\ \A x \in acShown : x.what = "CONTENT" =>
          /\ \E p \in AcPublisher : AcPassword[p] = AcPassword[x.by]
          /\ [x EXCEPT !.what = "WRONG"] \notin acShown
    /\ MessagesWhole

=============================================================================
