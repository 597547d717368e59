---------------------------- MODULE MCLocalProxy ----------------------------
(***************************************************************************)
(* Small instances of LocalProxy: who asks for what in each run.           *)
(***************************************************************************)
EXTENDS LocalProxy

A == <<"a">>
AB == <<"a", "b">>
AI == <<"a", "i">>
BI == <<"b", "i">>

\* All requests of the given types by the given hosts for one ID.
Asks(types, H, id, strategies) ==
    {[type |-> t, host |-> h, id |-> <<Suffix(id)>>, prefix |-> Father(id),
      strategy |-> s] : t \in types, h \in H, s \in strategies}

PubScope == {"PUBLISH_SCOPE", "UNPUBLISH_SCOPE"}
PubInfo == {"PUBLISH_INFO", "UNPUBLISH_INFO"}
SubScope == {"SUBSCRIBE_SCOPE", "UNSUBSCRIBE_SCOPE"}
SubInfo == {"SUBSCRIBE_INFO", "UNSUBSCRIBE_INFO"}

Note(type, ids, fid) == [type |-> type, ids |-> ids, fid |-> fid]

NoInput == [hosts |-> {1, 2}, nodes |-> {}, requests |-> {}, notifications |-> {},
            nodeNotices |-> {}, links |-> {}, published |-> {}, fids |-> {},
            isubs |-> {}, packets |-> {}, mapp |-> {}]

\* Two applications, two scopes and an item; the strategies may disagree.
PubSub == [NoInput EXCEPT
    !.requests = Asks(PubScope \cup SubScope, {1}, A, {"DOMAIN_LOCAL"})
                   \cup Asks(PubScope \cup SubScope, {1, 2}, AB, {"DOMAIN_LOCAL"})
                   \cup Asks(PubInfo, {1}, AI, Reaching)
                   \cup Asks(PubInfo, {2}, AI, {"DOMAIN_LOCAL"})
                   \cup Asks(SubInfo, {2}, AI, {"DOMAIN_LOCAL"}),
    !.notifications = {Note("SCOPE_PUBLISHED", <<AB>>, {}),
                       Note("UPDATE_RVFID", <<>>, {"r2"})},
    !.packets = {<<AI>>}]

\* Three applications publish one item under one or both of its IDs.
Notify == [NoInput EXCEPT
    !.hosts = {1, 2, 3},
    !.requests = Asks(PubInfo, {1, 2, 3}, AI, {"DOMAIN_LOCAL"})
                   \cup Asks({"PUBLISH_INFO"}, {2, 3}, BI, {"DOMAIN_LOCAL"}),
    !.notifications = {Note("START_PUBLISH", <<AI>>, {"l"}),
                       Note("START_PUBLISH", <<AI, BI>>, {"l"}),
                       Note("UPDATE_FID", <<AI, BI>>, {"l", "m"}),
                       Note("STOP_PUBLISH", <<AI, BI>>, {}),
                       Note("UPDATE_TMFID", <<>>, {"r"})},
    !.published = {AI}]

\* Two publishers while links fail and the node loses its network.
Failures == [NoInput EXCEPT
    !.requests = Asks(PubInfo, {1, 2}, AI, {"DOMAIN_LOCAL"})
                   \cup Asks(PubScope, {1}, A, {"DOMAIN_LOCAL"}),
    !.notifications = {Note("START_PUBLISH", <<AI>>, {"l", "m"}),
                       Note("UPDATE_FID", <<AI>>, {"m"}),
                       Note("STOP_PUBLISH", <<AI>>, {})},
    !.links = {{"l"}}, !.published = {AI}, !.fids = {{"l"}},
    !.mapp = MappRequest]

\* A server application subscribes, clients subscribe implicitly.
ISub == [NoInput EXCEPT
    !.nodes = {"x"},
    !.requests = Asks(SubInfo \cup PubInfo, {1}, AI, {"DOMAIN_LOCAL"})
                   \cup Asks(PubScope, {2}, A, {"DOMAIN_LOCAL"}),
    !.notifications = {Note("START_PUBLISH", <<AI>>, {"l"})},
    !.nodeNotices = {[n \in {"x"} |-> {"l"}], [n \in {"x"} |-> {}]},
    !.links = {{"l"}}, !.published = {AI}, !.isubs = {AI, BI},
    !.packets = {<<AI>>}]

Workload == [pubsub |-> PubSub, notify |-> Notify,
             failures |-> Failures, isub |-> ISub]

AllInputs == [f \in DOMAIN NoInput |->
                UNION {Workload[w][f] : w \in DOMAIN Workload}]

RV1 == {"r"}
TM1 == {"t"}
PathID == <<"path", "path">>

\* Each behaviour stays with the messages of one workload.
VARIABLE load

MCInit == Init /\ load \in DOMAIN Workload
MCNext == Step(Workload[load]) /\ UNCHANGED load
MCSpec == MCInit /\ [][MCNext]_<<vars, load>>

\* Unless the network is lost (then requests go to the element LocalRV of this
\* very node), the rendezvous points hold no registration that no application
\* stands behind; and where nobody subscribes implicitly (that is never sent)
\* they hold exactly the registrations of the applications, although the proxy
\* forwards only some of the requests.
RVUpToDate ==
    Workload[load].mapp = {} =>
        RVNotStale /\ (Workload[load].isubs = {} => RVInformed)

\* As long as no link fails, a publisher told to start has a path to publish
\* on: neither a leaving publisher nor STOP_PUBLISH leaves one behind whose
\* data would be dropped.
StartedHasPathUnlessFailed ==
    Workload[load].links = {} => StartedHasPath

\* A started publisher has a path, the item of a resumed one has an ID that
\* updateStates() can notify it with, and notifications name only what the
\* application publishes or subscribes to.
PublishersServed == StartedHasPathUnlessFailed /\ ResumeHasID /\ NotifiedOwnIDs
=============================================================================
