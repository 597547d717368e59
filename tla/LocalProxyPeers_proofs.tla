----------------------- MODULE LocalProxyPeers_proofs -----------------------
(***************************************************************************)
(* What those LocalProxy talks to may rely on, for every set of            *)
(* applications, IDs, forwarding identifiers and messages: the rendezvous  *)
(* points know what the applications of the node publish and subscribe to, *)
(* and applications are told about what they publish themselves.           *)
(***************************************************************************)
EXTENDS LocalProxy_proofs

(***************************************************************************)
(* What the rendezvous points know of this node.                           *)
(***************************************************************************)
\* The domain is in order: its rendezvous point can be reached and the node
\* does not lose its network, the strategies are the two that involve a
\* rendezvous point, and where links fail (so that items are published
\* again) the publishers of an item agree on the strategy.
DomainInOrder ==
    /\ DefaultRV # {} /\ "DISCONNECTED" \notin Inputs.mapp
    /\ \A n \in Inputs.notifications : n.type = "UPDATE_RVFID" => n.fid # {}
    /\ \A r \in Inputs.requests : r.strategy \in Reaching
    /\ \/ Inputs.links = {}
       \/ \A q, r \in Inputs.requests :
             /\ q.type \in PublishTypes /\ r.type \in PublishTypes
             /\ FullIDOf(q) = FullIDOf(r)
             => q.strategy = r.strategy

\* The rendezvous point that a request of this strategy goes to.
PlaceOf(strategy) == IF strategy = "DOMAIN_LOCAL" /\ ~ IsRV THEN "domain" ELSE "local"

Placed(table) ==
    \A id \in DOMAIN table : /\ Place(table[id].rvfid) = PlaceOf(table[id].strategy)
                             /\ table[id].strategy \in Reaching

\* disconnect() finds a scope on one of its levels.
Shallow(table) == \A id \in DOMAIN table : table[id].isScope => Len(id) <= MaxDepth

Asked == \A id \in DOMAIN pubs : \E q \in Inputs.requests :
            q.type \in PublishTypes /\ FullIDOf(q) = id /\ q.strategy = pubs[id].strategy

Unbroken == Inputs.links = {} =>
    \A id \in DOMAIN pubs : \A h \in DOMAIN pubs[id].publishers :
        pubs[id].publishers[h] \in {"STOP_PUBLISH", "START_PUBLISH"}

Known == RVNotStale /\ (Inputs.isubs = {} => RVInformed)

RVInv == /\ ~ zero(gc.rv) /\ Placed(pubs) /\ Placed(subs)
         /\ Shallow(pubs) /\ Shallow(subs) /\ Asked /\ Unbroken /\ Known

LEMMA PlaceOfRequest ==
    ASSUME ~ zero(gc.rv), NEW strategy PROVE Place(RVFIDOf(strategy)) = PlaceOf(strategy)
BY DEF RVFIDOf, Place, PlaceOf, zero

LEMMA SendAdds ==
    ASSUME NEW m, NEW apps, Send(<<{m}>>, apps),
           m.type \notin UnpublishTypes \cup UnsubscribeTypes
    PROVE  atRV' = atRV \cup {Registration(m)}
<1>1. UNION Range(<<{m}>>) = {m}
  BY DEF Range
<1>2. QED BY <1>1, Zenon DEF Send

LEMMA SendRemoves ==
    ASSUME NEW m, NEW apps, Send(<<{m}>>, apps),
           m.type \in UnpublishTypes \cup UnsubscribeTypes
    PROVE  atRV' = atRV \ {Registration(m)}
<1>1. UNION Range(<<{m}>>) = {m}
  BY DEF Range
<1>2. QED BY <1>1, Zenon DEF Send

LEMMA RegistrationIs ==
    ASSUME NEW type, NEW id, NEW strategy, NEW rvfid
    PROVE  /\ ToRV(type, id, strategy, rvfid).type = type
           /\ Registration(ToRV(type, id, strategy, rvfid)) = <<Place(rvfid), Role(type), id>>
BY DEF ToRV, Registration

\* An entry comes, goes, changes in other fields, or is asked for again.
LEMMA KnownMore ==
    ASSUME Known, NEW g, Active' = Active \cup {g}, atRV' = atRV \cup {g}
    PROVE  Known'
BY DEF Known, RVNotStale, RVInformed

LEMMA KnownLess ==
    ASSUME Known, NEW G, Active' = Active \ G, atRV' = atRV \ G
    PROVE  Known'
BY DEF Known, RVNotStale, RVInformed

LEMMA KnownSame ==
    ASSUME Known, Active' = Active, atRV' = atRV
    PROVE  Known'
BY DEF Known, RVNotStale, RVInformed

\* The fields that a registration depends on.
FieldsKept(table, new) ==
    /\ DOMAIN new = DOMAIN table
    /\ \A id \in DOMAIN table : /\ new[id].strategy = table[id].strategy
                                /\ new[id].rvfid = table[id].rvfid
                                /\ new[id].isScope = table[id].isScope

LEMMA FieldsActive ==
    ASSUME FieldsKept(pubs, pubs'), FieldsKept(subs, subs') PROVE Active' = Active
<1>1. \A id \in DOMAIN pubs : Place(pubs'[id].rvfid) = Place(pubs[id].rvfid)
  BY DEF FieldsKept
<1>2. \A id \in DOMAIN subs : Place(subs'[id].rvfid) = Place(subs[id].rvfid)
  BY DEF FieldsKept
<1>3. DOMAIN pubs' = DOMAIN pubs /\ DOMAIN subs' = DOMAIN subs
  BY DEF FieldsKept
<1>4. QED BY <1>1, <1>2, <1>3 DEF Active

LEMMA FieldsRVInv ==
    ASSUME RVInv, FieldsKept(pubs, pubs'), FieldsKept(subs, subs'), atRV' = atRV,
           ~ zero(gc'.rv), Unbroken'
    PROVE  RVInv'
<1>1. Active' = Active
  BY FieldsActive
<1>2. Known'
  BY <1>1, KnownSame DEF RVInv
<1>3. Placed(pubs)' /\ Shallow(pubs)' /\ Asked'
  BY DEF RVInv, FieldsKept, Placed, Shallow, Asked
<1>4. Placed(subs)' /\ Shallow(subs)'
  BY DEF RVInv, FieldsKept, Placed, Shallow
<1>5. QED BY <1>2, <1>3, <1>4 DEF RVInv
LEMMA KnownAgain ==
    ASSUME Known, NEW g \in Active, Active' = Active, atRV' = atRV \cup {g}
    PROVE  Known'
BY DEF Known, RVNotStale, RVInformed

LEMMA PubsFieldsKept ==
    ASSUME UNCHANGED pubs PROVE FieldsKept(pubs, pubs')
BY DEF FieldsKept

LEMMA SubsFieldsKept ==
    ASSUME UNCHANGED subs PROVE FieldsKept(subs, subs')
BY DEF FieldsKept

LEMMA RequestShallow ==
    ASSUME NEW r \in Inputs.requests PROVE Len(FullIDOf(r)) <= MaxDepth
<1>1. r \in Request /\ Len(r.prefix) < MaxDepth /\ MaxDepth \in Nat
  BY InputTypes, InputAssumption
<1>2. r.prefix \in Seq(Fragment)
  BY <1>1 DEF Request
<1>3. Len(FullIDOf(r)) = Len(r.prefix) + 1
  BY <1>2 DEF FullIDOf
<1>4. QED BY <1>1, <1>2, <1>3

LEMMA StorePublicationKnown ==
    ASSUME DomainInOrder, IInv, RVInv, NEW r \in Inputs.requests, r.type \in PublishTypes,
           storeActivePublication(r, FullIDOf(r), RVFIDOf(r.strategy)), UNCHANGED <<subs, gc>>
    PROVE  RVInv'
<1> DEFINE h == r.host
           id == FullIDOf(r)
           s == r.strategy
           rvfid == RVFIDOf(s)
           m == ToRV(r.type, id, s, rvfid)
           g == <<PlaceOf(s), "pub", id>>
           p == NewPublication(h, s, r.type = "PUBLISH_SCOPE", rvfid)
           t == Put(pubs[id].publishers, h, "STOP_PUBLISH")
           q == [pubs[id] EXCEPT !.publishers = t]
<1>1. s \in Reaching /\ Len(id) <= MaxDepth /\ FieldsKept(subs, subs')
  BY RequestShallow, SubsFieldsKept, Zenon DEF DomainInOrder
<1>2. Place(rvfid) = PlaceOf(s)
  BY PlaceOfRequest DEF RVInv
<1>3. ASSUME Send(<<{m}>>, {}) PROVE atRV' = atRV \cup {g}
  <2>1. m.type = r.type /\ Registration(m) = g
    <3>1. Role(r.type) = "pub"
      BY DEF Role
    <3>2. QED BY <1>2, <3>1, RegistrationIs
  <2>2. r.type \notin UnpublishTypes \cup UnsubscribeTypes
    BY DEF PublishTypes, UnpublishTypes, UnsubscribeTypes
  <2> HIDE DEF m, g
  <2>3. QED BY <1>3, <2>1, <2>2, SendAdds
<1>4. /\ p.strategy = s /\ p.rvfid = rvfid /\ (p.isScope => Len(id) <= MaxDepth)
      /\ p.publishers = [x \in {h} |-> "STOP_PUBLISH"]
  BY <1>1, Zenon DEF NewPublication
<1>5. \/ id \notin DOMAIN pubs /\ pubs' = Put(pubs, id, p) /\ Send(<<{m}>>, {})
      \/ republishes(h, id) /\ UNCHANGED pubs /\ Send(<<{m}>>, {})
      \/ /\ publishedAs(id, s) /\ h \notin DOMAIN pubs[id].publishers
         /\ pubs' = [pubs EXCEPT ![id] = q] /\ SendOnly(Nothing)
      \/ UNCHANGED pubs /\ SendOnly(Nothing)
  BY Zenon DEF storeActivePublication
<1>6. atRV' = atRV \/ ~ SendOnly(Nothing)
  BY DEF SendOnly
<1>7. ~ zero(gc'.rv)
  BY DEF RVInv
<1> HIDE DEF m, p, q, t
<1>8. CASE id \notin DOMAIN pubs /\ pubs' = Put(pubs, id, p) /\ Send(<<{m}>>, {})
  <2> HIDE DEF id, s, rvfid, h
  <2>1. /\ DOMAIN pubs' = DOMAIN pubs \cup {id} /\ pubs'[id] = p
        /\ \A i \in DOMAIN pubs : pubs'[i] = pubs[i] /\ i # id
    BY <1>8 DEF Put
  <2>2. Active' = Active \cup {g}
    BY <1>2, <1>4, <2>1 DEF Active
  <2>3. Known'
    <3> HIDE DEF g
    <3>1. QED BY <1>3, <1>8, <2>2, KnownMore, Zenon DEF RVInv
  <2>4. Placed(pubs)' /\ Shallow(pubs)'
    BY <1>1, <1>2, <1>4, <2>1 DEF RVInv, Placed, Shallow
  <2>5. Placed(subs)' /\ Shallow(subs)'
    BY DEF RVInv, Placed, Shallow
  <2>6. Asked'
    BY <1>4, <2>1 DEF RVInv, Asked, id, s
  <2>7. Unbroken'
    BY <1>4, <2>1 DEF RVInv, Unbroken
  <2>8. QED BY <1>7, <2>3, <2>4, <2>5, <2>6, <2>7, Zenon DEF RVInv
<1>9. CASE republishes(h, id) /\ UNCHANGED pubs /\ Send(<<{m}>>, {})
  <2>1. id \in DOMAIN pubs /\ pubs[id].strategy = s
    <3>1. PICK x \in Inputs.requests :
             x.type \in PublishTypes /\ FullIDOf(x) = id /\ x.strategy = pubs[id].strategy
      BY <1>9 DEF republishes, RVInv, Asked
    <3>2. Inputs.links # {}
      BY <1>9 DEF republishes, RVInv, Unbroken
    <3>3. QED BY <1>9, <3>1, <3>2, Zenon DEF republishes, DomainInOrder
  <2> HIDE DEF id, s, h
  <2>2. g \in Active
    BY <2>1 DEF RVInv, Placed, Active
  <2>3. Active' = Active
    BY <1>1, <1>9, PubsFieldsKept, FieldsActive
  <2>4. Known'
    <3> HIDE DEF g
    <3>1. QED BY <1>3, <1>9, <2>2, <2>3, KnownAgain DEF RVInv
  <2>5. QED BY <1>7, <1>9, <2>4, Zenon DEF RVInv, Placed, Shallow, Asked, Unbroken
<1>10. CASE /\ publishedAs(id, s) /\ h \notin DOMAIN pubs[id].publishers
            /\ pubs' = [pubs EXCEPT ![id] = q] /\ SendOnly(Nothing)
  <2>1. id \in DOMAIN pubs /\ pubs[id] \in Publication
    BY <1>10 DEF publishedAs, IInv, TypeInv, IsTable
  <2> HIDE DEF id, s, h
  <2>2. /\ q.strategy = pubs[id].strategy /\ q.rvfid = pubs[id].rvfid
        /\ q.isScope = pubs[id].isScope /\ q.publishers = t
    BY <2>1 DEF q, Publication
  <2>3. /\ DOMAIN pubs' = DOMAIN pubs /\ pubs'[id] = q
        /\ \A i \in DOMAIN pubs : i # id => pubs'[i] = pubs[i]
    BY <1>10, <2>1
  <2>4. FieldsKept(pubs, pubs')
    BY <2>2, <2>3 DEF FieldsKept
  <2>5. Unbroken'
    BY <2>1, <2>2, <2>3 DEF RVInv, Unbroken, t, Put
  <2>6. QED BY <1>1, <1>6, <1>7, <1>10, <2>4, <2>5, FieldsRVInv
<1>11. CASE UNCHANGED pubs /\ SendOnly(Nothing)
  <2>1. Unbroken'
    BY <1>11 DEF RVInv, Unbroken
  <2>2. QED BY <1>1, <1>6, <1>7, <1>11, <2>1, PubsFieldsKept, FieldsRVInv
<1>12. QED BY <1>5, <1>8, <1>9, <1>10, <1>11, Zenon
\* What goes when the publications P and the subscriptions S go.
Gone(P, S) == {<<Place(pubs[id].rvfid), "pub", id>> : id \in P}
                 \cup {<<Place(subs[id].rvfid), "sub", id>> : id \in S}

Leaving(P, S) ==
    /\ DOMAIN pubs' = DOMAIN pubs \ P /\ DOMAIN subs' = DOMAIN subs \ S
    /\ \A id \in DOMAIN pubs' : pubs'[id].rvfid = pubs[id].rvfid
    /\ \A id \in DOMAIN subs' : subs'[id].rvfid = subs[id].rvfid

LEMMA ActiveLess == ASSUME NEW P, NEW S, Leaving(P, S) PROVE Active' = Active \ Gone(P, S)
<1>1. ASSUME NEW id \in DOMAIN pubs'
      PROVE  <<Place(pubs'[id].rvfid), "pub", id>> \in Active \ Gone(P, S)
  <2>1. id \in DOMAIN pubs /\ id \notin P /\ pubs'[id].rvfid = pubs[id].rvfid
    BY DEF Leaving
  <2>2. <<Place(pubs[id].rvfid), "pub", id>> \in Active
    BY <2>1 DEF Active
  <2>3. <<Place(pubs[id].rvfid), "pub", id>> \notin Gone(P, S)
    BY <2>1 DEF Gone
  <2>4. QED BY <2>1, <2>2, <2>3
<1>2. ASSUME NEW id \in DOMAIN subs'
      PROVE  <<Place(subs'[id].rvfid), "sub", id>> \in Active \ Gone(P, S)
  <2>1. id \in DOMAIN subs /\ id \notin S /\ subs'[id].rvfid = subs[id].rvfid
    BY DEF Leaving
  <2>2. <<Place(subs[id].rvfid), "sub", id>> \in Active
    BY <2>1 DEF Active
  <2>3. <<Place(subs[id].rvfid), "sub", id>> \notin Gone(P, S)
    BY <2>1 DEF Gone
  <2>4. QED BY <2>1, <2>2, <2>3
<1>3. Active' \subseteq Active \ Gone(P, S)
  BY <1>1, <1>2, Zenon DEF Active
<1>4. ASSUME NEW x \in Active, x \notin Gone(P, S) PROVE x \in Active'
  <2>1. ASSUME NEW id \in DOMAIN pubs, x = <<Place(pubs[id].rvfid), "pub", id>>
        PROVE  x \in Active'
    <3>1. id \notin P
      BY <1>4, <2>1 DEF Gone
    <3>2. id \in DOMAIN pubs' /\ pubs'[id].rvfid = pubs[id].rvfid
      BY <3>1 DEF Leaving
    <3>3. QED BY <2>1, <3>2 DEF Active
  <2>2. ASSUME NEW id \in DOMAIN subs, x = <<Place(subs[id].rvfid), "sub", id>>
        PROVE  x \in Active'
    <3>1. id \notin S
      BY <1>4, <2>2 DEF Gone
    <3>2. id \in DOMAIN subs' /\ subs'[id].rvfid = subs[id].rvfid
      BY <3>1 DEF Leaving
    <3>3. QED BY <2>2, <3>2 DEF Active
  <2>3. QED BY <2>1, <2>2, Zenon DEF Active
<1>5. QED BY <1>3, <1>4

LEMMA RemovePublicationKnown ==
    ASSUME DomainInOrder, IInv, RVInv, NEW r \in Inputs.requests, r.type \in UnpublishTypes,
           removeActivePublication(r, FullIDOf(r), RVFIDOf(r.strategy)), UNCHANGED <<subs, gc>>
    PROVE  RVInv'
<1> DEFINE h == r.host
           id == FullIDOf(r)
           s == r.strategy
           rvfid == RVFIDOf(s)
           m == ToRV(r.type, id, s, rvfid)
           g == <<PlaceOf(s), "pub", id>>
           t == Without(pubs[id].publishers, h)
           q == [pubs[id] EXCEPT !.publishers = t]
<1>1. FieldsKept(subs, subs') /\ ~ zero(gc'.rv)
  BY SubsFieldsKept DEF RVInv
<1>2. Place(rvfid) = PlaceOf(s)
  BY PlaceOfRequest DEF RVInv
<1>3. ASSUME Send(<<{m}>>, {}) PROVE atRV' = atRV \ {g}
  <2>1. m.type = r.type /\ Registration(m) = g
    <3>1. Role(r.type) = "pub"
      BY DEF Role
    <3>2. QED BY <1>2, <3>1, RegistrationIs
  <2>2. r.type \in UnpublishTypes \cup UnsubscribeTypes
    OBVIOUS
  <2> HIDE DEF m, g
  <2>3. QED BY <1>3, <2>1, <2>2, SendRemoves, Zenon
<1>4. \/ publishedAs(id, s) /\ pubs' = Without(pubs, id) /\ Send(<<{m}>>, {})
      \/ publishedAs(id, s) /\ pubs' = [pubs EXCEPT ![id] = q] /\ SendOnly(Nothing)
      \/ UNCHANGED pubs /\ SendOnly(Nothing)
  BY Zenon DEF removeActivePublication
<1>5. atRV' = atRV \/ ~ SendOnly(Nothing)
  BY DEF SendOnly
<1>6. publishedAs(id, s) => id \in DOMAIN pubs /\ pubs[id].strategy = s /\ pubs[id] \in Publication
  BY DEF publishedAs, IInv, TypeInv, IsTable
<1> HIDE DEF m, q, t, id, s, h, rvfid
<1>7. CASE publishedAs(id, s) /\ pubs' = Without(pubs, id) /\ Send(<<{m}>>, {})
  <2>1. DOMAIN pubs' = DOMAIN pubs \ {id} /\ \A i \in DOMAIN pubs' : pubs'[i] = pubs[i]
    BY <1>7 DEF Without
  <2>2. Place(pubs[id].rvfid) = PlaceOf(s)
    BY <1>6, <1>7 DEF RVInv, Placed
  <2>3. Active' = Active \ {g}
    <3>1. Leaving({id}, {})
      BY <2>1 DEF Leaving
    <3>2. Gone({id}, {}) = {g}
      BY <2>2 DEF Gone
    <3>3. QED BY <3>1, <3>2, ActiveLess
  <2>4. Known'
    <3> HIDE DEF g
    <3>1. QED BY <1>3, <1>7, <2>3, KnownLess, Zenon DEF RVInv
  <2>5. Placed(pubs)' /\ Shallow(pubs)' /\ Asked' /\ Unbroken'
    BY <2>1, Zenon DEF RVInv, Placed, Shallow, Asked, Unbroken
  <2>6. Placed(subs)' /\ Shallow(subs)'
    BY DEF RVInv, Placed, Shallow
  <2>7. QED BY <1>1, <2>4, <2>5, <2>6, Zenon DEF RVInv
<1>8. CASE publishedAs(id, s) /\ pubs' = [pubs EXCEPT ![id] = q] /\ SendOnly(Nothing)
  <2>1. /\ q.strategy = pubs[id].strategy /\ q.rvfid = pubs[id].rvfid
        /\ q.isScope = pubs[id].isScope /\ q.publishers = t
    BY <1>6, <1>8 DEF q, Publication
  <2>2. /\ DOMAIN pubs' = DOMAIN pubs /\ pubs'[id] = q
        /\ \A i \in DOMAIN pubs : i # id => pubs'[i] = pubs[i]
    BY <1>6, <1>8
  <2>3. FieldsKept(pubs, pubs')
    BY <2>1, <2>2 DEF FieldsKept
  <2>4. Unbroken'
    BY <1>6, <1>8, <2>1, <2>2 DEF RVInv, Unbroken, t, Without
  <2>5. QED BY <1>1, <1>5, <1>8, <2>3, <2>4, FieldsRVInv, Zenon
<1>9. CASE UNCHANGED pubs /\ SendOnly(Nothing)
  <2>1. Unbroken'
    BY <1>9 DEF RVInv, Unbroken
  <2>2. QED BY <1>1, <1>5, <1>9, <2>1, PubsFieldsKept, FieldsRVInv
<1>10. QED BY <1>4, <1>7, <1>8, <1>9

\* The table after a subscription that asks for strategy s.
LEMMA StoredIs ==
    ASSUME IInv, NEW h, NEW id, NEW s, NEW scope, NEW rvfid,
           subs' = storedSubscription(h, id, s, scope, rvfid)
    PROVE  \/ /\ id \notin DOMAIN subs /\ DOMAIN subs' = DOMAIN subs \cup {id}
              /\ \A i \in DOMAIN subs : subs'[i] = subs[i]
              /\ subs'[id].strategy = s /\ subs'[id].rvfid = rvfid /\ subs'[id].isScope = scope
           \/ id \in DOMAIN subs /\ FieldsKept(subs, subs')
<1>1. CASE id \notin DOMAIN subs
  <2> DEFINE p == NewSubscription(h, s, scope, rvfid)
  <2>1. subs' = Put(subs, id, p)
    BY <1>1 DEF storedSubscription
  <2>2. p.strategy = s /\ p.rvfid = rvfid /\ p.isScope = scope
    BY DEF NewSubscription
  <2> HIDE DEF p
  <2>3. QED BY <1>1, <2>1, <2>2 DEF Put
<1>2. CASE id \in DOMAIN subs
  <2> DEFINE p == [subs[id] EXCEPT !.subscribers = subs[id].subscribers \cup {h}]
  <2>1. subs' = subs \/ subs' = [subs EXCEPT ![id] = p]
    BY <1>2, Zenon DEF storedSubscription
  <2>2. subs[id] \in Subscription
    BY <1>2 DEF IInv, TypeInv, IsTable
  <2>3. /\ p.strategy = subs[id].strategy /\ p.rvfid = subs[id].rvfid
        /\ p.isScope = subs[id].isScope
    BY <2>2 DEF Subscription
  <2> HIDE DEF p
  <2>4. QED BY <1>2, <2>1, <2>3 DEF FieldsKept
<1>3. QED BY <1>1, <1>2

LEMMA StoreSubscriptionKnown ==
    ASSUME DomainInOrder, IInv, RVInv, NEW r \in Inputs.requests, r.type \in SubscribeTypes,
           storeActiveSubscription(r, FullIDOf(r), RVFIDOf(r.strategy)), UNCHANGED <<pubs, gc>>
    PROVE  RVInv'
<1> DEFINE id == FullIDOf(r)
           s == r.strategy
           rvfid == RVFIDOf(s)
           scope == r.type = "SUBSCRIBE_SCOPE"
           m == ToRV(r.type, id, s, rvfid)
           g == <<PlaceOf(s), "sub", id>>
<1>1. s \in Reaching /\ Len(id) <= MaxDepth /\ FieldsKept(pubs, pubs') /\ ~ zero(gc'.rv)
  BY RequestShallow, PubsFieldsKept DEF DomainInOrder, RVInv
<1>2. Place(rvfid) = PlaceOf(s)
  BY PlaceOfRequest DEF RVInv
<1>3. ASSUME Send(<<{m}>>, {}) PROVE atRV' = atRV \cup {g}
  <2>1. m.type = r.type /\ Registration(m) = g
    <3>1. Role(r.type) = "sub"
      BY Zenon DEF Role, SubscribeTypes, PublishTypes, UnpublishTypes
    <3>2. QED BY <1>2, <3>1, RegistrationIs, Zenon
  <2>2. r.type \notin UnpublishTypes \cup UnsubscribeTypes
    BY DEF SubscribeTypes, UnpublishTypes, UnsubscribeTypes
  <2> HIDE DEF m, g
  <2>3. QED BY <1>3, <2>1, <2>2, SendAdds
<1>4. subs' = storedSubscription(r.host, id, s, scope, rvfid)
  BY Zenon DEF storeActiveSubscription
<1>5. IF subscriptionForwarded(id, s) THEN Send(<<{m}>>, {}) ELSE SendOnly(Nothing)
  BY Zenon DEF storeActiveSubscription
<1>6. atRV' = atRV \/ ~ SendOnly(Nothing)
  BY DEF SendOnly
<1>7. Asked' /\ Unbroken' /\ Placed(pubs)' /\ Shallow(pubs)'
  BY Zenon DEF RVInv, Asked, Unbroken, Placed, Shallow
<1> HIDE DEF m, id, s, rvfid, scope
<1>8. CASE id \notin DOMAIN subs
  <2>1. /\ DOMAIN subs' = DOMAIN subs \cup {id} /\ \A i \in DOMAIN subs : subs'[i] = subs[i]
        /\ subs'[id].strategy = s /\ subs'[id].rvfid = rvfid
    BY <1>4, <1>8, StoredIs, Zenon
  <2>2. Active' = Active \cup {g}
    BY <1>2, <1>8, <2>1 DEF Active
  <2>3. atRV' = atRV \cup {g}
    BY <1>1, <1>3, <1>5, <1>8 DEF subscriptionForwarded
  <2>4. Known'
    <3> HIDE DEF g
    <3>1. QED BY <2>2, <2>3, KnownMore DEF RVInv
  <2>5. Placed(subs)' /\ Shallow(subs)'
    BY <1>1, <1>2, <1>8, <2>1 DEF RVInv, Placed, Shallow
  <2>6. QED BY <1>1, <1>7, <2>4, <2>5 DEF RVInv
<1>9. CASE id \in DOMAIN subs
  <2>1. FieldsKept(subs, subs')
    BY <1>4, <1>9, StoredIs, Zenon
  <2>2. CASE SendOnly(Nothing)
    BY <1>1, <1>6, <1>7, <2>1, <2>2, FieldsRVInv
  <2>3. CASE subscriptionForwarded(id, s) /\ Send(<<{m}>>, {})
    <3>1. subs[id].strategy = s
      BY <1>9, <2>3 DEF subscriptionForwarded, subscribedAs
    <3>2. g \in Active
      BY <1>9, <3>1 DEF RVInv, Placed, Active
    <3>3. Active' = Active
      BY <1>1, <2>1, FieldsActive
    <3>4. Known'
      <4> HIDE DEF g
      <4>1. QED BY <1>3, <2>3, <3>2, <3>3, KnownAgain, Zenon DEF RVInv
    <3>5. Placed(subs)' /\ Shallow(subs)'
      BY <2>1, Zenon DEF RVInv, Placed, Shallow, FieldsKept
    <3>6. QED BY <1>1, <1>7, <3>4, <3>5 DEF RVInv
  <2>4. QED BY <1>5, <2>2, <2>3
<1>10. QED BY <1>8, <1>9
LEMMA RemoveSubscriptionKnown ==
    ASSUME DomainInOrder, IInv, RVInv, NEW r \in Inputs.requests, r.type \in UnsubscribeTypes,
           removeActiveSubscription(r, FullIDOf(r), RVFIDOf(r.strategy)), UNCHANGED <<pubs, gc>>
    PROVE  RVInv'
<1> DEFINE id == FullIDOf(r)
           s == r.strategy
           rvfid == RVFIDOf(s)
           m == ToRV(r.type, id, s, rvfid)
           g == <<PlaceOf(s), "sub", id>>
           t == subs[id].subscribers \ {r.host}
           q == [subs[id] EXCEPT !.subscribers = t]
<1>1. s \in Reaching /\ FieldsKept(pubs, pubs') /\ ~ zero(gc'.rv)
  BY PubsFieldsKept DEF RVInv, DomainInOrder
<1>2. Place(rvfid) = PlaceOf(s)
  BY PlaceOfRequest DEF RVInv
<1>3. ASSUME Send(<<{m}>>, {}) PROVE atRV' = atRV \ {g}
  <2>1. m.type = r.type /\ Registration(m) = g
    <3>1. Role(r.type) = "sub"
      BY DEF Role, UnsubscribeTypes, PublishTypes, UnpublishTypes
    <3>2. QED BY <1>2, <3>1, RegistrationIs, Zenon
  <2>2. r.type \in UnpublishTypes \cup UnsubscribeTypes
    OBVIOUS
  <2> HIDE DEF m, g
  <2>3. QED BY <1>3, <2>1, <2>2, SendRemoves
<1>4. \/ subscribedAs(id, s) /\ subs' = Without(subs, id) /\ Send(<<{m}>>, {})
      \/ subscribedAs(id, s) /\ subs' = [subs EXCEPT ![id] = q] /\ SendOnly(Nothing)
      \/ UNCHANGED subs /\ SendOnly(Nothing)
  BY <1>1, Zenon DEF removeActiveSubscription
<1>5. atRV' = atRV \/ ~ SendOnly(Nothing)
  BY DEF SendOnly
<1>6. subscribedAs(id, s) =>
         id \in DOMAIN subs /\ subs[id].strategy = s /\ subs[id] \in Subscription
  BY DEF subscribedAs, IInv, TypeInv, IsTable
<1>7. Asked' /\ Unbroken' /\ Placed(pubs)' /\ Shallow(pubs)'
  BY Zenon DEF RVInv, Asked, Unbroken, Placed, Shallow
<1> HIDE DEF m, q, t, id, s, rvfid
<1>8. CASE subscribedAs(id, s) /\ subs' = Without(subs, id) /\ Send(<<{m}>>, {})
  <2>1. DOMAIN subs' = DOMAIN subs \ {id} /\ \A i \in DOMAIN subs' : subs'[i] = subs[i]
    BY <1>8 DEF Without
  <2>2. Place(subs[id].rvfid) = PlaceOf(s)
    BY <1>6, <1>8, Zenon DEF RVInv, Placed
  <2>3. Active' = Active \ {g}
    <3>1. Leaving({}, {id})
      BY <2>1 DEF Leaving
    <3>2. Gone({}, {id}) = {g}
      BY <2>2 DEF Gone
    <3>3. QED BY <3>1, <3>2, ActiveLess
  <2>4. Known'
    <3> HIDE DEF g
    <3>1. QED BY <1>3, <1>8, <2>3, KnownLess, Zenon DEF RVInv
  <2>5. Placed(subs)' /\ Shallow(subs)'
    BY <2>1 DEF RVInv, Placed, Shallow
  <2>6. QED BY <1>1, <1>7, <2>4, <2>5 DEF RVInv
<1>9. CASE subscribedAs(id, s) /\ subs' = [subs EXCEPT ![id] = q] /\ SendOnly(Nothing)
  <2>1. /\ q.strategy = subs[id].strategy /\ q.rvfid = subs[id].rvfid
        /\ q.isScope = subs[id].isScope
    BY <1>6, <1>9 DEF q, Subscription
  <2>2. FieldsKept(subs, subs')
    BY <1>6, <1>9, <2>1, Zenon DEF FieldsKept
  <2>3. QED BY <1>1, <1>5, <1>7, <1>9, <2>2, FieldsRVInv, Zenon
<1>10. CASE UNCHANGED subs /\ SendOnly(Nothing)
  BY <1>1, <1>5, <1>7, <1>10, SubsFieldsKept, FieldsRVInv
<1>11. QED BY <1>4, <1>8, <1>9, <1>10

LEMMA RequestKnown ==
    ASSUME DomainInOrder, IInv, RVInv, NEW r \in Inputs.requests, handleLocalRequest(r)
    PROVE  RVInv'
<1>1. UNCHANGED gc
  BY DEF handleLocalRequest
<1>2. \/ /\ r.type \in PublishTypes /\ UNCHANGED subs
         /\ storeActivePublication(r, FullIDOf(r), RVFIDOf(r.strategy))
      \/ /\ r.type \in UnpublishTypes /\ UNCHANGED subs
         /\ removeActivePublication(r, FullIDOf(r), RVFIDOf(r.strategy))
      \/ /\ r.type \in SubscribeTypes /\ UNCHANGED pubs
         /\ storeActiveSubscription(r, FullIDOf(r), RVFIDOf(r.strategy))
      \/ /\ r.type \in UnsubscribeTypes /\ UNCHANGED pubs
         /\ removeActiveSubscription(r, FullIDOf(r), RVFIDOf(r.strategy))
  BY Zenon DEF handleLocalRequest
<1>3. QED BY <1>1, <1>2, StorePublicationKnown, RemovePublicationKnown,
             StoreSubscriptionKnown, RemoveSubscriptionKnown, Zenon

\* All that an application leaves behind is undone, the scopes on the level
\* of their depth.
LEMMA UndoneRegistrations ==
    ASSUME NEW type, NEW table, NEW ids
    PROVE  {Registration(m) : m \in Undone(type, table, ids)}
              = {<<Place(table[id].rvfid), Role(type), id>> : id \in ids}
<1> DEFINE R(id) == ToRV(type, id, table[id].strategy, table[id].rvfid)
<1>1. \A id : Registration(R(id)) = <<Place(table[id].rvfid), Role(type), id>>
  BY RegistrationIs
<1>2. Undone(type, table, ids) = {R(id) : id \in ids}
  BY DEF Undone
<1> HIDE DEF R
<1>3. QED BY <1>1, <1>2

LEMMA LevelsUndo ==
    ASSUME NEW type, NEW table, NEW ids, \A id \in ids : Len(id) \in 1..MaxDepth
    PROVE  UNION {Levels(type, table, ids)[i] : i \in 1..MaxDepth} = Undone(type, table, ids)
<1> DEFINE level(i) == {id \in ids : Len(id) = MaxDepth + 1 - i}
<1>1. \A i \in 1..MaxDepth : Levels(type, table, ids)[i] = Undone(type, table, level(i))
  BY DEF Levels
<1>2. \A id \in ids : \E i \in 1..MaxDepth : id \in level(i)
  <2> SUFFICES ASSUME NEW id \in ids PROVE \E i \in 1..MaxDepth : id \in level(i)
    OBVIOUS
  <2>1. MaxDepth + 1 - Len(id) \in 1..MaxDepth
    BY InputAssumption
  <2>2. Len(id) = MaxDepth + 1 - (MaxDepth + 1 - Len(id))
    BY InputAssumption
  <2>3. QED BY <2>1, <2>2
<1>3. \A i \in 1..MaxDepth : level(i) \subseteq ids
  OBVIOUS
<1> HIDE DEF level
<1>4. QED BY <1>1, <1>2, <1>3 DEF Undone

LEMMA SendUndoes ==
    ASSUME NEW batches, NEW apps, Send(batches, apps),
           \A m \in UNION Range(batches) : m.type \in UnpublishTypes \cup UnsubscribeTypes
    PROVE  atRV' = atRV \ {Registration(m) : m \in UNION Range(batches)}
<1> DEFINE sent == UNION Range(batches)
           undo == {m \in sent : m.type \in UnpublishTypes \cup UnsubscribeTypes}
<1>1. atRV' = (atRV \ {Registration(m) : m \in undo}) \cup {Registration(m) : m \in sent \ undo}
  BY DEF Send
<1>2. undo = sent
  OBVIOUS
<1> HIDE DEF undo, sent
<1>3. QED BY <1>1, <1>2 DEF sent

ByLevel(C) == C = [i \in 1..MaxDepth |-> C[i]]

LEMMA BatchesAre ==
    ASSUME NEW A, NEW B, NEW C, NEW D, ByLevel(C), ByLevel(D)
    PROVE  UNION Range(<<A, B>> \o C \o D)
              = A \cup B \cup (UNION {C[i] : i \in 1..MaxDepth})
              \cup (UNION {D[i] : i \in 1..MaxDepth})
<1> DEFINE n == MaxDepth
           S == {A, B} \cup {C[i] : i \in 1..n} \cup {D[i] : i \in 1..n}
           all == <<A, B>> \o C \o D
<1>1. n \in Nat
  BY InputAssumption
<1>2. C \in [1..n -> S] /\ D \in [1..n -> S]
  BY DEF ByLevel
<1> HIDE DEF n
<1>3. /\ <<A, B>> \in Seq(S) /\ C \in Seq(S) /\ D \in Seq(S)
      /\ Len(C) = n /\ Len(D) = n
  <2>2. A \in S /\ B \in S
    OBVIOUS
  <2> HIDE DEF S
  <2>3. QED BY <1>1, <1>2, <2>2
<1> HIDE DEF S
<1>4. /\ DOMAIN all = 1 .. 2 + n + n
      /\ all[1] = A /\ all[2] = B
      /\ \A i \in 3 .. 2 + n : all[i] = C[i - 2]
      /\ \A i \in 3 + n .. 2 + n + n : all[i] = D[i - 2 - n]
  BY <1>1, <1>3
<1> HIDE DEF all
<1>5. \A i \in 1..n : /\ i + 2 \in 3 .. 2 + n /\ i + 2 \in DOMAIN all
                      /\ i + 2 + n \in 3 + n .. 2 + n + n /\ i + 2 + n \in DOMAIN all
                      /\ (i + 2) - 2 = i /\ (i + 2 + n) - 2 - n = i
  BY <1>1, <1>4
<1>6. \A i \in 1..n : all[i + 2] = C[i] /\ all[i + 2 + n] = D[i]
  BY <1>4, <1>5, Zenon
<1>7. ASSUME NEW i \in DOMAIN all
      PROVE  all[i] \in {A, B} \/ \E j \in 1..n : all[i] = C[j] \/ all[i] = D[j]
  <2>1. CASE i \in {1, 2}
    BY <1>4, <2>1
  <2>2. CASE i \in 3 .. 2 + n
    <3>1. i - 2 \in 1..n
      BY <1>1, <2>2
    <3>2. QED BY <1>4, <2>2, <3>1
  <2>3. CASE i \in 3 + n .. 2 + n + n
    <3>1. i - 2 - n \in 1..n
      BY <1>1, <2>3
    <3>2. QED BY <1>4, <2>3, <3>1, Zenon
  <2>4. QED BY <1>1, <1>4, <2>1, <2>2, <2>3
<1>8. 1 \in DOMAIN all /\ 2 \in DOMAIN all
  BY <1>1, <1>4
<1>9. ASSUME NEW m
      PROVE  (\E i \in DOMAIN all : m \in all[i])
                <=> (m \in A \/ m \in B \/ \E j \in 1..n : m \in C[j] \/ m \in D[j])
  <2>1. ASSUME NEW i \in DOMAIN all, m \in all[i]
        PROVE  m \in A \/ m \in B \/ \E j \in 1..n : m \in C[j] \/ m \in D[j]
    BY <1>7, <2>1
  <2>2. CASE m \in A \/ m \in B
    BY <1>4, <1>8, <2>2
  <2>3. ASSUME NEW j \in 1..n, m \in C[j] \/ m \in D[j] PROVE \E i \in DOMAIN all : m \in all[i]
    BY <1>5, <1>6, <2>3, Zenon
  <2>4. QED BY <2>1, <2>2, <2>3, Zenon
<1>10. UNION Range(all) = A \cup B \cup (UNION {C[i] : i \in 1..n})
              \cup (UNION {D[i] : i \in 1..n})
  <2>1. Range(all) = {all[i] : i \in DOMAIN all}
    BY DEF Range
  <2>2. \A m : m \in UNION Range(all) <=> \E i \in DOMAIN all : m \in all[i]
    BY <2>1, Zenon
  <2> DEFINE Z == A \cup B \cup (UNION {C[i] : i \in 1..n})
              \cup (UNION {D[i] : i \in 1..n})
  <2>3. \A m : m \in Z <=> m \in A \/ m \in B \/ \E j \in 1..n : m \in C[j] \/ m \in D[j]
    BY Zenon
  <2> HIDE DEF Z
  <2>4. \A m : m \in UNION Range(all) <=> m \in Z
    BY <1>9, <2>2, <2>3, Zenon
  <2>5. UNION Range(all) = Z
    BY <2>4, Zenon
  <2>6. QED BY <2>5 DEF Z
<1>11. QED BY <1>10, Zenon DEF all, n

LEMMA DisconnectUndoes ==
    ASSUME DomainInOrder, IInv, RVInv, NEW h \in Host, disconnect(h)
    PROVE  atRV' = atRV \ Gone(lastPublished(h), lastSubscribed(h))
<1> DEFINE P == lastPublished(h)
           T == lastSubscribed(h)
           told == {id \in T : subs[id].strategy \in Reaching}
           itemsOf(table, ids) == {id \in ids : ~ table[id].isScope}
           scopesOf(table, ids) == {id \in ids : table[id].isScope}
           A == Undone("UNPUBLISH_INFO", pubs, itemsOf(pubs, P))
           B == Undone("UNSUBSCRIBE_INFO", subs, itemsOf(subs, told))
           C == Levels("UNPUBLISH_SCOPE", pubs, scopesOf(pubs, P))
           D == Levels("UNSUBSCRIBE_SCOPE", subs, scopesOf(subs, told))
           E == Undone("UNPUBLISH_SCOPE", pubs, scopesOf(pubs, P))
           F == Undone("UNSUBSCRIBE_SCOPE", subs, scopesOf(subs, told))
           all == <<A, B>> \o C \o D
<1>1. \E apps : Send(all, apps)
  BY Zenon DEF disconnect
<1>2. P \subseteq DOMAIN pubs /\ T \subseteq DOMAIN subs
  BY RecordIsList DEF lastPublished, lastSubscribed
<1>3. told = T
  BY <1>2 DEF RVInv, Placed
<1>4. /\ \A id \in scopesOf(pubs, P) : Len(id) \in 1..MaxDepth
      /\ \A id \in scopesOf(subs, told) : Len(id) \in 1..MaxDepth
  <2>1. \A id \in FullID : Len(id) \in Nat /\ Len(id) > 0
    BY DEF FullID
  <2>2. DOMAIN pubs \subseteq FullID /\ DOMAIN subs \subseteq FullID
    BY DEF IInv, TypeInv, IsTable
  <2>3. /\ \A id \in scopesOf(pubs, P) : id \in FullID /\ Len(id) <= MaxDepth
        /\ \A id \in scopesOf(subs, told) : id \in FullID /\ Len(id) <= MaxDepth
    BY <1>2, <2>2 DEF RVInv, Shallow
  <2>4. QED BY <2>1, <2>3, InputAssumption
<1>5. /\ UNION {C[i] : i \in 1..MaxDepth} = E
      /\ UNION {D[i] : i \in 1..MaxDepth} = F
  BY <1>4, LevelsUndo, Zenon
<1>6. ByLevel(C) /\ ByLevel(D)
  BY DEF Levels, ByLevel
<1>7. UNION Range(all) = A \cup B \cup E \cup F
  <2> HIDE DEF A, B, C, D, E, F
  <2>1. UNION Range(<<A, B>> \o C \o D)
           = A \cup B \cup (UNION {C[i] : i \in 1..MaxDepth})
              \cup (UNION {D[i] : i \in 1..MaxDepth})
    BY <1>6, BatchesAre
  <2>2. QED BY <1>5, <2>1, Zenon
<1>8. /\ \A m \in A : m.type = "UNPUBLISH_INFO"
      /\ \A m \in B : m.type = "UNSUBSCRIBE_INFO"
      /\ \A m \in E : m.type = "UNPUBLISH_SCOPE"
      /\ \A m \in F : m.type = "UNSUBSCRIBE_SCOPE"
  BY UndoneIs
<1> DEFINE G(type, table, ids) == {<<Place(table[id].rvfid), Role(type), id>> : id \in ids}
<1>9. /\ {Registration(m) : m \in A} = G("UNPUBLISH_INFO", pubs, itemsOf(pubs, P))
      /\ {Registration(m) : m \in B} = G("UNSUBSCRIBE_INFO", subs, itemsOf(subs, told))
      /\ {Registration(m) : m \in E} = G("UNPUBLISH_SCOPE", pubs, scopesOf(pubs, P))
      /\ {Registration(m) : m \in F} = G("UNSUBSCRIBE_SCOPE", subs, scopesOf(subs, told))
  <2> HIDE DEF P, told, itemsOf, scopesOf
  <2>1. {Registration(m) : m \in A} = G("UNPUBLISH_INFO", pubs, itemsOf(pubs, P))
    BY UndoneRegistrations, Zenon
  <2>2. {Registration(m) : m \in B} = G("UNSUBSCRIBE_INFO", subs, itemsOf(subs, told))
    BY UndoneRegistrations, Zenon
  <2>3. {Registration(m) : m \in E} = G("UNPUBLISH_SCOPE", pubs, scopesOf(pubs, P))
    BY UndoneRegistrations, Zenon
  <2>4. {Registration(m) : m \in F} = G("UNSUBSCRIBE_SCOPE", subs, scopesOf(subs, told))
    BY UndoneRegistrations
  <2>5. QED BY <2>1, <2>2, <2>3, <2>4, Zenon
<1>10. /\ Role("UNPUBLISH_INFO") = "pub" /\ Role("UNPUBLISH_SCOPE") = "pub"
       /\ Role("UNSUBSCRIBE_INFO") = "sub" /\ Role("UNSUBSCRIBE_SCOPE") = "sub"
  BY DEF Role, PublishTypes, UnpublishTypes
<1> HIDE DEF A, B, C, D, E, F, all
<1>11. atRV' = atRV \ {Registration(m) : m \in A \cup B \cup E \cup F}
  <2>1. \A m \in UNION Range(all) : m.type \in UnpublishTypes \cup UnsubscribeTypes
    BY <1>7, <1>8 DEF UnpublishTypes, UnsubscribeTypes
  <2>2. QED BY <1>1, <1>7, <2>1, SendUndoes, Zenon
<1>12. {Registration(m) : m \in A \cup B \cup E \cup F}
          = {Registration(m) : m \in A} \cup {Registration(m) : m \in B}
               \cup {Registration(m) : m \in E} \cup {Registration(m) : m \in F}
  OBVIOUS
<1>13. {Registration(m) : m \in A \cup B \cup E \cup F}
          = {<<Place(pubs[id].rvfid), "pub", id>> : id \in P}
               \cup {<<Place(subs[id].rvfid), "sub", id>> : id \in T}
  BY <1>3, <1>9, <1>10, <1>12, Zenon
<1>14. QED BY <1>11, <1>13 DEF Gone
LEMMA LeavingFields ==
    ASSUME IInv, NEW h \in Host, disconnect(h)
    PROVE  /\ DOMAIN pubs' = DOMAIN pubs \ lastPublished(h)
           /\ DOMAIN subs' = DOMAIN subs \ lastSubscribed(h)
           /\ \A id \in DOMAIN pubs' : /\ pubs'[id].strategy = pubs[id].strategy
                                       /\ pubs'[id].rvfid = pubs[id].rvfid
                                       /\ pubs'[id].isScope = pubs[id].isScope
           /\ \A id \in DOMAIN subs' : /\ subs'[id].strategy = subs[id].strategy
                                       /\ subs'[id].rvfid = subs[id].rvfid
                                       /\ subs'[id].isScope = subs[id].isScope
<1>1. /\ pubs' = deleteAllActivePublications(h)
      /\ subs' = deleteAllActiveSubscriptions(h)
  BY Zenon DEF disconnect
<1>2. /\ DOMAIN pubs' = DOMAIN pubs \ lastPublished(h)
      /\ \A id \in DOMAIN pubs' : pubs'[id] = afterLeaving(h, id) \/ pubs'[id] = pubs[id]
  BY <1>1 DEF deleteAllActivePublications
<1>3. /\ DOMAIN subs' = DOMAIN subs \ lastSubscribed(h)
      /\ \A id \in DOMAIN subs' :
            subs'[id] = [subs[id] EXCEPT !.subscribers = subs[id].subscribers \ {h}]
  BY <1>1 DEF deleteAllActiveSubscriptions
<1>4. ASSUME NEW id \in DOMAIN pubs
      PROVE  /\ afterLeaving(h, id).strategy = pubs[id].strategy
             /\ afterLeaving(h, id).rvfid = pubs[id].rvfid
             /\ afterLeaving(h, id).isScope = pubs[id].isScope
  <2>1. pubs[id] \in Publication /\ \E t : afterLeaving(h, id) = [pubs[id] EXCEPT !.publishers = t]
    BY Zenon DEF IInv, TypeInv, IsTable, afterLeaving
  <2>2. QED BY <2>1 DEF Publication
<1>5. ASSUME NEW id \in DOMAIN subs'
      PROVE  /\ subs'[id].strategy = subs[id].strategy
             /\ subs'[id].rvfid = subs[id].rvfid
             /\ subs'[id].isScope = subs[id].isScope
  <2>1. subs[id] \in Subscription
    BY <1>3 DEF IInv, TypeInv, IsTable
  <2>2. QED BY <1>3, <2>1 DEF Subscription
<1>6. QED BY <1>2, <1>3, <1>4, <1>5

LEMMA DisconnectKnown ==
    ASSUME DomainInOrder, IInv, RVInv, NEW h \in Host, disconnect(h)
    PROVE  RVInv'
<1> DEFINE P == lastPublished(h)
           T == lastSubscribed(h)
           G == Gone(P, T)
<1>1. /\ DOMAIN pubs' = DOMAIN pubs \ P /\ DOMAIN subs' = DOMAIN subs \ T
      /\ \A id \in DOMAIN pubs' : /\ pubs'[id].strategy = pubs[id].strategy
                                  /\ pubs'[id].rvfid = pubs[id].rvfid
                                  /\ pubs'[id].isScope = pubs[id].isScope
      /\ \A id \in DOMAIN subs' : /\ subs'[id].strategy = subs[id].strategy
                                  /\ subs'[id].rvfid = subs[id].rvfid
                                  /\ subs'[id].isScope = subs[id].isScope
  BY LeavingFields, Zenon
<1>2. UNCHANGED gc
  BY Zenon DEF disconnect
<1>3. atRV' = atRV \ G
  BY DisconnectUndoes, Zenon
<1> HIDE DEF P, T
<1>4. Active' = Active \ G
  <2>1. Leaving(P, T)
    BY <1>1 DEF Leaving
  <2>2. QED BY <2>1, ActiveLess
<1>5. Known'
  <2> HIDE DEF G
  <2>1. Known
    BY DEF RVInv
  <2>2. QED BY <1>3, <1>4, <2>1, KnownLess, Zenon
<1>6. Placed(pubs)' /\ Shallow(pubs)' /\ Asked' /\ Placed(subs)' /\ Shallow(subs)'
  BY <1>1 DEF RVInv, Placed, Shallow, Asked
<1>7. Unbroken'
  <2> SUFFICES ASSUME Inputs.links = {}, NEW id \in DOMAIN pubs',
                      NEW g \in DOMAIN pubs'[id].publishers
               PROVE  pubs'[id].publishers[g] \in {"STOP_PUBLISH", "START_PUBLISH"}
    BY DEF Unbroken
  <2> DEFINE rest == Without(pubs[id].publishers, h)
             next == [rest EXCEPT ![First(rest)] = "START_PUBLISH"]
  <2>1. id \in DOMAIN pubs
    BY <1>1
  <2>2. \/ pubs'[id] = pubs[id]
        \/ pubs'[id].publishers = next
        \/ pubs'[id].publishers = rest
    BY <2>1, LeavingIs, Zenon
  <2>3. \A k \in DOMAIN pubs[id].publishers :
           pubs[id].publishers[k] \in {"STOP_PUBLISH", "START_PUBLISH"}
    BY <2>1, Zenon DEF RVInv, Unbroken
  <2>4. \A k \in DOMAIN rest : rest[k] \in {"STOP_PUBLISH", "START_PUBLISH"}
    BY <2>3, Zenon DEF Without
  <2> HIDE DEF rest
  <2>5. \A k \in DOMAIN next : next[k] \in {"STOP_PUBLISH", "START_PUBLISH"}
    BY <2>4, Zenon
  <2> HIDE DEF next
  <2>6. QED BY <2>2, <2>3, <2>4, <2>5
<1>8. QED BY <1>2, <1>5, <1>6, <1>7 DEF RVInv

\* Notifications give publications IDs and paths and start and stop publishers.
LEMMA RenewedFields ==
    ASSUME IInv, NEW n, NEW f, NEW table, pubs' = Renewed(n, f, table)
    PROVE  FieldsKept(pubs, pubs')
<1>1. DOMAIN pubs' = DOMAIN pubs
  BY RenewedIs
<1>2. ASSUME NEW id \in DOMAIN pubs
      PROVE  /\ pubs'[id].strategy = pubs[id].strategy
             /\ pubs'[id].rvfid = pubs[id].rvfid
             /\ pubs'[id].isScope = pubs[id].isScope
  <2> DEFINE q == pubs[id]
             k == n.ids
             t == table[id]
  <2>1. q \in Publication
    BY DEF IInv, TypeInv, IsTable
  <2>2. pubs'[id] = [q EXCEPT !.known = k, !.fid = f, !.publishers = t] \/ pubs'[id] = q
    BY Zenon DEF Renewed
  <2> HIDE DEF q, k, t
  <2>3. /\ pubs'[id].strategy = q.strategy /\ pubs'[id].rvfid = q.rvfid
        /\ pubs'[id].isScope = q.isScope
    BY <2>1, <2>2, Zenon DEF Publication
  <2>4. QED BY <2>3 DEF q
<1>3. QED BY <1>1, <1>2 DEF FieldsKept

StartsAndStops(n, table) ==
    \A id \in Named(n) : \A h \in DOMAIN table[id] :
        \/ table[id][h] \in {"STOP_PUBLISH", "START_PUBLISH"}
        \/ h \in DOMAIN pubs[id].publishers /\ table[id][h] = pubs[id].publishers[h]

LEMMA NotificationKnown ==
    ASSUME DomainInOrder, IInv, RVInv, NEW n \in Inputs.notifications, handleRVNotification(n)
    PROVE  RVInv'
<1>1. UNCHANGED atRV /\ FieldsKept(subs, subs')
  <2>1. UNCHANGED subs /\ \E m : SendOnly(m)
    BY Zenon DEF handleRVNotification, startPublish, updateFID, stopPublish, scopeNotification,
                 updateConf
  <2>2. QED BY <2>1, SubsFieldsKept DEF SendOnly
<1>2. ASSUME NEW f, NEW table, pubs' = Renewed(n, f, table), UNCHANGED gc,
             StartsAndStops(n, table)
      PROVE  RVInv'
  <2>1. FieldsKept(pubs, pubs') /\ ~ zero(gc'.rv)
    BY <1>2, RenewedFields DEF RVInv
  <2>2. /\ DOMAIN pubs' = DOMAIN pubs
        /\ \A id \in DOMAIN pubs : id \notin Named(n) => pubs'[id] = pubs[id]
        /\ \A id \in Named(n) : pubs'[id].publishers = table[id]
    BY <1>2, RenewedIs
  <2>3. Unbroken'
    <3> SUFFICES ASSUME Inputs.links = {}, NEW id \in DOMAIN pubs,
                        NEW h \in DOMAIN pubs'[id].publishers
                 PROVE  pubs'[id].publishers[h] \in {"STOP_PUBLISH", "START_PUBLISH"}
      BY <2>2 DEF Unbroken
    <3>1. \A k \in DOMAIN pubs[id].publishers :
             pubs[id].publishers[k] \in {"STOP_PUBLISH", "START_PUBLISH"}
      BY DEF RVInv, Unbroken
    <3>2. CASE id \notin Named(n)
      BY <2>2, <3>1, <3>2
    <3>3. CASE id \in Named(n)
      BY <1>2, <2>2, <3>1, <3>3 DEF StartsAndStops
    <3>4. QED BY <3>2, <3>3
  <2>4. QED BY <1>1, <2>1, <2>3, FieldsRVInv
<1>3. CASE startPublish(n)
  <2> DEFINE table == [id \in Named(n) |-> [pubs[id].publishers EXCEPT
                        ![First(pubs[id].publishers)] = "START_PUBLISH"]]
  <2>1. pubs' = Renewed(n, n.fid, table) /\ UNCHANGED gc
    BY <1>3, Zenon DEF startPublish
  <2>2. ASSUME NEW id \in Named(n), NEW h \in DOMAIN table[id]
        PROVE  \/ table[id][h] \in {"STOP_PUBLISH", "START_PUBLISH"}
               \/ h \in DOMAIN pubs[id].publishers /\ table[id][h] = pubs[id].publishers[h]
    <3> DEFINE p == pubs[id].publishers
    <3>1. table[id] = [p EXCEPT ![First(p)] = "START_PUBLISH"]
      BY Zenon
    <3> HIDE DEF p, table
    <3>2. /\ h \in DOMAIN p
          /\ table[id][h] \in {"STOP_PUBLISH", "START_PUBLISH"} \/ table[id][h] = p[h]
      BY <3>1
    <3>3. QED BY <3>2 DEF p
  <2> HIDE DEF table
  <2>3. StartsAndStops(n, table)
    BY <2>2 DEF StartsAndStops
  <2>4. QED BY <1>2, <2>1, <2>3
<1>4. CASE updateFID(n)
  <2> DEFINE table == [id \in Named(n) |-> pubs[id].publishers]
  <2>1. pubs' = Renewed(n, n.fid, table) /\ UNCHANGED gc
    BY <1>4, Zenon DEF updateFID
  <2>2. \A id \in Named(n) : \A h \in DOMAIN table[id] :
           h \in DOMAIN pubs[id].publishers /\ table[id][h] = pubs[id].publishers[h]
    OBVIOUS
  <2> HIDE DEF table
  <2>3. StartsAndStops(n, table)
    BY <2>2 DEF StartsAndStops
  <2>4. QED BY <1>2, <2>1, <2>3
<1>5. CASE stopPublish(n)
  <2> DEFINE table == [id \in Named(n) |-> [h \in DOMAIN pubs[id].publishers |->
                        IF h \in NotifiedAt(id) THEN "STOP_PUBLISH"
                        ELSE pubs[id].publishers[h]]]
  <2>1. pubs' = Renewed(n, {}, table) /\ UNCHANGED gc
    BY <1>5, Zenon DEF stopPublish
  <2>2. ASSUME NEW id \in Named(n), NEW h \in DOMAIN table[id]
        PROVE  \/ table[id][h] \in {"STOP_PUBLISH", "START_PUBLISH"}
               \/ h \in DOMAIN pubs[id].publishers /\ table[id][h] = pubs[id].publishers[h]
    <3> DEFINE p == pubs[id].publishers
    <3>1. table[id] = [k \in DOMAIN p |-> IF k \in NotifiedAt(id) THEN "STOP_PUBLISH" ELSE p[k]]
      BY Zenon
    <3> HIDE DEF p, table
    <3>2. /\ h \in DOMAIN p
          /\ table[id][h] \in {"STOP_PUBLISH", "START_PUBLISH"} \/ table[id][h] = p[h]
      BY <3>1
    <3>3. QED BY <3>2 DEF p
  <2> HIDE DEF table
  <2>3. StartsAndStops(n, table)
    BY <2>2 DEF StartsAndStops
  <2>4. QED BY <1>2, <2>1, <2>3
<1>6. CASE UNCHANGED pubs /\ ~ zero(gc'.rv)
  <2>1. Unbroken'
    BY <1>6 DEF RVInv, Unbroken
  <2>2. QED BY <1>1, <1>6, <2>1, PubsFieldsKept, FieldsRVInv
<1>7. CASE scopeNotification(n)
  BY <1>6, <1>7 DEF scopeNotification, RVInv
<1>8. CASE updateConf(n)
  <2>1. gc \in Conf /\ n.fid \in FID
    BY InputTypes DEF IInv, TypeInv, Notification
  <2>2. ~ zero(gc'.rv)
    <3>1. CASE n.type = "UPDATE_RVFID"
      <4>1. gc'.rv = n.fid /\ n.fid # {}
        BY <1>8, <2>1, <3>1 DEF updateConf, Conf, DomainInOrder
      <4>2. QED BY <2>1, <4>1, NonzeroFID
    <3>2. CASE n.type # "UPDATE_RVFID"
      <4>1. gc'.rv = gc.rv
        BY <1>8, <2>1, <3>2 DEF updateConf, Conf
      <4>2. QED BY <4>1 DEF RVInv
    <3>3. QED BY <3>1, <3>2
  <2>3. QED BY <1>6, <1>8, <2>2 DEF updateConf
<1>9. QED BY <1>3, <1>4, <1>5, <1>7, <1>8 DEF handleRVNotification
LEMMA QuietKnown == ASSUME RVInv, UNCHANGED <<pubs, subs, gc, atRV>> PROVE RVInv'
<1>1. Unbroken' /\ ~ zero(gc'.rv)
  BY DEF RVInv, Unbroken
<1>2. QED BY <1>1, PubsFieldsKept, SubsFieldsKept, FieldsRVInv

LEMMA MulticastKnown ==
    ASSUME IInv, RVInv, NEW h, NEW id, NEW N, publishMulticast(h, id, N)
    PROVE  RVInv'
<1> DEFINE at == IF id \in DOMAIN pubs THEN id ELSE Father(id)
           p == [pubs[at] EXCEPT !.known = <<id>>]
<1>1. UNCHANGED <<subs, gc>> /\ \E m : SendOnly(m)
  BY Zenon DEF publishMulticast
<1>2. UNCHANGED atRV
  BY <1>1 DEF SendOnly
<1>3. CASE UNCHANGED pubs
  BY <1>1, <1>2, <1>3, QuietKnown
<1>4. CASE at \in DOMAIN pubs /\ pubs' = [pubs EXCEPT ![at] = p]
  <2>1. pubs[at] \in Publication
    BY <1>4 DEF IInv, TypeInv, IsTable
  <2>2. /\ p.publishers = pubs[at].publishers /\ p.strategy = pubs[at].strategy
        /\ p.rvfid = pubs[at].rvfid /\ p.isScope = pubs[at].isScope
    BY <2>1 DEF Publication
  <2> HIDE DEF p, at
  <2>3. /\ DOMAIN pubs' = DOMAIN pubs /\ pubs'[at] = p
        /\ \A i \in DOMAIN pubs : i # at => pubs'[i] = pubs[i]
    BY <1>4
  <2>4. FieldsKept(pubs, pubs')
    BY <2>2, <2>3 DEF FieldsKept
  <2>5. Unbroken'
    BY <2>2, <2>3 DEF RVInv, Unbroken
  <2>6. ~ zero(gc'.rv) /\ FieldsKept(subs, subs')
    BY <1>1, SubsFieldsKept DEF RVInv
  <2>7. QED BY <1>2, <2>4, <2>5, <2>6, FieldsRVInv
<1>5. QED BY <1>3, <1>4, Zenon DEF publishMulticast

\* A failed link takes paths away, not registrations.
LEMMA LossKnown ==
    ASSUME IInv, RVInv, Inputs.links # {}, NEW lid, processTMNotification(lid), UNCHANGED atRV
    PROVE  RVInv'
<1>1. UNCHANGED <<subs, gc>>
  BY DEF processTMNotification
<1>2. DOMAIN pubs' = DOMAIN pubs
  BY DEF processTMNotification
<1>3. ASSUME NEW id \in DOMAIN pubs
      PROVE  /\ pubs'[id].strategy = pubs[id].strategy
             /\ pubs'[id].rvfid = pubs[id].rvfid
             /\ pubs'[id].isScope = pubs[id].isScope
  <2>1. pubs[id] \in Publication
    BY Zenon DEF IInv, TypeInv, IsTable
  <2>2. \/ pubs'[id] = pubs[id]
        \/ \E t : pubs'[id] = [pubs[id] EXCEPT !.fid = NoFID, !.publishers = t]
    BY Zenon DEF processTMNotification, invalidated
  <2>3. QED BY <2>1, <2>2, Zenon DEF Publication
<1>4. FieldsKept(pubs, pubs')
  BY <1>2, <1>3 DEF FieldsKept
<1>5. Unbroken' /\ ~ zero(gc'.rv) /\ FieldsKept(subs, subs')
  BY <1>1, SubsFieldsKept DEF RVInv, Unbroken
<1>6. QED BY <1>4, <1>5, FieldsRVInv

LEMMA MappKnown ==
    ASSUME DomainInOrder, IInv, RVInv, NEW h, NEW q \in Inputs.mapp, handleMappRequest(h, q)
    PROVE  RVInv'
<1>1. UNCHANGED subs /\ \E m : SendOnly(m)
  BY Zenon DEF handleMappRequest, updateStates
<1>2. UNCHANGED atRV
  BY <1>1 DEF SendOnly
<1>3. CASE UNCHANGED <<pubs, gc>>
  BY <1>1, <1>2, <1>3, QuietKnown
<1>4. CASE pubs' = [id \in DOMAIN pubs |-> resumed(id)] /\ gc' = [gc EXCEPT !.status = q]
  <2>1. DOMAIN pubs' = DOMAIN pubs /\ \A id \in DOMAIN pubs : pubs'[id] = resumed(id)
    BY <1>4
  <2>2. ASSUME NEW id \in DOMAIN pubs
        PROVE  /\ resumed(id).strategy = pubs[id].strategy
               /\ resumed(id).rvfid = pubs[id].rvfid
               /\ resumed(id).isScope = pubs[id].isScope
               /\ Inputs.links = {} => \A g \in DOMAIN resumed(id).publishers :
                     resumed(id).publishers[g] \in {"STOP_PUBLISH", "START_PUBLISH"}
    <3> DEFINE t == [g \in DOMAIN pubs[id].publishers |->
                   IF g \in PausedAt(id) THEN "RESUME_PUBLISH" ELSE pubs[id].publishers[g]]
    <3>1. pubs[id] \in Publication
      BY DEF IInv, TypeInv, IsTable
    <3>2. resumed(id) = [pubs[id] EXCEPT !.publishers = t]
      BY DEF resumed
    <3>3. Inputs.links = {} => \A g \in DOMAIN t : t[g] \in {"STOP_PUBLISH", "START_PUBLISH"}
      BY DEF RVInv, Unbroken, PausedAt
    <3> HIDE DEF t
    <3>4. /\ resumed(id).strategy = pubs[id].strategy
          /\ resumed(id).rvfid = pubs[id].rvfid
          /\ resumed(id).isScope = pubs[id].isScope
          /\ resumed(id).publishers = t
      BY <3>1, <3>2 DEF Publication
    <3>5. QED BY <3>3, <3>4
  <2>3. FieldsKept(pubs, pubs') /\ Unbroken'
    BY <2>1, <2>2 DEF FieldsKept, Unbroken
  <2>4. gc'.rv = gc.rv
    BY <1>4 DEF IInv, TypeInv, Conf
  <2>5. ~ zero(gc'.rv) /\ FieldsKept(subs, subs')
    BY <1>1, <2>4, SubsFieldsKept DEF RVInv
  <2>6. QED BY <1>2, <2>3, <2>5, FieldsRVInv
<1>5. q # "DISCONNECTED"
  BY DEF DomainInOrder
<1>6. QED BY <1>3, <1>4, <1>5, Zenon DEF handleMappRequest, updateStates

\* An implicit subscription is stored and never forwarded.
LEMMA ISubKnown ==
    ASSUME IInv, RVInv, Inputs.isubs # {}, NEW h, NEW id, NEW sid, publishISub(h, id, sid)
    PROVE  RVInv'
<1>1. PICK read : subs' = storedSubscription(h, read, "DOMAIN_LOCAL", FALSE, gc.rv)
  BY Zenon DEF publishISub
<1>2. UNCHANGED <<pubs, gc>> /\ UNCHANGED atRV
  BY DEF publishISub, SendOnly
<1>3. /\ ~ zero(gc'.rv) /\ FieldsKept(pubs, pubs')
      /\ Asked' /\ Unbroken' /\ Placed(pubs)' /\ Shallow(pubs)'
  BY <1>2, PubsFieldsKept, Zenon DEF RVInv, Asked, Unbroken, Placed, Shallow
<1>4. CASE /\ read \notin DOMAIN subs /\ DOMAIN subs' = DOMAIN subs \cup {read}
           /\ \A i \in DOMAIN subs : subs'[i] = subs[i]
           /\ subs'[read].strategy = "DOMAIN_LOCAL" /\ subs'[read].rvfid = gc.rv
           /\ subs'[read].isScope = FALSE
  <2>1. Active \subseteq Active'
    BY <1>2, <1>4 DEF Active
  <2>2. Known'
    BY <1>2, <2>1 DEF RVInv, Known, RVNotStale
  <2>3. Place(gc.rv) = PlaceOf("DOMAIN_LOCAL")
    BY DEF RVInv, Place, PlaceOf
  <2>4. Placed(subs)' /\ Shallow(subs)'
    BY <1>4, <2>3, Zenon DEF RVInv, Placed, Shallow, Reaching
  <2>5. QED BY <1>3, <2>2, <2>4 DEF RVInv
<1>5. CASE FieldsKept(subs, subs')
  BY <1>2, <1>3, <1>5, FieldsRVInv
<1>6. QED BY <1>1, <1>4, <1>5, StoredIs, Zenon

LEMMA InitKnown == DomainInOrder /\ Init => RVInv
<1> SUFFICES ASSUME DomainInOrder, Init PROVE RVInv
  OBVIOUS
<1>1. DOMAIN pubs = {} /\ DOMAIN subs = {} /\ atRV = {} /\ gc.rv = DefaultRV
  BY DEF Init
<1>2. ~ zero(gc.rv)
  BY <1>1, FIDAssumption, NonzeroFID DEF DomainInOrder
<1>3. Placed(pubs) /\ Placed(subs) /\ Shallow(pubs) /\ Shallow(subs) /\ Asked /\ Unbroken
  BY <1>1, Zenon DEF Placed, Shallow, Asked, Unbroken
<1>4. Known
  BY <1>1 DEF Known, RVNotStale, RVInformed, Active
<1>5. QED BY <1>2, <1>3, <1>4 DEF RVInv

LEMMA NextKnown == DomainInOrder /\ IInv /\ RVInv /\ [Next]_vars => RVInv'
<1> SUFFICES ASSUME DomainInOrder, IInv, RVInv, [Next]_vars PROVE RVInv'
  OBVIOUS
<1>1. CASE UNCHANGED vars
  BY <1>1, QuietKnown DEF vars
<1>2. CASE UNCHANGED <<pubs, subs, gc>> /\ \E m : SendOnly(m)
  BY <1>2, QuietKnown DEF SendOnly
<1>3. ASSUME NEW r \in Inputs.requests, handleLocalRequest(r) PROVE RVInv'
  BY <1>3, RequestKnown
<1>4. ASSUME NEW h \in Inputs.hosts, disconnect(h) PROVE RVInv'
  BY <1>4, InputTypes, DisconnectKnown
<1>5. ASSUME NEW n \in Inputs.notifications, handleRVNotification(n) PROVE RVInv'
  BY <1>5, NotificationKnown
<1>6. ASSUME NEW f, updateNodeFIDs(f) PROVE RVInv'
  BY <1>2, <1>6, Zenon DEF updateNodeFIDs
<1>7. ASSUME NEW h, NEW id, publishData(h, id) PROVE RVInv'
  BY <1>2, <1>7, Zenon DEF publishData
<1>8. ASSUME NEW h, NEW id, NEW fid, publishImplicit(h, id, fid) PROVE RVInv'
  BY <1>2, <1>8, Zenon DEF publishImplicit
<1>9. ASSUME NEW ids, publicationFromNetwork(ids) PROVE RVInv'
  BY <1>2, <1>9, Zenon DEF publicationFromNetwork
<1>10. ASSUME NEW n, NEW ids, implicitSubscription(n, ids) PROVE RVInv'
  BY <1>2, <1>10, Zenon DEF implicitSubscription
<1>11. ASSUME NEW h, NEW id, NEW sid \in Inputs.isubs, publishISub(h, id, sid) PROVE RVInv'
  BY <1>11, ISubKnown
<1>12. ASSUME NEW h, NEW id, NEW N, publishMulticast(h, id, N) PROVE RVInv'
  BY <1>12, MulticastKnown
<1>13. ASSUME NEW lid \in Inputs.links, linkFailed(lid) PROVE RVInv'
  <2>1. processTMNotification(lid) /\ UNCHANGED atRV
    BY <1>13 DEF linkFailed, SendOnly
  <2>2. QED BY <1>13, <2>1, LossKnown
<1>14. ASSUME NEW h, NEW lid \in Inputs.links, NEW fid, tmPublication(h, fid, lid) PROVE RVInv'
  <2>1. \E read, m : processTMNotification(read) /\ SendOnly(m)
    BY <1>14, Zenon DEF tmPublication
  <2>2. \E read : processTMNotification(read) /\ UNCHANGED atRV
    BY <2>1 DEF SendOnly
  <2>3. QED BY <1>14, <2>2, LossKnown
<1>15. ASSUME NEW h, NEW q \in Inputs.mapp, handleMappRequest(h, q) PROVE RVInv'
  BY <1>15, MappKnown
<1>16. CASE Next
  BY <1>3, <1>4, <1>5, <1>6, <1>7, <1>8, <1>9, <1>10, <1>11, <1>12, <1>13, <1>14, <1>15,
     <1>16, Zenon DEF Next, Step
<1>17. QED BY <1>1, <1>16

\* In a domain that is in order, whatever the applications request, and
\* however they disconnect, items move between publishers and links fail: the
\* rendezvous points never hold a registration of this node that none of its
\* applications stands behind, and, unless applications subscribe implicitly
\* (which publishISub() does without a request), they hold all of them. Only
\* the first publisher and the last one to leave are forwarded
\* (storeActivePublication, removeActivePublication, disconnect), so this is
\* what the node promises the rendezvous points.
THEOREM RVAlwaysUpToDate ==
    ASSUME DomainInOrder
    PROVE  Spec => [](RVNotStale /\ (Inputs.isubs = {} => RVInformed))
<1>1. Init => IInv /\ RVInv
  BY InitIInv, InitKnown
<1>2. IInv /\ RVInv /\ [Next]_vars => (IInv /\ RVInv)'
  BY NextIInv, NextKnown
<1>3. IInv /\ RVInv => RVNotStale /\ (Inputs.isubs = {} => RVInformed)
  BY DEF RVInv, Known
<1>4. QED BY <1>1, <1>2, <1>3, PTL DEF Spec
-----------------------------------------------------------------------------
(***************************************************************************)
(* What the proxy tells publishers, and under which names.                 *)
(***************************************************************************)
\* No path is ever taken away without a STOP_PUBLISH.
Steady == Inputs.links = {} /\ "DISCONNECTED" \notin Inputs.mapp

IsItem(id) == \E r \in Inputs.requests : r.type = "PUBLISH_INFO" /\ FullIDOf(r) = id

\* Data are not published under the ID of an item; and where the network may
\* be lost and come back, every item has one ID and there are no implicit
\* subscribers (updateStates() names an item by the first of the IDs that the
\* rendezvous point gave it, and an application may publish another one).
OneName ==
    /\ \A id \in Inputs.published : ~ IsItem(Father(id))
    /\ "RECONNECTED" \in Inputs.mapp =>
          /\ Inputs.nodes = {}
          /\ \A n \in Inputs.notifications :
                n.type \in {"START_PUBLISH", "UPDATE_FID", "STOP_PUBLISH"} => Len(n.ids) <= 1

\* The publication p of id can be notified about.
Nameable(id, p) ==
    /\ \A h \in DOMAIN p.publishers : p.publishers[h] # "STOP_PUBLISH" => p.known # <<>>
    /\ p.isScope => \A h \in DOMAIN p.publishers :
                       p.publishers[h] \in {"STOP_PUBLISH", "START_PUBLISH"}
    /\ ~ p.isScope => IsItem(id)
    /\ "RECONNECTED" \in Inputs.mapp => p.known \in {<<>>, <<id>>}
    /\ Steady => \A h \in DOMAIN p.publishers :
                    \/ p.publishers[h] = "STOP_PUBLISH"
                    \/ p.publishers[h] = "START_PUBLISH" /\ ~ zero(p.fid)

AllNameable == \A id \in DOMAIN pubs : Nameable(id, pubs[id])

\* Publishers come, go, and take over from each other.
Follows(p, q) ==
    /\ q.isScope = p.isScope /\ q.known = p.known /\ (Steady => q.fid = p.fid)
    /\ \A h \in DOMAIN q.publishers :
          \/ q.publishers[h] = "STOP_PUBLISH"
          \/ h \in DOMAIN p.publishers /\ q.publishers[h] = p.publishers[h]
          \/ /\ ~ p.isScope
             /\ \E g \in DOMAIN p.publishers : p.publishers[g] # "STOP_PUBLISH"
             /\ Steady => q.publishers[h] = "START_PUBLISH"

LEMMA FollowsNameable ==
    ASSUME NEW id, NEW p, NEW q, Nameable(id, p), Follows(p, q) PROVE Nameable(id, q)
<1>1. \A h \in DOMAIN q.publishers : q.publishers[h] # "STOP_PUBLISH" => q.known # <<>>
  BY DEF Nameable, Follows
<1>2. q.isScope => \A h \in DOMAIN q.publishers :
                      q.publishers[h] \in {"STOP_PUBLISH", "START_PUBLISH"}
  BY DEF Nameable, Follows
<1>3. Steady => \A h \in DOMAIN q.publishers :
                   \/ q.publishers[h] = "STOP_PUBLISH"
                   \/ q.publishers[h] = "START_PUBLISH" /\ ~ zero(q.fid)
  BY DEF Nameable, Follows
<1>4. (~ q.isScope => IsItem(id)) /\ ("RECONNECTED" \in Inputs.mapp => q.known \in {<<>>, <<id>>})
  BY DEF Nameable, Follows
<1>5. QED BY <1>1, <1>2, <1>3, <1>4 DEF Nameable

\* The rendezvous point names the publication of id.
Renames(id, p, q) ==
    /\ q.isScope = p.isScope /\ q.known # <<>>
    /\ "RECONNECTED" \in Inputs.mapp => q.known = <<id>>
    /\ \A h \in DOMAIN q.publishers :
          \/ q.publishers[h] = "STOP_PUBLISH"
          \/ q.publishers[h] = "START_PUBLISH" /\ ~ zero(q.fid)
          \/ /\ h \in DOMAIN p.publishers /\ q.publishers[h] = p.publishers[h]
             /\ \/ q.publishers[h] # "START_PUBLISH"
                \/ ~ zero(q.fid) \/ q.fid = p.fid

LEMMA RenamesNameable ==
    ASSUME NEW id, NEW p, NEW q, Nameable(id, p), Renames(id, p, q) PROVE Nameable(id, q)
<1>1. q.isScope => \A h \in DOMAIN q.publishers :
                      q.publishers[h] \in {"STOP_PUBLISH", "START_PUBLISH"}
  BY DEF Nameable, Renames
<1>2. Steady => \A h \in DOMAIN q.publishers :
                   \/ q.publishers[h] = "STOP_PUBLISH"
                   \/ q.publishers[h] = "START_PUBLISH" /\ ~ zero(q.fid)
  BY DEF Nameable, Renames
<1>3. QED BY <1>1, <1>2, Zenon DEF Nameable, Renames

LEMMA RequestNames ==
    ASSUME IInv, AllNameable, NEW r \in Inputs.requests, handleLocalRequest(r)
    PROVE  AllNameable'
<1> DEFINE id == FullIDOf(r)
           h == r.host
<1>1. r \in Request /\ IsTable(pubs, FullID, Publication)
  BY InputTypes DEF IInv, TypeInv
<1>2. CASE UNCHANGED pubs
  BY <1>2 DEF AllNameable
<1>3. ASSUME NEW t, id \in DOMAIN pubs, pubs' = [pubs EXCEPT ![id].publishers = t],
             \A g \in DOMAIN t :
                \/ t[g] = "STOP_PUBLISH"
                \/ g \in DOMAIN pubs[id].publishers /\ t[g] = pubs[id].publishers[g]
      PROVE  AllNameable'
  <2> DEFINE p == [pubs[id] EXCEPT !.publishers = t]
  <2>1. pubs[id] \in Publication
    BY <1>1, <1>3 DEF IsTable
  <2>2. /\ p.publishers = t /\ p.fid = pubs[id].fid
        /\ p.known = pubs[id].known /\ p.isScope = pubs[id].isScope
    BY <2>1 DEF Publication
  <2>3. pubs' = [pubs EXCEPT ![id] = p]
    BY <1>3
  <2> HIDE DEF p, id
  <2>4. /\ DOMAIN pubs' = DOMAIN pubs /\ pubs'[id] = p
        /\ \A i \in DOMAIN pubs : i # id => pubs'[i] = pubs[i]
    BY <1>3, <2>3
  <2>5. Follows(pubs[id], p)
    BY <1>3, <2>2 DEF Follows
  <2>6. Nameable(id, p)
    BY <1>3, <2>5, FollowsNameable DEF AllNameable
  <2>7. QED BY <2>4, <2>6 DEF AllNameable
<1>4. ASSUME NEW rvfid, r.type \in PublishTypes, id \notin DOMAIN pubs,
             pubs' = Put(pubs, id, NewPublication(h, r.strategy, r.type = "PUBLISH_SCOPE", rvfid))
      PROVE  AllNameable'
  <2> DEFINE p == NewPublication(h, r.strategy, r.type = "PUBLISH_SCOPE", rvfid)
  <2>1. /\ p.known = <<>> /\ p.isScope = (r.type = "PUBLISH_SCOPE")
        /\ \A g \in DOMAIN p.publishers : p.publishers[g] = "STOP_PUBLISH"
    BY DEF NewPublication
  <2>2. r.type # "PUBLISH_SCOPE" => IsItem(id)
    BY <1>4 DEF IsItem, PublishTypes
  <2>3. pubs' = Put(pubs, id, p)
    BY <1>4
  <2> HIDE DEF p, id
  <2>4. Nameable(id, p)
    BY <2>1, <2>2, Zenon DEF Nameable
  <2>5. QED BY <2>3, <2>4 DEF AllNameable, Put
<1>5. CASE pubs' = Without(pubs, id)
  BY <1>5 DEF AllNameable, Without
<1>6. CASE r.type \in PublishTypes /\ \E rvfid : storeActivePublication(r, id, rvfid)
  <2> DEFINE t == Put(pubs[id].publishers, h, "STOP_PUBLISH")
  <2>1. \/ UNCHANGED pubs
        \/ /\ id \notin DOMAIN pubs
           /\ \E rvfid : pubs' = Put(pubs, id, NewPublication(h, r.strategy,
                                                 r.type = "PUBLISH_SCOPE", rvfid))
        \/ /\ id \in DOMAIN pubs /\ h \notin DOMAIN pubs[id].publishers
           /\ pubs' = [pubs EXCEPT ![id].publishers = t]
    BY <1>6, Zenon DEF storeActivePublication, publishedAs
  <2>2. \A g \in DOMAIN t : \/ t[g] = "STOP_PUBLISH"
                            \/ g \in DOMAIN pubs[id].publishers /\ t[g] = pubs[id].publishers[g]
    BY DEF Put
  <2> HIDE DEF t, id, h
  <2>3. QED BY <1>2, <1>3, <1>4, <1>6, <2>1, <2>2
<1>7. CASE r.type \in UnpublishTypes /\ \E rvfid : removeActivePublication(r, id, rvfid)
  <2> DEFINE t == Without(pubs[id].publishers, h)
  <2>1. \/ UNCHANGED pubs
        \/ pubs' = Without(pubs, id)
        \/ id \in DOMAIN pubs /\ pubs' = [pubs EXCEPT ![id].publishers = t]
    BY <1>7, Zenon DEF removeActivePublication, publishedAs
  <2>2. \A g \in DOMAIN t : g \in DOMAIN pubs[id].publishers /\ t[g] = pubs[id].publishers[g]
    BY DEF Without
  <2> HIDE DEF t, id, h
  <2>3. QED BY <1>2, <1>3, <1>5, <2>1, <2>2
<1>8. QED BY <1>2, <1>6, <1>7, Zenon DEF handleLocalRequest

LEMMA LeavingNames ==
    ASSUME IInv, AllNameable, NEW h \in Host, disconnect(h) PROVE AllNameable'
<1> SUFFICES ASSUME NEW id \in DOMAIN pubs' PROVE Nameable(id, pubs'[id])
  BY DEF AllNameable
<1> DEFINE rest == Without(pubs[id].publishers, h)
           next == [rest EXCEPT ![First(rest)] = "START_PUBLISH"]
<1>1. id \in DOMAIN pubs
  BY LeavingFields, Zenon
<1>2. pubs[id] \in Publication
  BY <1>1 DEF IInv, TypeInv, IsTable
<1>3. /\ h \notin DOMAIN pubs[id].publishers => pubs'[id] = pubs[id]
      /\ h \in DOMAIN pubs[id].publishers =>
            pubs'[id].publishers = IF needsSuccessor(h, id) THEN next ELSE rest
  BY <1>1, LeavingIs, Zenon
<1>4. /\ pubs'[id].isScope = pubs[id].isScope /\ pubs'[id].known = pubs[id].known
      /\ pubs'[id].fid = pubs[id].fid
  <2>1. pubs' = deleteAllActivePublications(h)
    BY Zenon DEF disconnect
  <2>2. pubs'[id] = afterLeaving(h, id) \/ pubs'[id] = pubs[id]
    BY <2>1 DEF deleteAllActivePublications
  <2>3. \E t : afterLeaving(h, id) = [pubs[id] EXCEPT !.publishers = t]
    BY Zenon DEF afterLeaving
  <2>4. QED BY <1>2, <2>2, <2>3, Zenon DEF Publication
<1>5. \A g \in DOMAIN rest : g \in DOMAIN pubs[id].publishers /\ rest[g] = pubs[id].publishers[g]
  BY DEF Without
<1> HIDE DEF rest
<1>6. /\ DOMAIN next = DOMAIN rest
      /\ \A g \in DOMAIN rest : next[g] = "START_PUBLISH" \/ next[g] = rest[g]
  OBVIOUS
<1> HIDE DEF next
<1>7. h \in DOMAIN pubs[id].publishers /\ needsSuccessor(h, id) =>
         ~ pubs[id].isScope /\ \E g \in DOMAIN pubs[id].publishers :
                                  pubs[id].publishers[g] # "STOP_PUBLISH"
  BY DEF needsSuccessor
<1>8. Follows(pubs[id], pubs'[id])
  BY <1>3, <1>4, <1>5, <1>6, <1>7, Zenon DEF Follows
<1>9. QED BY <1>1, <1>8, FollowsNameable DEF AllNameable

\* The states that a notification leaves the publishers in.
Restates(n, f, table) ==
    \A id \in Named(n) : \A h \in DOMAIN table[id] :
       \/ table[id][h] = "STOP_PUBLISH"
       \/ table[id][h] = "START_PUBLISH" /\ ~ zero(f)
       \/ /\ h \in DOMAIN pubs[id].publishers /\ table[id][h] = pubs[id].publishers[h]
          /\ table[id][h] # "START_PUBLISH" \/ ~ zero(f)

LEMMA PublishersOf ==
    ASSUME IInv, NEW id \in DOMAIN pubs
    PROVE  DOMAIN pubs[id].publishers \subseteq Host /\ DOMAIN pubs[id].publishers # {}
<1>1. DOMAIN pubs[id].publishers \subseteq Host
  BY PublicationFields DEF IInv, TypeInv, IsTable
<1>2. DOMAIN pubs[id].publishers # {}
  BY IInvAgree DEF TablesAgree, RecordsAgree, PublishersAgree
<1>3. QED BY <1>1, <1>2

\* The publications that a notification names, with their new states.
LEMMA RenewedNames ==
    ASSUME IInv, AllNameable, OneName, NEW n \in Inputs.notifications,
           n.type \in {"START_PUBLISH", "UPDATE_FID", "STOP_PUBLISH"},
           NEW f, NEW table, pubs' = Renewed(n, f, table), Restates(n, f, table)
    PROVE  AllNameable'
<1> SUFFICES ASSUME NEW id \in DOMAIN pubs' PROVE Nameable(id, pubs'[id])
  BY DEF AllNameable
<1>1. /\ DOMAIN pubs' = DOMAIN pubs
      /\ id \notin Named(n) => pubs'[id] = pubs[id]
      /\ id \in Named(n) => pubs'[id].fid = f /\ pubs'[id].publishers = table[id]
  BY RenewedIs
<1>2. Nameable(id, pubs[id])
  BY <1>1 DEF AllNameable
<1>3. CASE id \notin Named(n)
  BY <1>1, <1>2, <1>3
<1>4. CASE id \in Named(n)
  <2>1. pubs'[id].known = n.ids /\ pubs'[id].isScope = pubs[id].isScope
    <3> DEFINE q == pubs[id]
               k == n.ids
               t == table[id]
    <3>1. q \in Publication
      BY <1>1 DEF IInv, TypeInv, IsTable
    <3>2. pubs'[id] = [q EXCEPT !.known = k, !.fid = f, !.publishers = t]
      BY <1>1, <1>4, Zenon DEF Renewed
    <3> HIDE DEF q, k, t
    <3>3. pubs'[id].known = k /\ pubs'[id].isScope = q.isScope
      BY <3>1, <3>2, Zenon DEF Publication
    <3>4. QED BY <3>3 DEF q, k
  <2>2. n.ids \in Seq(FullID) /\ n.ids # <<>>
        /\ (Len(n.ids) <= 1 => n.ids = <<id>>)
    <3>1. n.ids \in Seq(FullID)
      BY InputTypes DEF Notification
    <3>2. \E i \in DOMAIN n.ids : n.ids[i] = id
      BY <1>4 DEF Named, Range
    <3>3. QED BY <3>1, <3>2
  <2>3. "RECONNECTED" \in Inputs.mapp => n.ids = <<id>>
    BY <2>2 DEF OneName
  <2>4. Renames(id, pubs[id], pubs'[id])
    BY <1>1, <1>4, <2>1, <2>2, <2>3, Zenon DEF Renames, Restates
  <2>5. QED BY <1>2, <2>4, RenamesNameable, Zenon
<1>5. QED BY <1>3, <1>4

\* An application hears only about what it publishes.
LEMMA TellsOwners ==
    ASSUME \A m \in out'.apps :
              /\ m.type \notin {"SCOPE_PUBLISHED", "SCOPE_UNPUBLISHED"}
              /\ m.type \in PublisherState \cup {"UPDATE_PUBLISH"} =>
                    m.id \in DOMAIN pubs' /\ m.host \in DOMAIN pubs'[m.id].publishers
    PROVE  NotifiedOwnIDs'
BY DEF NotifiedOwnIDs

LEMMA StartNames ==
    ASSUME IInv, AllNameable, OneName, PathsGiven, NEW n \in Inputs.notifications, startPublish(n)
    PROVE  AllNameable' /\ NotifiedOwnIDs'
<1> DEFINE table == [id \in Named(n) |-> [pubs[id].publishers EXCEPT
                        ![First(pubs[id].publishers)] = "START_PUBLISH"]]
           apps == {ToApp(First(pubs[id].publishers), "START_PUBLISH", id) : id \in Named(n)}
<1>1. /\ pubs' = Renewed(n, n.fid, table) /\ SendOnly([Nothing EXCEPT !.apps = apps])
      /\ n.type = "START_PUBLISH"
  BY Zenon DEF startPublish
<1>2. ~ zero(n.fid)
  BY <1>1, InputTypes, NonzeroFID DEF PathsGiven, Notification
<1>3. ASSUME NEW id \in Named(n)
      PROVE  /\ DOMAIN table[id] = DOMAIN pubs[id].publishers
             /\ First(pubs[id].publishers) \in DOMAIN pubs[id].publishers
             /\ \A h \in DOMAIN table[id] : \/ table[id][h] = "START_PUBLISH"
                                            \/ table[id][h] = pubs[id].publishers[h]
  <2> DEFINE p == pubs[id].publishers
  <2>1. DOMAIN p \subseteq Host /\ DOMAIN p # {}
    BY PublishersOf DEF Named
  <2>2. table[id] = [p EXCEPT ![First(p)] = "START_PUBLISH"]
    BY Zenon
  <2> HIDE DEF p, table
  <2>3. /\ DOMAIN table[id] = DOMAIN p
        /\ \A h \in DOMAIN table[id] : table[id][h] = "START_PUBLISH" \/ table[id][h] = p[h]
    BY <2>2
  <2>4. First(p) \in DOMAIN p
    BY <2>1, FirstIsOne
  <2>5. QED BY <2>3, <2>4 DEF p
<1>4. \A m \in apps : \E id \in Named(n) : /\ m.type = "START_PUBLISH" /\ m.id = id
                                           /\ m.host = First(pubs[id].publishers)
  BY ToAppFields
<1> HIDE DEF table, apps
<1>5. Restates(n, n.fid, table)
  BY <1>2, <1>3 DEF Restates
<1>6. AllNameable'
  BY <1>1, <1>5, RenewedNames
<1>7. out'.apps = apps
  BY <1>1, AppsOf, Zenon
<1>8. /\ DOMAIN pubs' = DOMAIN pubs
      /\ \A id \in Named(n) : id \in DOMAIN pubs /\ pubs'[id].publishers = table[id]
  BY <1>1, RenewedIs DEF Named
<1>9. \A m \in out'.apps : /\ m.type = "START_PUBLISH" /\ m.id \in DOMAIN pubs'
                           /\ m.host \in DOMAIN pubs'[m.id].publishers
  BY <1>3, <1>4, <1>7, <1>8
<1>10. QED BY <1>6, <1>9, TellsOwners

LEMMA UpdateNames ==
    ASSUME IInv, AllNameable, OneName, PathsGiven, NEW n \in Inputs.notifications, updateFID(n)
    PROVE  AllNameable' /\ NotifiedOwnIDs'
<1> DEFINE table == [id \in Named(n) |-> pubs[id].publishers]
           first(id) == First(pubs[id].publishers)
           told == {d \in Named(n) : pubs[d].publishers[first(d)] = "START_PUBLISH"}
           apps == {ToApp(first(id), "UPDATE_PUBLISH", id) : id \in told}
<1>1. /\ pubs' = Renewed(n, n.fid, table) /\ SendOnly([Nothing EXCEPT !.apps = apps])
      /\ n.type = "UPDATE_FID"
  BY Zenon DEF updateFID
<1>2. ~ zero(n.fid)
  BY <1>1, InputTypes, NonzeroFID DEF PathsGiven, Notification
<1>3. \A id \in Named(n) : table[id] = pubs[id].publishers
  OBVIOUS
<1>4. \A id \in Named(n) : First(pubs[id].publishers) \in DOMAIN pubs[id].publishers
  BY PublishersOf, FirstIsOne DEF Named
<1>5. \A m \in apps : \E id \in Named(n) : /\ m.type = "UPDATE_PUBLISH" /\ m.id = id
                                           /\ m.host = First(pubs[id].publishers)
  BY ToAppFields
<1> HIDE DEF table, apps, first, told
<1>6. Restates(n, n.fid, table)
  BY <1>2, <1>3 DEF Restates
<1>7. AllNameable'
  BY <1>1, <1>6, RenewedNames
<1>8. out'.apps = apps
  BY <1>1, AppsOf, Zenon
<1>9. /\ DOMAIN pubs' = DOMAIN pubs
      /\ \A id \in Named(n) : id \in DOMAIN pubs /\ pubs'[id].publishers = table[id]
  BY <1>1, RenewedIs DEF Named
<1>10. \A m \in out'.apps : /\ m.type = "UPDATE_PUBLISH" /\ m.id \in DOMAIN pubs'
                            /\ m.host \in DOMAIN pubs'[m.id].publishers
  BY <1>3, <1>4, <1>5, <1>8, <1>9
<1>11. QED BY <1>7, <1>10, TellsOwners

LEMMA StopNames ==
    ASSUME IInv, AllNameable, OneName, NEW n \in Inputs.notifications, stopPublish(n)
    PROVE  AllNameable' /\ NotifiedOwnIDs'
<1> DEFINE table == [id \in Named(n) |-> [h \in DOMAIN pubs[id].publishers |->
                        IF h \in NotifiedAt(id) THEN "STOP_PUBLISH"
                        ELSE pubs[id].publishers[h]]]
           apps == UNION {{ToApp(h, "STOP_PUBLISH", id) : h \in NotifiedAt(id)} : id \in Named(n)}
<1>1. /\ pubs' = Renewed(n, {}, table) /\ SendOnly([Nothing EXCEPT !.apps = apps])
      /\ n.type = "STOP_PUBLISH"
  BY Zenon DEF stopPublish
<1>2. ASSUME NEW id \in Named(n)
      PROVE  /\ DOMAIN table[id] = DOMAIN pubs[id].publishers
             /\ \A h \in DOMAIN table[id] :
                   \/ table[id][h] = "STOP_PUBLISH"
                   \/ table[id][h] = pubs[id].publishers[h] /\ table[id][h] # "START_PUBLISH"
  <2> DEFINE p == pubs[id].publishers
  <2>1. table[id] = [h \in DOMAIN p |-> IF h \in NotifiedAt(id) THEN "STOP_PUBLISH" ELSE p[h]]
    BY Zenon
  <2>2. \A h \in DOMAIN p : h \notin NotifiedAt(id) => p[h] # "START_PUBLISH"
    BY DEF NotifiedAt
  <2> HIDE DEF p, table
  <2>3. /\ DOMAIN table[id] = DOMAIN p
        /\ \A h \in DOMAIN table[id] : \/ table[id][h] = "STOP_PUBLISH"
                                       \/ table[id][h] = p[h] /\ table[id][h] # "START_PUBLISH"
    BY <2>1, <2>2
  <2>4. QED BY <2>3 DEF p
<1>3. ASSUME NEW m \in apps
      PROVE  \E id \in Named(n) : /\ m.type = "STOP_PUBLISH" /\ m.id = id
                                  /\ m.host \in DOMAIN pubs[id].publishers
  <2>1. \E id \in Named(n) : \E h \in NotifiedAt(id) : m = ToApp(h, "STOP_PUBLISH", id)
    BY Zenon
  <2>2. QED BY <2>1, ToAppFields DEF NotifiedAt
<1> HIDE DEF table, apps
<1>4. Restates(n, {}, table)
  BY <1>2 DEF Restates
<1>5. AllNameable'
  BY <1>1, <1>4, RenewedNames
<1>6. out'.apps = apps
  BY <1>1, AppsOf, Zenon
<1>7. /\ DOMAIN pubs' = DOMAIN pubs
      /\ \A id \in Named(n) : id \in DOMAIN pubs /\ pubs'[id].publishers = table[id]
  BY <1>1, RenewedIs DEF Named
<1>8. \A m \in out'.apps : /\ m.type = "STOP_PUBLISH" /\ m.id \in DOMAIN pubs'
                           /\ m.host \in DOMAIN pubs'[m.id].publishers
  BY <1>2, <1>3, <1>6, <1>7
<1>9. QED BY <1>5, <1>8, TellsOwners

\* Messages that say nothing about publications.
OtherTypes == {"DATA", "DATA_iSUB", "STOP_PUBLISH_iSUB", "START_PUBLISH_iSUB",
               "GET_NODEID", "GET_RVTMFID"}

LEMMA TellsOthers ==
    ASSUME \A m \in out'.apps : m.type \in OtherTypes PROVE NotifiedOwnIDs'
BY DEF NotifiedOwnIDs, OtherTypes, PublisherState

LEMMA QuietNames == ASSUME AllNameable, UNCHANGED pubs PROVE AllNameable'
BY DEF AllNameable

LEMMA SendsNoApps ==
    ASSUME NEW b, Send(b, {}) \/ SendOnly(Nothing) PROVE out'.apps = {}
<1>1. CASE Send(b, {})
  BY <1>1 DEF Send, Nothing
<1>2. QED BY <1>1 DEF SendOnly, Nothing

LEMMA RequestTells ==
    ASSUME NEW r, handleLocalRequest(r) PROVE NotifiedOwnIDs'
<1>1. SendOnly(Nothing) \/ \E b : Send(b, {})
  BY Zenon DEF handleLocalRequest, storeActivePublication, removeActivePublication,
               storeActiveSubscription, removeActiveSubscription
<1>2. out'.apps = {}
  BY <1>1, SendsNoApps
<1>3. QED BY <1>2, TellsOthers

LEMMA LeavingTells ==
    ASSUME IInv, NEW h \in Host, disconnect(h) PROVE NotifiedOwnIDs'
<1> DEFINE successors == {id \in getLocalHost(h)[h].pubs : needsSuccessor(h, id)}
           apps == {ToApp(First(Without(pubs[id].publishers, h)), "START_PUBLISH", id) :
                      id \in successors}
<1>1. \E b : Send(b, apps)
  BY Zenon DEF disconnect
<1>2. out'.apps = apps
  <2> HIDE DEF apps
  <2>1. QED BY <1>1 DEF Send, Nothing
<1>3. ASSUME NEW id \in successors
      PROVE  /\ id \in DOMAIN pubs'
             /\ First(Without(pubs[id].publishers, h)) \in DOMAIN pubs'[id].publishers
  <2> DEFINE rest == Without(pubs[id].publishers, h)
             next == [rest EXCEPT ![First(rest)] = "START_PUBLISH"]
  <2>1. /\ id \in DOMAIN pubs /\ h \in DOMAIN pubs[id].publishers
        /\ DOMAIN pubs[id].publishers # {h} /\ needsSuccessor(h, id)
    <3>1. id \in DOMAIN pubs /\ h \in DOMAIN pubs[id].publishers
      BY RecordIsList
    <3>2. QED BY <3>1 DEF needsSuccessor
  <2>2. id \in DOMAIN pubs'
    <3>1. pubs' = deleteAllActivePublications(h) /\ id \notin lastPublished(h)
      BY <2>1, Zenon DEF disconnect, lastPublished
    <3>2. QED BY <2>1, <3>1 DEF deleteAllActivePublications
  <2>3. pubs'[id].publishers = next
    BY <2>1, <2>2, LeavingIs, Zenon
  <2>4. DOMAIN rest = DOMAIN pubs[id].publishers \ {h}
    BY DEF Without
  <2> HIDE DEF rest
  <2>5. DOMAIN rest \subseteq Host /\ DOMAIN rest # {}
    BY <2>1, <2>4, PublishersOf
  <2>6. First(rest) \in DOMAIN rest
    BY <2>5, FirstIsOne
  <2>7. QED BY <2>2, <2>3, <2>6 DEF rest
<1>4. \A m \in apps : \E id \in successors :
         /\ m.type = "START_PUBLISH" /\ m.id = id
         /\ m.host = First(Without(pubs[id].publishers, h))
  BY ToAppFields
<1> HIDE DEF apps, successors
<1>5. QED BY <1>2, <1>3, <1>4, TellsOwners

LEMMA ScopeTells ==
    ASSUME NEW n, scopeNotification(n) PROVE NotifiedOwnIDs'
<1> DEFINE apps == UNION {{ToApp(h, n.type, id) : h \in findActiveSubscriptions(id)} :
                             id \in Range(n.ids)}
<1>1. /\ n.type \in {"SCOPE_PUBLISHED", "SCOPE_UNPUBLISHED"}
      /\ SendOnly([Nothing EXCEPT !.apps = apps]) /\ subs' = subs
  BY Zenon DEF scopeNotification
<1>2. \A m \in apps : /\ m.type = n.type /\ m.host \in findActiveSubscriptions(m.id)
  BY ToAppFields
<1>3. \A id : findActiveSubscriptions(id) \subseteq SubscribersAt(Father(id))
  BY DEF findActiveSubscriptions, SubscribersAt
<1> HIDE DEF apps
<1>4. out'.apps = apps
  BY <1>1, AppsOf, Zenon
<1>5. \A id : SubscribersAt(id)' = SubscribersAt(id)
  BY <1>1 DEF SubscribersAt
<1>6. \A m \in out'.apps : /\ m.type \in {"SCOPE_PUBLISHED", "SCOPE_UNPUBLISHED"}
                           /\ m.host \in SubscribersAt(Father(m.id))'
  BY <1>1, <1>2, <1>3, <1>4, <1>5
<1>7. QED BY <1>6 DEF NotifiedOwnIDs, PublisherState

LEMMA NotificationNames ==
    ASSUME IInv, AllNameable, OneName, PathsGiven, NEW n \in Inputs.notifications,
           handleRVNotification(n)
    PROVE  AllNameable' /\ NotifiedOwnIDs'
<1>1. CASE scopeNotification(n)
  <2>1. UNCHANGED pubs
    BY <1>1 DEF scopeNotification
  <2>2. QED BY <1>1, <2>1, QuietNames, ScopeTells
<1>2. CASE updateConf(n)
  <2>1. UNCHANGED pubs /\ SendOnly(Nothing)
    BY <1>2 DEF updateConf
  <2>2. out'.apps = {}
    BY <2>1 DEF SendOnly, Nothing
  <2>3. QED BY <2>1, <2>2, QuietNames, TellsOthers
<1>3. QED BY <1>1, <1>2, StartNames, UpdateNames, StopNames DEF handleRVNotification

LEMMA NodeFIDsTell ==
    ASSUME NEW f, updateNodeFIDs(f) PROVE NotifiedOwnIDs'
<1> DEFINE named == DOMAIN f \cap DOMAIN nodes
           heard == {n \in named : DOMAIN nodes[n].publishers # {}}
           state(n) == IF zero(f[n]) THEN "STOP_PUBLISH_iSUB" ELSE "START_PUBLISH_iSUB"
           first(n) == First(nodes[n].publishers)
           apps == {ToApp(first(n), state(n), <<n>>) : n \in heard}
<1>1. SendOnly([Nothing EXCEPT !.apps = apps])
  BY Zenon DEF updateNodeFIDs
<1>2. \A n : state(n) \in OtherTypes
  BY DEF OtherTypes
<1> HIDE DEF state, first, heard
<1>3. ASSUME NEW m \in apps PROVE m.type \in OtherTypes
  <2>1. \E n : m = ToApp(first(n), state(n), <<n>>)
    BY Zenon
  <2>2. QED BY <1>2, <2>1, ToAppFields
<1> HIDE DEF apps
<1>4. out'.apps = apps
  BY <1>1, AppsOf, Zenon
<1>5. QED BY <1>3, <1>4, TellsOthers

\* What the owner of a publication is told when it publishes data.
LEMMA UserTells ==
    ASSUME IInv, AllNameable, OneName, NEW h, NEW id \in Inputs.published,
           NEW type \in {"DATA", "DATA_iSUB"}, UNCHANGED pubs,
           SendOnly(userPublication(h, id, type))
    PROVE  NotifiedOwnIDs'
<1> DEFINE own == id \in DOMAIN pubs
           at == IF own THEN id ELSE Father(id)
           state == IF h \in DOMAIN pubs[at].publishers
                    THEN pubs[at].publishers[h] ELSE "none"
           local == findLocalSubscribers(IF own THEN Range(pubs[at].known) ELSE {id}) \ {h}
           told == {ToApp(h, state, id)}
           data == {ToApp(g, type, id) : g \in local}
           apps == userPublication(h, id, type).apps
<1>1. out'.apps = apps
  BY DEF SendOnly
<1>2. \/ apps = {}
      \/ apps = data
      \/ apps = told /\ at \in DOMAIN pubs /\ state \in {"RE_PUBLISH", "PAUSE_PUBLISH"}
  BY Zenon DEF userPublication, Nothing
<1>3. \A m \in data : m.type \in OtherTypes
  BY ToAppFields DEF OtherTypes
<1>4. at \in DOMAIN pubs /\ state \in {"RE_PUBLISH", "PAUSE_PUBLISH"} =>
         id \in DOMAIN pubs /\ h \in DOMAIN pubs[id].publishers
  <2> SUFFICES ASSUME at \in DOMAIN pubs, state \in {"RE_PUBLISH", "PAUSE_PUBLISH"}
               PROVE  id \in DOMAIN pubs /\ h \in DOMAIN pubs[id].publishers
    BY Zenon
  <2>1. h \in DOMAIN pubs[at].publishers
        /\ pubs[at].publishers[h] \notin {"STOP_PUBLISH", "START_PUBLISH"}
    OBVIOUS
  <2>2. Nameable(at, pubs[at])
    BY DEF AllNameable
  <2>3. IsItem(at)
    BY <2>1, <2>2, Zenon DEF Nameable
  <2>4. at = id
    BY <2>3 DEF OneName
  <2>5. QED BY <2>1, <2>4
<1> HIDE DEF apps, data, at, state, own
<1>5. \A m \in told : m.type = state /\ m.host = h /\ m.id = id
  BY ToAppFields
<1> HIDE DEF told
<1>6. CASE apps = told /\ at \in DOMAIN pubs /\ state \in {"RE_PUBLISH", "PAUSE_PUBLISH"}
  <2>1. \A m \in out'.apps : /\ m.type \in {"RE_PUBLISH", "PAUSE_PUBLISH"}
                             /\ m.id \in DOMAIN pubs'
                             /\ m.host \in DOMAIN pubs'[m.id].publishers
    BY <1>1, <1>4, <1>5, <1>6
  <2>2. QED BY <2>1, TellsOwners
<1>7. QED BY <1>1, <1>2, <1>3, <1>6, TellsOthers

LEMMA MulticastNames ==
    ASSUME IInv, AllNameable, OneName, NEW h, NEW id, NEW N \in (SUBSET Inputs.nodes) \ {{}},
           publishMulticast(h, id, N)
    PROVE  AllNameable' /\ NotifiedOwnIDs'
<1> DEFINE at == IF id \in DOMAIN pubs THEN id ELSE Father(id)
           p == [pubs[at] EXCEPT !.known = <<id>>]
<1>1. ASSUME UNCHANGED pubs PROVE AllNameable'
  BY <1>1, QuietNames
<1>2. ASSUME at \in DOMAIN pubs, pubs' = [pubs EXCEPT ![at] = p] PROVE AllNameable'
  <2>1. pubs[at] \in Publication
    BY <1>2 DEF IInv, TypeInv, IsTable
  <2>2. /\ p.publishers = pubs[at].publishers /\ p.fid = pubs[at].fid
        /\ p.isScope = pubs[at].isScope /\ p.known = <<id>>
    BY <2>1 DEF Publication
  <2> HIDE DEF p, at
  <2>3. /\ DOMAIN pubs' = DOMAIN pubs /\ pubs'[at] = p
        /\ \A i \in DOMAIN pubs : i # at => pubs'[i] = pubs[i]
    BY <1>2
  <2>4. "RECONNECTED" \notin Inputs.mapp
    BY DEF OneName
  <2>5. p.known # <<>>
    BY <2>2
  <2>6. Renames(at, pubs[at], p)
    BY <2>2, <2>4, <2>5 DEF Renames
  <2>7. Nameable(at, p)
    BY <1>2, <2>6, RenamesNameable DEF AllNameable
  <2>8. QED BY <2>3, <2>7 DEF AllNameable
<1>3. AllNameable'
  <2>1. \/ UNCHANGED pubs
        \/ at \in DOMAIN pubs /\ pubs' = [pubs EXCEPT ![at] = p]
    BY Zenon DEF publishMulticast
  <2>2. QED BY <1>1, <1>2, <2>1
<1>4. SendOnly(Nothing) \/ \E net : SendOnly([Nothing EXCEPT !.net = net])
  BY Zenon DEF publishMulticast
<1>5. out'.apps = {}
  BY <1>4 DEF SendOnly, Nothing
<1>6. QED BY <1>3, <1>5, TellsOthers

LEMMA LossNames ==
    ASSUME IInv, AllNameable, Inputs.links # {}, NEW lid, processTMNotification(lid)
    PROVE  AllNameable'
<1>1. ~ Steady
  BY DEF Steady
<1>2. ASSUME NEW p \in Publication, ~ p.isScope PROVE Follows(p, invalidated(p))
  <2>1. /\ invalidated(p).publishers = [h \in DOMAIN p.publishers |->
              IF p.publishers[h] = "START_PUBLISH" THEN "RE_PUBLISH" ELSE p.publishers[h]]
        /\ invalidated(p).isScope = p.isScope /\ invalidated(p).known = p.known
    BY Zenon DEF invalidated, Publication
  <2>2. ASSUME NEW h \in DOMAIN p.publishers
        PROVE  \/ invalidated(p).publishers[h] = p.publishers[h]
               \/ p.publishers[h] # "STOP_PUBLISH"
    BY <2>1
  <2>3. DOMAIN invalidated(p).publishers = DOMAIN p.publishers
    BY <2>1
  <2>4. QED BY <1>1, <1>2, <2>1, <2>2, <2>3, Zenon DEF Follows
<1>3. \A id \in DOMAIN pubs : pubs[id] \in Publication
  BY DEF IInv, TypeInv, IsTable
<1>4. /\ DOMAIN pubs' = DOMAIN pubs
      /\ \A id \in DOMAIN pubs : \/ pubs'[id] = pubs[id]
                                 \/ ~ pubs[id].isScope /\ pubs'[id] = invalidated(pubs[id])
  BY DEF processTMNotification
<1>5. QED BY <1>2, <1>3, <1>4, FollowsNameable DEF AllNameable

LEMMA MappNames ==
    ASSUME IInv, AllNameable, OneName, NEW h, NEW q \in Inputs.mapp, handleMappRequest(h, q)
    PROVE  AllNameable' /\ NotifiedOwnIDs'
<1>1. \A id \in DOMAIN pubs : pubs[id] \in Publication
  BY DEF IInv, TypeInv, IsTable
<1>2. CASE q \in {"GET_NODEID", "GET_RVTMFID"} /\ UNCHANGED pubs
           /\ SendOnly([Nothing EXCEPT !.apps = {ToApp(h, q, <<>>)}])
  <2>1. out'.apps = {ToApp(h, q, <<>>)}
    BY <1>2, AppsOf, Zenon
  <2>2. \A m \in out'.apps : m.type = q
    BY <2>1, ToAppFields
  <2>3. QED BY <1>2, <2>2, QuietNames, TellsOthers DEF OtherTypes
<1>3. CASE q = "DISCONNECTED" /\ updateStates(q)
  <2>1. ~ Steady
    BY <1>3 DEF Steady
  <2>2. ASSUME NEW p \in Publication, ~ p.isScope PROVE Follows(p, paused(p))
    <3>1. /\ paused(p).publishers = [g \in DOMAIN p.publishers |->
                IF p.publishers[g] # "STOP_PUBLISH" THEN "PAUSE_PUBLISH" ELSE "STOP_PUBLISH"]
          /\ paused(p).isScope = p.isScope /\ paused(p).known = p.known
      BY Zenon DEF paused, Publication
    <3>2. QED BY <2>1, <2>2, <3>1 DEF Follows
  <2>3. /\ DOMAIN pubs' = DOMAIN pubs
        /\ \A id \in DOMAIN pubs : \/ pubs'[id] = pubs[id]
                                   \/ ~ pubs[id].isScope /\ pubs'[id] = paused(pubs[id])
    BY <1>3 DEF updateStates
  <2>4. AllNameable'
    BY <1>1, <2>2, <2>3, FollowsNameable DEF AllNameable
  <2>5. SendOnly(Nothing)
    BY <1>3, Zenon DEF updateStates
  <2>6. out'.apps = {}
    BY <2>5 DEF SendOnly, Nothing
  <2>7. QED BY <2>4, <2>6, TellsOthers
<1>4. CASE q = "RECONNECTED" /\ updateStates(q)
  <2> DEFINE apps == UNION {{ToApp(g, "RESUME_PUBLISH", pubs[id].known[1]) :
                               g \in PausedAt(id)} : id \in DOMAIN pubs}
  <2>1. ASSUME NEW id \in DOMAIN pubs
        PROVE  /\ resumed(id).publishers = [g \in DOMAIN pubs[id].publishers |->
                     IF g \in PausedAt(id) THEN "RESUME_PUBLISH" ELSE pubs[id].publishers[g]]
               /\ resumed(id).isScope = pubs[id].isScope
               /\ resumed(id).known = pubs[id].known /\ resumed(id).fid = pubs[id].fid
    <3>1. pubs[id] \in Publication
      BY <1>1
    <3>2. QED BY <3>1, Zenon DEF resumed, Publication
  <2>2. DOMAIN pubs' = DOMAIN pubs /\ \A id \in DOMAIN pubs : pubs'[id] = resumed(id)
    BY <1>4 DEF updateStates
  <2>3. ASSUME NEW id \in DOMAIN pubs, NEW g \in PausedAt(id)
        PROVE  /\ ~ pubs[id].isScope /\ ~ Steady /\ pubs[id].known = <<id>>
               /\ g \in DOMAIN pubs[id].publishers
               /\ pubs[id].publishers[g] # "STOP_PUBLISH"
    BY <1>4 DEF PausedAt, AllNameable, Nameable
  <2>4. ASSUME NEW id \in DOMAIN pubs PROVE Follows(pubs[id], pubs'[id])
    <3> DEFINE t == [g \in DOMAIN pubs[id].publishers |->
                       IF g \in PausedAt(id) THEN "RESUME_PUBLISH" ELSE pubs[id].publishers[g]]
    <3>1. /\ DOMAIN pubs'[id].publishers = DOMAIN pubs[id].publishers
          /\ \A g \in DOMAIN pubs[id].publishers :
                \/ pubs'[id].publishers[g] = pubs[id].publishers[g]
                \/ g \in PausedAt(id)
      <4>1. pubs'[id].publishers = t
        BY <2>1, <2>2, Zenon
      <4>2. QED BY <4>1
    <3> HIDE DEF t
    <3>2. /\ pubs'[id].isScope = pubs[id].isScope /\ pubs'[id].known = pubs[id].known
          /\ pubs'[id].fid = pubs[id].fid
      BY <2>1, <2>2, Zenon
    <3>3. QED BY <2>3, <3>1, <3>2, Zenon DEF Follows
  <2>5. AllNameable'
    BY <2>2, <2>4, FollowsNameable DEF AllNameable
  <2>6. ASSUME NEW m \in apps
        PROVE  /\ m.type = "RESUME_PUBLISH" /\ m.id \in DOMAIN pubs
               /\ m.host \in DOMAIN pubs[m.id].publishers
    <3>1. PICK id \in DOMAIN pubs :
             \E g \in PausedAt(id) : m = ToApp(g, "RESUME_PUBLISH", pubs[id].known[1])
      BY Zenon
    <3>2. pubs[id].known[1] = id
      BY <2>3, <3>1
    <3>3. QED BY <2>3, <3>1, <3>2, ToAppFields
  <2>7. \E b : SendOnly([Nothing EXCEPT !.apps = apps, !.isub = b])
    BY <1>4, Zenon DEF updateStates
  <2> HIDE DEF apps
  <2>8. out'.apps = apps
    BY <2>7 DEF SendOnly, Nothing
  <2>9. \A id \in DOMAIN pubs : DOMAIN pubs'[id].publishers = DOMAIN pubs[id].publishers
    BY <2>1, <2>2, Zenon
  <2>10. \A m \in out'.apps : /\ m.type = "RESUME_PUBLISH" /\ m.id \in DOMAIN pubs'
                              /\ m.host \in DOMAIN pubs'[m.id].publishers
    BY <2>2, <2>6, <2>8, <2>9
  <2>11. QED BY <2>5, <2>10, TellsOwners
<1>5. QED BY <1>2, <1>3, <1>4, Zenon DEF handleMappRequest, updateStates

NamesInv == AllNameable /\ NotifiedOwnIDs

LEMMA InitNames == Init => NamesInv
<1> SUFFICES ASSUME Init PROVE NamesInv
  OBVIOUS
<1>1. DOMAIN pubs = {} /\ out = Nothing
  BY Zenon DEF Init
<1>2. out.apps = {}
  BY <1>1 DEF Nothing
<1>3. QED BY <1>1, <1>2 DEF NamesInv, AllNameable, NotifiedOwnIDs

LEMMA NextNames == PathsGiven /\ OneName /\ IInv /\ NamesInv /\ [Next]_vars => NamesInv'
<1> SUFFICES ASSUME PathsGiven, OneName, IInv, NamesInv, [Next]_vars PROVE NamesInv'
  OBVIOUS
<1>a. AllNameable /\ NotifiedOwnIDs /\ (AllNameable' /\ NotifiedOwnIDs' => NamesInv')
  BY DEF NamesInv
<1>1. CASE UNCHANGED vars
  BY <1>1, Zenon DEF vars, NamesInv, AllNameable, NotifiedOwnIDs, SubscribersAt
<1>2. ASSUME UNCHANGED pubs, NotifiedOwnIDs' PROVE NamesInv'
  BY <1>a, <1>2, QuietNames
<1>3. ASSUME NEW r \in Inputs.requests, handleLocalRequest(r) PROVE NamesInv'
  BY <1>a, <1>3, RequestNames, RequestTells
<1>4. ASSUME NEW h \in Inputs.hosts, disconnect(h) PROVE NamesInv'
  BY <1>a, <1>4, InputTypes, LeavingNames, LeavingTells
<1>5. ASSUME NEW n \in Inputs.notifications, handleRVNotification(n) PROVE NamesInv'
  BY <1>a, <1>5, NotificationNames
<1>6. ASSUME NEW f, updateNodeFIDs(f) PROVE NamesInv'
  <2>1. UNCHANGED pubs
    BY <1>6 DEF updateNodeFIDs
  <2>2. QED BY <1>2, <1>6, <2>1, NodeFIDsTell
<1>7. ASSUME NEW h, NEW id \in Inputs.published, publishData(h, id) PROVE NamesInv'
  <2>1. UNCHANGED pubs /\ SendOnly(userPublication(h, id, "DATA"))
    BY <1>7, Zenon DEF publishData
  <2>2. QED BY <1>a, <1>2, <2>1, UserTells
<1>8. ASSUME NEW h, NEW id, NEW fid, publishImplicit(h, id, fid) PROVE NamesInv'
  <2> DEFINE local == findLocalSubscribers(augmented(id)) \ {h}
             apps == {ToApp(g, "DATA", id) : g \in local}
  <2>1. UNCHANGED pubs /\ \E net : SendOnly([Nothing EXCEPT !.net = net, !.apps = apps])
    BY <1>8, Zenon DEF publishImplicit, givenFID
  <2>2. \A m \in apps : m.type \in OtherTypes
    BY ToAppFields DEF OtherTypes
  <2> HIDE DEF apps
  <2>3. out'.apps = apps
    BY <2>1 DEF SendOnly, Nothing
  <2>4. QED BY <1>2, <2>1, <2>2, <2>3, TellsOthers
<1>9. ASSUME NEW ids, NEW type \in {"DATA", "DATA_iSUB"}
      PROVE  \A m \in networkPublication(ids, type) : m.type \in OtherTypes
  BY ToAppFields DEF networkPublication, OtherTypes
<1>10. ASSUME NEW ids, publicationFromNetwork(ids) PROVE NamesInv'
  <2>1. UNCHANGED pubs /\ out'.apps = networkPublication(ids, "DATA")
    BY <1>10, AppsOf DEF publicationFromNetwork
  <2>2. QED BY <1>2, <1>9, <2>1, TellsOthers
<1>11. ASSUME NEW n, NEW ids, implicitSubscription(n, ids) PROVE NamesInv'
  <2> DEFINE apps == networkPublication(ids, "DATA_iSUB")
  <2>1. UNCHANGED pubs /\ \E b : SendOnly([Nothing EXCEPT !.isub = b, !.apps = apps])
    BY <1>11, Zenon DEF implicitSubscription
  <2>2. \A m \in apps : m.type \in OtherTypes
    BY <1>9
  <2> HIDE DEF apps
  <2>3. out'.apps = apps
    BY <2>1 DEF SendOnly, Nothing
  <2>4. QED BY <1>2, <2>1, <2>2, <2>3, TellsOthers
<1>12. ASSUME NEW h, NEW id \in Inputs.published, NEW sid, publishISub(h, id, sid)
       PROVE  NamesInv'
  <2>1. UNCHANGED pubs /\ SendOnly(userPublication(h, id, "DATA_iSUB"))
    BY <1>12, Zenon DEF publishISub
  <2>2. QED BY <1>a, <1>2, <2>1, UserTells
<1>13. ASSUME NEW h, NEW id, NEW N \in (SUBSET Inputs.nodes) \ {{}}, publishMulticast(h, id, N)
       PROVE  NamesInv'
  BY <1>a, <1>13, MulticastNames
<1>14. ASSUME NEW lid \in Inputs.links, linkFailed(lid) PROVE NamesInv'
  <2>1. processTMNotification(lid) /\ \E b : SendOnly([Nothing EXCEPT !.isub = b])
    BY <1>14, Zenon DEF linkFailed
  <2>2. out'.apps = {}
    BY <2>1 DEF SendOnly, Nothing
  <2>3. QED BY <1>a, <1>14, <2>1, <2>2, LossNames, TellsOthers
<1>15. ASSUME NEW h, NEW lid \in Inputs.links, NEW fid, tmPublication(h, fid, lid)
       PROVE  NamesInv'
  <2>1. /\ \E read : processTMNotification(read)
        /\ \E b, net : SendOnly([Nothing EXCEPT !.net = net, !.isub = b])
    BY <1>15, Zenon DEF tmPublication
  <2>2. out'.apps = {}
    BY <2>1 DEF SendOnly, Nothing
  <2>3. QED BY <1>a, <1>15, <2>1, <2>2, LossNames, TellsOthers
<1>16. ASSUME NEW h, NEW q \in Inputs.mapp, handleMappRequest(h, q) PROVE NamesInv'
  BY <1>a, <1>16, MappNames
<1>17. CASE Next
  BY <1>3, <1>4, <1>5, <1>6, <1>7, <1>8, <1>10, <1>11, <1>12, <1>13, <1>14, <1>15, <1>16,
     <1>17, Zenon DEF Next, Step
<1>18. QED BY <1>1, <1>17

\* Where the rendezvous point starts publishers only on a path and items are
\* named as OneName says: updateStates() finds a first known ID in every
\* publication it resumes; an application is told to start, stop, publish
\* again, pause, resume or change its path only about an item that it
\* publishes itself, and about a scope only if it subscribes to the scope
\* above; and, as long as no link fails and the network stays, a started
\* publisher has a path, so that handleUserPublication() drops none of its
\* data.
THEOREM PublishersAlwaysServed ==
    ASSUME PathsGiven, OneName
    PROVE  Spec => [](ResumeHasID /\ NotifiedOwnIDs /\ (Steady => StartedHasPath))
<1>1. Init => IInv /\ NamesInv
  BY InitIInv, InitNames
<1>2. IInv /\ NamesInv /\ [Next]_vars => (IInv /\ NamesInv)'
  BY NextIInv, NextNames
<1>3. NamesInv => ResumeHasID /\ NotifiedOwnIDs /\ (Steady => StartedHasPath)
  BY DEF NamesInv, AllNameable, Nameable, ResumeHasID, StartedHasPath, StartedOnPath,
         NotifiedAt
<1>4. QED BY <1>1, <1>2, <1>3, PTL DEF Spec
=============================================================================
