-------------------------- MODULE LocalProxy_proofs --------------------------
(***************************************************************************)
(* For every set of applications, IDs, forwarding identifiers and          *)
(* messages: the tables of LocalProxy agree with the records of the        *)
(* applications, no publisher changes its state unnoticed, and what a      *)
(* leaving application had is undone from the deepest scope.               *)
(***************************************************************************)
EXTENDS LocalProxy, TLAPS

(***************************************************************************)
(* The records of the tables, with all their fields.                       *)
(***************************************************************************)
Table(S, T) == UNION {[D -> T] : D \in SUBSET S}

Publication == [strategy : Reaching, isScope : BOOLEAN, rvfid : AnyFID, fid : AnyFID,
                known : Seq(FullID), publishers : Table(Host, PublisherState)]
Subscription == [strategy : Strategy, isScope : BOOLEAN, rvfid : AnyFID,
                 subscribers : SUBSET Host]
ActiveNode == [fid : AnyFID, publishers : Table(Host, NodeState)]
LocalHost == [pubs : SUBSET FullID, subs : SUBSET FullID]
Conf == [rv : AnyFID, tm : FID, status : {"CONNECTED", "DISCONNECTED", "RECONNECTED"}]

\* f is a table of records of T under keys of S.
IsTable(f, S, T) == DOMAIN f \subseteq S /\ \A x \in DOMAIN f : f[x] \in T

TypeInv ==
    /\ IsTable(pubs, FullID, Publication) /\ IsTable(subs, FullID, Subscription)
    /\ IsTable(nodes, NodeID, ActiveNode) /\ IsTable(hosts, Host, LocalHost)
    /\ gc \in Conf /\ fault \in BOOLEAN

(***************************************************************************)
(* L gives every ID the applications that its entry lists, R gives every   *)
(* application the IDs that its record lists.                              *)
(***************************************************************************)
Agree(L, R) ==
    /\ \A id \in DOMAIN L : L[id] # {} /\ L[id] \subseteq DOMAIN R
    /\ \A h \in DOMAIN R : R[h] = {id \in DOMAIN L : h \in L[id]}

pubHosts == [id \in DOMAIN pubs |-> DOMAIN pubs[id].publishers]
subHosts == [id \in DOMAIN subs |-> subs[id].subscribers]
pubIDs == [h \in DOMAIN hosts |-> hosts[h].pubs]
subIDs == [h \in DOMAIN hosts |-> hosts[h].subs]

PubAgree == Agree(pubHosts, pubIDs)
SubAgree == Agree(subHosts, subIDs)

IInv == TypeInv /\ PubAgree /\ SubAgree

-----------------------------------------------------------------------------
(***************************************************************************)
(* Records.                                                                *)
(***************************************************************************)
LEMMA TableElement ==
    ASSUME NEW S, NEW T, NEW t \in Table(S, T)
    PROVE  DOMAIN t \subseteq S /\ \A x \in DOMAIN t : t[x] \in T
BY DEF Table

LEMMA TableMade ==
    ASSUME NEW S, NEW T, NEW D \in SUBSET S, NEW t \in [D -> T]
    PROVE  t \in Table(S, T)
BY DEF Table

\* The entries f names get other values.
LEMMA TableSet ==
    ASSUME NEW S, NEW T, NEW t \in Table(S, T), NEW x, NEW v \in T
    PROVE  /\ [t EXCEPT ![x] = v] \in Table(S, T)
           /\ DOMAIN [t EXCEPT ![x] = v] = DOMAIN t
<1>1. t \in [DOMAIN t -> T] /\ DOMAIN t \in SUBSET S
  BY DEF Table
<1>2. [t EXCEPT ![x] = v] \in [DOMAIN t -> T]
  BY <1>1, Zenon
<1>3. QED BY <1>1, <1>2, TableMade, Zenon

LEMMA PublicationFields ==
    ASSUME NEW p \in Publication
    PROVE  /\ p.strategy \in Reaching /\ p.isScope \in BOOLEAN /\ p.rvfid \in AnyFID
           /\ p.fid \in AnyFID /\ p.known \in Seq(FullID)
           /\ p.publishers \in Table(Host, PublisherState)
           /\ DOMAIN p.publishers \subseteq Host
           /\ \A h \in DOMAIN p.publishers : p.publishers[h] \in PublisherState
<1>1. /\ p.strategy \in Reaching /\ p.isScope \in BOOLEAN /\ p.rvfid \in AnyFID
      /\ p.fid \in AnyFID /\ p.known \in Seq(FullID)
      /\ p.publishers \in Table(Host, PublisherState)
  BY DEF Publication
<1>2. QED BY <1>1, TableElement

\* The ways in which the handlers change an entry of activePublicationIndex.
LEMMA PublicationKnown ==
    ASSUME NEW p \in Publication, NEW k \in Seq(FullID)
    PROVE  /\ [p EXCEPT !.known = k] \in Publication
           /\ [p EXCEPT !.known = k].publishers = p.publishers
<1>1. [p EXCEPT !.known = k] \in Publication
  BY Zenon DEF Publication
<1>2. QED BY <1>1 DEF Publication

LEMMA PublicationPublishers ==
    ASSUME NEW p \in Publication, NEW t \in Table(Host, PublisherState)
    PROVE  /\ [p EXCEPT !.publishers = t] \in Publication
           /\ [p EXCEPT !.publishers = t].publishers = t
<1>1. [p EXCEPT !.publishers = t] \in Publication
  BY Zenon DEF Publication
<1>2. QED BY <1>1 DEF Publication

LEMMA PublicationFID ==
    ASSUME NEW p \in Publication, NEW f \in AnyFID, NEW t \in Table(Host, PublisherState)
    PROVE  /\ [p EXCEPT !.fid = f, !.publishers = t] \in Publication
           /\ [p EXCEPT !.fid = f, !.publishers = t].publishers = t
<1>1. [p EXCEPT !.fid = f, !.publishers = t] \in Publication
  BY Zenon DEF Publication
<1>2. QED BY <1>1 DEF Publication

LEMMA SubscriptionSet ==
    ASSUME NEW p \in Subscription, NEW H \in SUBSET Host
    PROVE  /\ [p EXCEPT !.subscribers = H] \in Subscription
           /\ [p EXCEPT !.subscribers = H].subscribers = H
           /\ p.subscribers \in SUBSET Host
<1>1. [p EXCEPT !.subscribers = H] \in Subscription
  BY Zenon DEF Subscription
<1>2. QED BY <1>1 DEF Subscription

LEMMA LocalHostSet ==
    ASSUME NEW r \in LocalHost, NEW I \in SUBSET FullID
    PROVE  /\ [r EXCEPT !.pubs = I] \in LocalHost /\ [r EXCEPT !.pubs = I].pubs = I
           /\ [r EXCEPT !.pubs = I].subs = r.subs
           /\ [r EXCEPT !.subs = I] \in LocalHost /\ [r EXCEPT !.subs = I].subs = I
           /\ [r EXCEPT !.subs = I].pubs = r.pubs
           /\ r.pubs \in SUBSET FullID /\ r.subs \in SUBSET FullID
BY DEF LocalHost

-----------------------------------------------------------------------------
(***************************************************************************)
(* Tables and records that agree, whatever they list.                      *)
(***************************************************************************)
\* An entry of f, or nothing.
At(f, x) == IF x \in DOMAIN f THEN f[x] ELSE {}

\* f2 is f with v at x, which may be new.
SetAt(f, f2, x, v) ==
    /\ DOMAIN f2 = DOMAIN f \cup {x}
    /\ f2[x] = v
    /\ \A y \in DOMAIN f : y # x => f2[y] = f[y]

\* Records without a change of the entries: that of h may be new.
LEMMA AgreeNewHost ==
    ASSUME NEW L, NEW L2, NEW R, NEW R2, NEW h, Agree(L, R),
           DOMAIN L2 = DOMAIN L, \A id \in DOMAIN L : L2[id] = L[id],
           SetAt(R, R2, h, At(R, h))
    PROVE  Agree(L2, R2)
BY DEF Agree, SetAt, At

\* h is added to the entry of id, and id to the record of h.
LEMMA AgreeAdd ==
    ASSUME NEW L, NEW L2, NEW R, NEW R2, NEW h, NEW id, Agree(L, R),
           SetAt(L, L2, id, At(L, id) \cup {h}),
           SetAt(R, R2, h, At(R, h) \cup {id})
    PROVE  Agree(L2, R2)
<1>1. ASSUME NEW i \in DOMAIN L2 PROVE L2[i] # {} /\ L2[i] \subseteq DOMAIN R2
  BY DEF Agree, SetAt, At
<1>2. ASSUME NEW g \in DOMAIN R2 PROVE R2[g] = {i \in DOMAIN L2 : g \in L2[i]}
  BY DEF Agree, SetAt, At
<1>3. QED BY <1>1, <1>2 DEF Agree

\* h is taken from the entry of id, which stays, and id from the record of h.
LEMMA AgreeRemove ==
    ASSUME NEW L, NEW L2, NEW R, NEW R2, NEW h, NEW id \in DOMAIN L, Agree(L, R),
           L[id] \ {h} # {}, SetAt(L, L2, id, L[id] \ {h}),
           SetAt(R, R2, h, At(R, h) \ {id})
    PROVE  Agree(L2, R2)
<1>1. ASSUME NEW i \in DOMAIN L2 PROVE L2[i] # {} /\ L2[i] \subseteq DOMAIN R2
  BY DEF Agree, SetAt, At
<1>2. ASSUME NEW g \in DOMAIN R2 PROVE R2[g] = {i \in DOMAIN L2 : g \in L2[i]}
  BY DEF Agree, SetAt, At
<1>3. QED BY <1>1, <1>2 DEF Agree

\* The entry of id goes, h was the last that it listed.
LEMMA AgreeLast ==
    ASSUME NEW L, NEW L2, NEW R, NEW R2, NEW h, NEW id \in DOMAIN L, Agree(L, R),
           L[id] \ {h} = {}, DOMAIN L2 = DOMAIN L \ {id},
           \A i \in DOMAIN L2 : L2[i] = L[i],
           SetAt(R, R2, h, At(R, h) \ {id})
    PROVE  Agree(L2, R2)
<1>1. ASSUME NEW i \in DOMAIN L2 PROVE L2[i] # {} /\ L2[i] \subseteq DOMAIN R2
  BY DEF Agree, SetAt, At
<1>2. ASSUME NEW g \in DOMAIN R2 PROVE R2[g] = {i \in DOMAIN L2 : g \in L2[i]}
  BY DEF Agree, SetAt, At
<1>3. QED BY <1>1, <1>2 DEF Agree

\* h leaves altogether.
\* Application h is taken out of both.
Leaves(h, L, L2, R, R2) ==
    /\ DOMAIN L2 = {i \in DOMAIN L : L[i] # {h}}
    /\ \A i \in DOMAIN L2 : L2[i] = L[i] \ {h}
    /\ DOMAIN R2 = DOMAIN R \ {h}
    /\ \A g \in DOMAIN R2 : R2[g] = R[g]

LEMMA AgreeLeave ==
    ASSUME NEW L, NEW L2, NEW R, NEW R2, NEW h, Agree(L, R), Leaves(h, L, L2, R, R2)
    PROVE  Agree(L2, R2)
<1>1. ASSUME NEW i \in DOMAIN L2 PROVE L2[i] # {} /\ L2[i] \subseteq DOMAIN R2
  BY DEF Agree, Leaves
<1>2. ASSUME NEW g \in DOMAIN R2 PROVE R2[g] = {i \in DOMAIN L2 : g \in L2[i]}
  BY DEF Agree, Leaves
<1>3. QED BY <1>1, <1>2 DEF Agree
-----------------------------------------------------------------------------
(***************************************************************************)
(* The record of the application that sends a message, made on its first.  *)
(***************************************************************************)
LEMMA HostFound ==
    ASSUME TypeInv, NEW h \in Host
    PROVE  LET G == getLocalHost(h)
           IN  /\ IsTable(G, Host, LocalHost) /\ DOMAIN G = DOMAIN hosts \cup {h}
               /\ G[h] \in LocalHost
               /\ G[h].pubs = At(pubIDs, h) /\ G[h].subs = At(subIDs, h)
               /\ \A g \in DOMAIN hosts : g # h => G[g] = hosts[g]
<1>1. IsTable(hosts, Host, LocalHost)
  BY DEF TypeInv
<1>2. NewHost \in LocalHost /\ NewHost.pubs = {} /\ NewHost.subs = {}
  BY DEF NewHost, LocalHost
<1>3. DOMAIN pubIDs = DOMAIN hosts /\ DOMAIN subIDs = DOMAIN hosts
  BY DEF pubIDs, subIDs
<1>4. CASE h \in DOMAIN hosts
  BY <1>1, <1>3, <1>4 DEF getLocalHost, IsTable, At, pubIDs, subIDs
<1>5. CASE h \notin DOMAIN hosts
  <2>1. /\ DOMAIN getLocalHost(h) = DOMAIN hosts \cup {h} /\ getLocalHost(h)[h] = NewHost
        /\ \A g \in DOMAIN hosts : getLocalHost(h)[g] = hosts[g]
    BY <1>5 DEF getLocalHost, Put
  <2>2. QED BY <1>1, <1>2, <1>3, <1>5, <2>1 DEF IsTable, At
<1>6. QED BY <1>4, <1>5

LEMMA HostsSame ==
    ASSUME TypeInv, NEW h \in Host, hosts' = getLocalHost(h)
    PROVE  /\ IsTable(hosts', Host, LocalHost)
           /\ SetAt(pubIDs, pubIDs', h, At(pubIDs, h))
           /\ SetAt(subIDs, subIDs', h, At(subIDs, h))
<1> DEFINE G == getLocalHost(h)
<1>1. /\ IsTable(G, Host, LocalHost) /\ DOMAIN G = DOMAIN hosts \cup {h}
      /\ G[h].pubs = At(pubIDs, h) /\ G[h].subs = At(subIDs, h)
      /\ \A g \in DOMAIN hosts : g # h => G[g] = hosts[g]
  BY HostFound
<1>2. hosts' = G
  OBVIOUS
<1> HIDE DEF G
<1>3. QED BY <1>1, <1>2 DEF SetAt, pubIDs, subIDs

LEMMA HostsPubs ==
    ASSUME TypeInv, NEW h \in Host, NEW I \in SUBSET FullID,
           hosts' = [getLocalHost(h) EXCEPT ![h].pubs = I]
    PROVE  /\ IsTable(hosts', Host, LocalHost)
           /\ SetAt(pubIDs, pubIDs', h, I)
           /\ SetAt(subIDs, subIDs', h, At(subIDs, h))
<1> DEFINE G == getLocalHost(h)
           r == [G[h] EXCEPT !.pubs = I]
<1>1. /\ IsTable(G, Host, LocalHost) /\ DOMAIN G = DOMAIN hosts \cup {h} /\ G[h] \in LocalHost
      /\ G[h].subs = At(subIDs, h)
      /\ \A g \in DOMAIN hosts : g # h => G[g] = hosts[g]
  BY HostFound
<1>2. hosts' = [G EXCEPT ![h] = r]
  OBVIOUS
<1>3. r \in LocalHost /\ r.pubs = I /\ r.subs = G[h].subs
  BY <1>1, LocalHostSet, Zenon
<1> HIDE DEF G, r
<1>4. /\ DOMAIN hosts' = DOMAIN hosts \cup {h} /\ hosts'[h] = r
      /\ \A g \in DOMAIN hosts : g # h => hosts'[g] = hosts[g]
      /\ \A g \in DOMAIN hosts' : g # h => hosts'[g] = G[g]
  BY <1>1, <1>2
<1>5. IsTable(hosts', Host, LocalHost)
  BY <1>1, <1>3, <1>4 DEF IsTable
<1>6. QED BY <1>1, <1>3, <1>4, <1>5, Zenon DEF SetAt, pubIDs, subIDs

LEMMA HostsSubs ==
    ASSUME TypeInv, NEW h \in Host, NEW I \in SUBSET FullID,
           hosts' = [getLocalHost(h) EXCEPT ![h].subs = I]
    PROVE  /\ IsTable(hosts', Host, LocalHost)
           /\ SetAt(pubIDs, pubIDs', h, At(pubIDs, h))
           /\ SetAt(subIDs, subIDs', h, I)
<1> DEFINE G == getLocalHost(h)
           r == [G[h] EXCEPT !.subs = I]
<1>1. /\ IsTable(G, Host, LocalHost) /\ DOMAIN G = DOMAIN hosts \cup {h} /\ G[h] \in LocalHost
      /\ G[h].pubs = At(pubIDs, h)
      /\ \A g \in DOMAIN hosts : g # h => G[g] = hosts[g]
  BY HostFound
<1>2. hosts' = [G EXCEPT ![h] = r]
  OBVIOUS
<1>3. r \in LocalHost /\ r.subs = I /\ r.pubs = G[h].pubs
  BY <1>1, LocalHostSet, Zenon
<1> HIDE DEF G, r
<1>4. /\ DOMAIN hosts' = DOMAIN hosts \cup {h} /\ hosts'[h] = r
      /\ \A g \in DOMAIN hosts : g # h => hosts'[g] = hosts[g]
      /\ \A g \in DOMAIN hosts' : g # h => hosts'[g] = G[g]
  BY <1>1, <1>2
<1>5. IsTable(hosts', Host, LocalHost)
  BY <1>1, <1>3, <1>4 DEF IsTable
<1>6. QED BY <1>1, <1>3, <1>4, <1>5, Zenon DEF SetAt, pubIDs, subIDs

-----------------------------------------------------------------------------
(***************************************************************************)
(* Steps that add and remove no one: an entry may change, but for whom it  *)
(* lists; the application that sent the message may be new.                *)
(***************************************************************************)
PubsKept ==
    /\ DOMAIN pubs' = DOMAIN pubs
    /\ \A id \in DOMAIN pubs : /\ pubs'[id] \in Publication
                               /\ DOMAIN pubs'[id].publishers = DOMAIN pubs[id].publishers

LEMMA QuietStep ==
    ASSUME IInv, PubsKept, subs' = subs,
           hosts' = hosts \/ \E h \in Host : hosts' = getLocalHost(h),
           IsTable(nodes', NodeID, ActiveNode), gc' \in Conf, fault' \in BOOLEAN
    PROVE  IInv'
<1>1. TypeInv /\ PubAgree /\ SubAgree
  BY DEF IInv
<1>2. IsTable(pubs', FullID, Publication) /\ IsTable(subs', FullID, Subscription)
  BY <1>1 DEF PubsKept, TypeInv, IsTable
<1>3. DOMAIN pubHosts' = DOMAIN pubHosts /\ \A id \in DOMAIN pubHosts : pubHosts'[id] = pubHosts[id]
  BY DEF PubsKept, pubHosts
<1>4. subHosts' = subHosts
  BY DEF subHosts
<1>5. CASE hosts' = hosts
  <2>1. pubIDs' = pubIDs /\ subIDs' = subIDs /\ IsTable(hosts', Host, LocalHost)
    BY <1>1, <1>5 DEF pubIDs, subIDs, TypeInv
  <2>2. PubAgree' /\ SubAgree'
    BY <1>1, <1>3, <1>4, <2>1 DEF PubAgree, SubAgree, Agree
  <2>3. QED BY <1>2, <2>1, <2>2 DEF IInv, TypeInv
<1>6. ASSUME NEW h \in Host, hosts' = getLocalHost(h) PROVE IInv'
  <2>1. /\ IsTable(hosts', Host, LocalHost)
        /\ SetAt(pubIDs, pubIDs', h, At(pubIDs, h))
        /\ SetAt(subIDs, subIDs', h, At(subIDs, h))
    BY <1>1, <1>6, HostsSame
  <2>2. PubAgree'
    BY <1>1, <1>3, <2>1, AgreeNewHost DEF PubAgree
  <2>3. SubAgree'
    BY <1>1, <1>4, <2>1, AgreeNewHost DEF SubAgree
  <2>4. QED BY <1>2, <2>1, <2>2, <2>3 DEF IInv, TypeInv
<1>7. QED BY <1>5, <1>6
-----------------------------------------------------------------------------
(***************************************************************************)
(* Publishing and unpublishing.                                            *)
(***************************************************************************)
LEMMA NewPublicationType ==
    ASSUME NEW h \in Host, NEW strategy \in Reaching, NEW scope \in BOOLEAN, NEW rvfid \in AnyFID
    PROVE  /\ NewPublication(h, strategy, scope, rvfid) \in Publication
           /\ DOMAIN NewPublication(h, strategy, scope, rvfid).publishers = {h}
<1> DEFINE t == [g \in {h} |-> "STOP_PUBLISH"]
<1>1. t \in Table(Host, PublisherState) /\ DOMAIN t = {h}
  <2>1. t \in [{h} -> PublisherState] /\ {h} \in SUBSET Host
    BY DEF PublisherState
  <2>2. QED BY <2>1, TableMade
<1>2. NoFID \in AnyFID /\ <<>> \in Seq(FullID)
  BY DEF AnyFID
<1> HIDE DEF t
<1>3. QED BY <1>1, <1>2 DEF NewPublication, Publication, t

\* The rest of a request: what it leaves alone, and the IDs subscribed to.
LEMMA PublishStep ==
    ASSUME IInv, NEW h \in Host, NEW I \in SUBSET FullID,
           IsTable(pubs', FullID, Publication), subs' = subs,
           hosts' = [getLocalHost(h) EXCEPT ![h].pubs = I],
           Agree(pubHosts, pubIDs) /\ SetAt(pubIDs, pubIDs', h, I) => Agree(pubHosts', pubIDs'),
           UNCHANGED <<nodes, gc, fault>>
    PROVE  IInv'
<1>1. TypeInv /\ PubAgree /\ SubAgree
  BY DEF IInv
<1>2. /\ IsTable(hosts', Host, LocalHost)
      /\ SetAt(pubIDs, pubIDs', h, I)
      /\ SetAt(subIDs, subIDs', h, At(subIDs, h))
  BY <1>1, HostsPubs, Zenon
<1>3. PubAgree'
  BY <1>1, <1>2 DEF PubAgree
<1>4. subHosts' = subHosts
  BY DEF subHosts
<1>5. SubAgree'
  BY <1>1, <1>2, <1>4, AgreeNewHost DEF SubAgree
<1>6. QED BY <1>1, <1>2, <1>3, <1>5 DEF IInv, TypeInv

LEMMA StorePublicationKeeps ==
    ASSUME IInv, NEW r \in Request, NEW id \in FullID, NEW rvfid \in AnyFID,
           storeActivePublication(r, id, rvfid), UNCHANGED <<subs, nodes, gc, fault>>
    PROVE  IInv'
<1> DEFINE h == r.host
           new == r.strategy \in Reaching /\ id \notin DOMAIN pubs
           again == r.strategy \in Reaching /\ republishes(h, id)
           joins == ~ again /\ publishedAs(id, r.strategy)
           I == getLocalHost(h)[h].pubs \cup {id}
           scope == r.type = "PUBLISH_SCOPE"
<1>1. TypeInv /\ h \in Host
  BY DEF IInv, Request
<1>2. /\ IsTable(pubs, FullID, Publication) /\ gc \in Conf /\ fault \in BOOLEAN
      /\ IsTable(nodes, NodeID, ActiveNode)
  BY <1>1 DEF TypeInv
<1>3. getLocalHost(h)[h].pubs = At(pubIDs, h) /\ I \in SUBSET FullID
  BY <1>1, HostFound, LocalHostSet, Zenon
<1>4. /\ DOMAIN pubHosts = DOMAIN pubs
      /\ \A i \in DOMAIN pubs : pubHosts[i] = DOMAIN pubs[i].publishers
  BY DEF pubHosts
<1>5. CASE pubs' = pubs /\ hosts' = getLocalHost(h)
  <2>1. PubsKept
    BY <1>2, <1>5 DEF PubsKept, IsTable
  <2>2. QED BY <1>1, <1>2, <1>5, <2>1, QuietStep
<1>6. CASE /\ new
           /\ pubs' = Put(pubs, id, NewPublication(h, r.strategy, scope, rvfid))
           /\ hosts' = [getLocalHost(h) EXCEPT ![h].pubs = @ \cup {id}]
  <2> DEFINE p == NewPublication(h, r.strategy, scope, rvfid)
  <2>1. p \in Publication /\ DOMAIN p.publishers = {h}
    BY <1>1, <1>6, NewPublicationType, Zenon
  <2> HIDE DEF p
  <2>2. /\ DOMAIN pubs' = DOMAIN pubs \cup {id} /\ pubs'[id] = p
        /\ \A i \in DOMAIN pubs : i # id => pubs'[i] = pubs[i]
    BY <1>6 DEF Put, p
  <2>3. IsTable(pubs', FullID, Publication)
    BY <1>2, <2>1, <2>2 DEF IsTable
  <2>4. SetAt(pubHosts, pubHosts', id, At(pubHosts, id) \cup {h})
    BY <1>4, <1>6, <2>1, <2>2 DEF SetAt, At, pubHosts
  <2>5. hosts' = [getLocalHost(h) EXCEPT ![h].pubs = I]
    BY <1>6
  <2> HIDE DEF I
  <2>6. QED BY <1>1, <1>3, <2>3, <2>4, <2>5, AgreeAdd, PublishStep, Zenon DEF I
<1>7. CASE /\ joins
           /\ pubs' = IF h \in DOMAIN pubs[id].publishers THEN pubs
                      ELSE [pubs EXCEPT ![id].publishers = Put(@, h, "STOP_PUBLISH")]
           /\ hosts' = [getLocalHost(h) EXCEPT ![h].pubs = @ \cup {id}]
  <2> DEFINE t == Put(pubs[id].publishers, h, "STOP_PUBLISH")
             p == [pubs[id] EXCEPT !.publishers = t]
  <2>1. id \in DOMAIN pubs /\ pubs[id] \in Publication
    BY <1>2, <1>7 DEF publishedAs, IsTable
  <2>2. t \in Table(Host, PublisherState) /\ DOMAIN t = DOMAIN pubs[id].publishers \cup {h}
    <3>1. /\ DOMAIN pubs[id].publishers \subseteq Host
          /\ \A g \in DOMAIN pubs[id].publishers : pubs[id].publishers[g] \in PublisherState
      BY <2>1, PublicationFields
    <3>2. "STOP_PUBLISH" \in PublisherState
      BY DEF PublisherState
    <3>3. t \in [DOMAIN pubs[id].publishers \cup {h} -> PublisherState]
      BY <3>1, <3>2 DEF Put
    <3>4. QED BY <1>1, <3>1, <3>3, TableMade, Zenon
  <2>3. p \in Publication /\ p.publishers = t
    BY <2>1, <2>2, PublicationPublishers
  <2>4. \/ pubs' = pubs /\ h \in DOMAIN pubs[id].publishers
        \/ pubs' = [pubs EXCEPT ![id] = p]
    BY <1>7, Zenon
  <2> HIDE DEF p, t
  <2>5. /\ DOMAIN pubs' = DOMAIN pubs /\ pubs'[id] \in Publication
        /\ DOMAIN pubs'[id].publishers = DOMAIN pubs[id].publishers \cup {h}
        /\ \A i \in DOMAIN pubs : i # id => pubs'[i] = pubs[i]
    BY <2>1, <2>2, <2>3, <2>4
  <2>6. IsTable(pubs', FullID, Publication)
    BY <1>2, <2>5 DEF IsTable
  <2>7. SetAt(pubHosts, pubHosts', id, At(pubHosts, id) \cup {h})
    BY <1>4, <2>1, <2>5 DEF SetAt, At, pubHosts
  <2>8. hosts' = [getLocalHost(h) EXCEPT ![h].pubs = I]
    BY <1>7
  <2> HIDE DEF I
  <2>9. QED BY <1>1, <1>3, <2>6, <2>7, <2>8, AgreeAdd, PublishStep, Zenon DEF I
<1>8. QED BY <1>5, <1>6, <1>7, Zenon DEF storeActivePublication
LEMMA RemovePublicationKeeps ==
    ASSUME IInv, NEW r \in Request, NEW id \in FullID, NEW rvfid,
           removeActivePublication(r, id, rvfid), UNCHANGED <<subs, nodes, gc, fault>>
    PROVE  IInv'
<1> DEFINE h == r.host
           remaining == Without(pubs[id].publishers, h)
           I == getLocalHost(h)[h].pubs \ {id}
<1>1. TypeInv /\ h \in Host
  BY DEF IInv, Request
<1>2. /\ IsTable(pubs, FullID, Publication) /\ gc \in Conf /\ fault \in BOOLEAN
      /\ IsTable(nodes, NodeID, ActiveNode)
  BY <1>1 DEF TypeInv
<1>3. getLocalHost(h)[h].pubs = At(pubIDs, h) /\ I \in SUBSET FullID
  BY <1>1, HostFound, LocalHostSet, Zenon
<1>4. /\ DOMAIN pubHosts = DOMAIN pubs
      /\ \A i \in DOMAIN pubs : pubHosts[i] = DOMAIN pubs[i].publishers
  BY DEF pubHosts
<1>5. CASE pubs' = pubs /\ hosts' = getLocalHost(h)
  <2>1. PubsKept
    BY <1>2, <1>5 DEF PubsKept, IsTable
  <2>2. QED BY <1>1, <1>2, <1>5, <2>1, QuietStep
<1>6. ASSUME publishedAs(id, r.strategy)
      PROVE  /\ id \in DOMAIN pubs /\ pubs[id] \in Publication
             /\ remaining \in Table(Host, PublisherState)
             /\ DOMAIN remaining = DOMAIN pubs[id].publishers \ {h}
  <2>1. id \in DOMAIN pubs /\ pubs[id] \in Publication
    BY <1>2, <1>6 DEF publishedAs, IsTable
  <2>2. /\ DOMAIN pubs[id].publishers \subseteq Host
        /\ \A g \in DOMAIN pubs[id].publishers : pubs[id].publishers[g] \in PublisherState
    BY <2>1, PublicationFields
  <2>3. remaining \in [DOMAIN pubs[id].publishers \ {h} -> PublisherState]
    BY <2>2 DEF Without
  <2>4. DOMAIN pubs[id].publishers \ {h} \in SUBSET Host
    BY <2>2
  <2>5. QED BY <2>1, <2>3, <2>4, TableMade
<1>7. CASE /\ publishedAs(id, r.strategy) /\ DOMAIN remaining = {}
           /\ pubs' = Without(pubs, id)
           /\ hosts' = [getLocalHost(h) EXCEPT ![h].pubs = @ \ {id}]
  <2>1. DOMAIN pubs' = DOMAIN pubs \ {id} /\ \A i \in DOMAIN pubs' : pubs'[i] = pubs[i]
    BY <1>7 DEF Without
  <2>2. IsTable(pubs', FullID, Publication)
    BY <1>2, <2>1 DEF IsTable
  <2>3. /\ id \in DOMAIN pubHosts /\ pubHosts[id] \ {h} = {}
        /\ DOMAIN pubHosts' = DOMAIN pubHosts \ {id}
        /\ \A i \in DOMAIN pubHosts' : pubHosts'[i] = pubHosts[i]
    BY <1>4, <1>6, <1>7, <2>1 DEF pubHosts
  <2>4. hosts' = [getLocalHost(h) EXCEPT ![h].pubs = I]
    BY <1>7
  <2> HIDE DEF I, remaining
  <2>5. QED BY <1>1, <1>3, <2>2, <2>3, <2>4, AgreeLast, PublishStep, Zenon DEF I
<1>8. CASE /\ publishedAs(id, r.strategy) /\ DOMAIN remaining # {}
           /\ pubs' = [pubs EXCEPT ![id].publishers = remaining]
           /\ hosts' = [getLocalHost(h) EXCEPT ![h].pubs = @ \ {id}]
  <2> DEFINE p == [pubs[id] EXCEPT !.publishers = remaining]
  <2>1. p \in Publication /\ p.publishers = remaining
    BY <1>6, <1>8, PublicationPublishers, Zenon
  <2>2. pubs' = [pubs EXCEPT ![id] = p]
    BY <1>8, Zenon
  <2> HIDE DEF p
  <2>3. /\ DOMAIN pubs' = DOMAIN pubs /\ pubs'[id] = p
        /\ \A i \in DOMAIN pubs : i # id => pubs'[i] = pubs[i]
    BY <1>6, <1>8, <2>2
  <2>4. IsTable(pubs', FullID, Publication)
    BY <1>2, <2>1, <2>3 DEF IsTable
  <2>5. /\ id \in DOMAIN pubHosts /\ pubHosts[id] \ {h} # {}
        /\ SetAt(pubHosts, pubHosts', id, pubHosts[id] \ {h})
    BY <1>4, <1>6, <1>8, <2>1, <2>3 DEF SetAt, pubHosts
  <2>6. hosts' = [getLocalHost(h) EXCEPT ![h].pubs = I]
    BY <1>8
  <2> HIDE DEF I, remaining
  <2>7. Agree(pubHosts, pubIDs) /\ SetAt(pubIDs, pubIDs', h, I) => Agree(pubHosts', pubIDs')
    BY <1>3, <2>5, AgreeRemove DEF I
  <2>8. QED BY <1>1, <1>3, <2>4, <2>6, <2>7, PublishStep, Zenon DEF I
<1>9. QED BY <1>5, <1>7, <1>8, Zenon DEF removeActivePublication

-----------------------------------------------------------------------------
(***************************************************************************)
(* Subscribing and unsubscribing.                                          *)
(***************************************************************************)
LEMMA SubscribeStep ==
    ASSUME IInv, NEW h \in Host, NEW I \in SUBSET FullID,
           IsTable(subs', FullID, Subscription), pubs' = pubs,
           hosts' = [getLocalHost(h) EXCEPT ![h].subs = I],
           Agree(subHosts, subIDs) /\ SetAt(subIDs, subIDs', h, I) => Agree(subHosts', subIDs'),
           UNCHANGED <<nodes, gc, fault>>
    PROVE  IInv'
<1>1. TypeInv /\ PubAgree /\ SubAgree
  BY DEF IInv
<1>2. /\ IsTable(hosts', Host, LocalHost)
      /\ SetAt(pubIDs, pubIDs', h, At(pubIDs, h))
      /\ SetAt(subIDs, subIDs', h, I)
  BY <1>1, HostsSubs, Zenon
<1>3. SubAgree'
  BY <1>1, <1>2 DEF SubAgree
<1>4. pubHosts' = pubHosts
  BY DEF pubHosts
<1>5. PubAgree'
  BY <1>1, <1>2, <1>4, AgreeNewHost DEF PubAgree
<1>6. QED BY <1>1, <1>2, <1>3, <1>5 DEF IInv, TypeInv

\* A request, or an implicit subscription, of application h.
LEMMA StoreSubscriptionKeeps ==
    ASSUME IInv, NEW h \in Host, NEW id \in FullID, NEW strategy \in Strategy,
           NEW scope \in BOOLEAN, NEW rvfid \in AnyFID,
           subs' = storedSubscription(h, id, strategy, scope, rvfid),
           hosts' = recordedSubscription(h, id, strategy),
           UNCHANGED <<pubs, nodes, gc, fault>>
    PROVE  IInv'
<1> DEFINE I == getLocalHost(h)[h].subs \cup {id}
<1>1. TypeInv
  BY DEF IInv
<1>2. /\ IsTable(subs, FullID, Subscription) /\ IsTable(pubs, FullID, Publication)
      /\ gc \in Conf /\ fault \in BOOLEAN /\ IsTable(nodes, NodeID, ActiveNode)
  BY <1>1 DEF TypeInv
<1>3. getLocalHost(h)[h].subs = At(subIDs, h) /\ I \in SUBSET FullID
  BY <1>1, HostFound, LocalHostSet, Zenon
<1>4. DOMAIN subHosts = DOMAIN subs /\ \A i \in DOMAIN subs : subHosts[i] = subs[i].subscribers
  BY DEF subHosts
<1>5. CASE id \in DOMAIN subs /\ ~subscribedAs(id, strategy)
  <2>1. subs' = subs /\ hosts' = getLocalHost(h)
    BY <1>5 DEF storedSubscription, recordedSubscription
  <2>2. PubsKept
    BY <1>2 DEF PubsKept, IsTable
  <2>3. QED BY <1>2, <2>1, <2>2, QuietStep
<1>6. CASE id \notin DOMAIN subs \/ subscribedAs(id, strategy)
  <2>1. hosts' = [getLocalHost(h) EXCEPT ![h].subs = I]
    BY <1>6, Zenon DEF recordedSubscription
  <2>2. /\ DOMAIN subs' = DOMAIN subs \cup {id} /\ subs'[id] \in Subscription
        /\ subs'[id].subscribers = At(subHosts, id) \cup {h}
        /\ \A i \in DOMAIN subs : i # id => subs'[i] = subs[i]
    <3>1. CASE id \notin DOMAIN subs
      <4> DEFINE p == NewSubscription(h, strategy, scope, rvfid)
      <4>1. p \in Subscription /\ p.subscribers = {h}
        BY DEF NewSubscription, Subscription
      <4> HIDE DEF p
      <4>2. subs' = Put(subs, id, p)
        BY <3>1, Zenon DEF storedSubscription, p
      <4>3. QED BY <1>4, <3>1, <4>1, <4>2 DEF Put, At
    <3>2. CASE id \in DOMAIN subs
      <4> DEFINE p == [subs[id] EXCEPT !.subscribers = subs[id].subscribers \cup {h}]
      <4>1. subs[id] \in Subscription
        BY <1>2, <3>2 DEF IsTable
      <4>2. subs[id].subscribers \cup {h} \in SUBSET Host
        BY <4>1 DEF Subscription
      <4>3. p \in Subscription /\ p.subscribers = subs[id].subscribers \cup {h}
        BY <4>1, <4>2, SubscriptionSet, Zenon
      <4>4. subs' = [subs EXCEPT ![id] = p]
        BY <1>6, <3>2, Zenon DEF storedSubscription
      <4> HIDE DEF p
      <4>5. QED BY <1>4, <3>2, <4>3, <4>4, Zenon DEF At
    <3>3. QED BY <3>1, <3>2
  <2>3. IsTable(subs', FullID, Subscription)
    BY <1>2, <2>2 DEF IsTable
  <2>4. SetAt(subHosts, subHosts', id, At(subHosts, id) \cup {h})
    BY <1>4, <2>2 DEF SetAt, subHosts
  <2> HIDE DEF I
  <2>5. QED BY <1>3, <2>1, <2>3, <2>4, AgreeAdd, SubscribeStep, Zenon DEF I
<1>7. QED BY <1>5, <1>6
LEMMA RemoveSubscriptionKeeps ==
    ASSUME IInv, NEW r \in Request, NEW id \in FullID, NEW rvfid,
           removeActiveSubscription(r, id, rvfid), UNCHANGED <<pubs, nodes, gc, fault>>
    PROVE  IInv'
<1> DEFINE h == r.host
           remaining == subs[id].subscribers \ {h}
           I == getLocalHost(h)[h].subs \ {id}
<1>1. TypeInv /\ h \in Host
  BY DEF IInv, Request
<1>2. /\ IsTable(subs, FullID, Subscription) /\ IsTable(pubs, FullID, Publication)
      /\ gc \in Conf /\ fault \in BOOLEAN /\ IsTable(nodes, NodeID, ActiveNode)
  BY <1>1 DEF TypeInv
<1>3. getLocalHost(h)[h].subs = At(subIDs, h) /\ I \in SUBSET FullID
  BY <1>1, HostFound, LocalHostSet, Zenon
<1>4. DOMAIN subHosts = DOMAIN subs /\ \A i \in DOMAIN subs : subHosts[i] = subs[i].subscribers
  BY DEF subHosts
<1>5. CASE ~subscribedAs(id, r.strategy)
  <2>1. subs' = subs /\ hosts' = getLocalHost(h)
    BY <1>5, Zenon DEF removeActiveSubscription
  <2>2. PubsKept
    BY <1>2 DEF PubsKept, IsTable
  <2>3. QED BY <1>1, <1>2, <2>1, <2>2, QuietStep
<1>6. CASE subscribedAs(id, r.strategy)
  <2>1. id \in DOMAIN subs /\ subs[id] \in Subscription
    BY <1>2, <1>6 DEF subscribedAs, IsTable
  <2>2. hosts' = [getLocalHost(h) EXCEPT ![h].subs = I]
    BY <1>6, Zenon DEF removeActiveSubscription, unsubscribed
  <2>3. \/ remaining = {} /\ subs' = Without(subs, id)
        \/ remaining # {} /\ subs' = [subs EXCEPT ![id].subscribers = remaining]
    BY <1>6, Zenon DEF removeActiveSubscription
  <2>4. CASE remaining = {} /\ subs' = Without(subs, id)
    <3>1. DOMAIN subs' = DOMAIN subs \ {id} /\ \A i \in DOMAIN subs' : subs'[i] = subs[i]
      BY <2>4 DEF Without
    <3>2. IsTable(subs', FullID, Subscription)
      BY <1>2, <3>1 DEF IsTable
    <3>3. /\ id \in DOMAIN subHosts /\ subHosts[id] \ {h} = {}
          /\ DOMAIN subHosts' = DOMAIN subHosts \ {id}
          /\ \A i \in DOMAIN subHosts' : subHosts'[i] = subHosts[i]
      BY <1>4, <2>1, <2>4, <3>1 DEF subHosts
    <3> HIDE DEF I, remaining
    <3>4. QED BY <1>1, <1>3, <2>2, <3>2, <3>3, AgreeLast, SubscribeStep, Zenon DEF I
  <2>5. CASE remaining # {} /\ subs' = [subs EXCEPT ![id].subscribers = remaining]
    <3> DEFINE p == [subs[id] EXCEPT !.subscribers = remaining]
    <3>1. remaining \in SUBSET Host
      BY <2>1 DEF Subscription
    <3>2. p \in Subscription /\ p.subscribers = remaining
      BY <2>1, <3>1, SubscriptionSet, Zenon
    <3>3. subs' = [subs EXCEPT ![id] = p]
      BY <2>5, Zenon
    <3> HIDE DEF p
    <3>4. /\ DOMAIN subs' = DOMAIN subs /\ subs'[id] = p
          /\ \A i \in DOMAIN subs : i # id => subs'[i] = subs[i]
      BY <2>1, <3>3
    <3>5. IsTable(subs', FullID, Subscription)
      BY <1>2, <3>2, <3>4 DEF IsTable
    <3>6. /\ id \in DOMAIN subHosts /\ subHosts[id] \ {h} # {}
          /\ SetAt(subHosts, subHosts', id, subHosts[id] \ {h})
      BY <1>4, <2>1, <2>5, <3>2, <3>4 DEF SetAt, subHosts
    <3> HIDE DEF I, remaining
    <3>7. Agree(subHosts, subIDs) /\ SetAt(subIDs, subIDs', h, I) => Agree(subHosts', subIDs')
      BY <1>3, <3>6, AgreeRemove DEF I
    <3>8. QED BY <1>1, <1>3, <2>2, <3>5, <3>7, SubscribeStep, Zenon DEF I
  <2>6. QED BY <2>3, <2>4, <2>5
<1>7. QED BY <1>5, <1>6

\* A pub/sub request of an application.
LEMMA FullIDType ==
    ASSUME NEW r \in Request PROVE FullIDOf(r) \in FullID
<1>1. r.id \in Seq(Fragment) /\ r.id # <<>> /\ r.prefix \in Seq(Fragment)
  BY DEF Request, FullID
<1>2. Suffix(r.id) \in Fragment
  BY <1>1 DEF Suffix
<1>3. QED BY <1>1, <1>2 DEF FullIDOf, FullID

LEMMA RequestKeeps ==
    ASSUME IInv, NEW r \in Request, handleLocalRequest(r)
    PROVE  IInv'
<1> DEFINE id == FullIDOf(r)
           rvfid == RVFIDOf(r.strategy)
<1>1. id \in FullID /\ r.host \in Host /\ r.strategy \in Strategy
  BY FullIDType DEF Request
<1>2. rvfid \in AnyFID
  <2>1. gc.rv \in AnyFID /\ {} \in AnyFID
    BY DEF IInv, TypeInv, Conf, AnyFID, FID
  <2>2. QED BY <2>1 DEF RVFIDOf
<1>3. UNCHANGED <<nodes, gc, fault>>
  BY DEF handleLocalRequest
<1> HIDE DEF id, rvfid
<1>4. CASE storeActivePublication(r, id, rvfid) /\ UNCHANGED subs
  BY <1>1, <1>2, <1>3, <1>4, StorePublicationKeeps, Zenon
<1>5. CASE removeActivePublication(r, id, rvfid) /\ UNCHANGED subs
  BY <1>1, <1>3, <1>5, RemovePublicationKeeps, Zenon
<1>6. CASE storeActiveSubscription(r, id, rvfid) /\ UNCHANGED pubs
  <2>1. (r.type = "SUBSCRIBE_SCOPE") \in BOOLEAN
    OBVIOUS
  <2>2. QED BY <1>1, <1>2, <1>3, <1>6, <2>1, StoreSubscriptionKeeps, Zenon
                DEF storeActiveSubscription
<1>7. CASE removeActiveSubscription(r, id, rvfid) /\ UNCHANGED pubs
  BY <1>1, <1>3, <1>7, RemoveSubscriptionKeeps, Zenon
<1>8. QED BY <1>4, <1>5, <1>6, <1>7, Zenon DEF handleLocalRequest, id, rvfid
-----------------------------------------------------------------------------
(***************************************************************************)
(* An application leaves.                                                  *)
(***************************************************************************)
\* Its record lists what it is listed by, so that following the record finds
\* every entry.
LEMMA RecordIsList ==
    ASSUME IInv, NEW h \in Host
    PROVE  /\ getLocalHost(h)[h].pubs = {id \in DOMAIN pubs : h \in DOMAIN pubs[id].publishers}
           /\ getLocalHost(h)[h].subs = {id \in DOMAIN subs : h \in subs[id].subscribers}
<1>1. TypeInv /\ PubAgree /\ SubAgree
  BY DEF IInv
<1>2. getLocalHost(h)[h].pubs = At(pubIDs, h) /\ getLocalHost(h)[h].subs = At(subIDs, h)
  BY <1>1, HostFound, Zenon
<1>3. At(pubIDs, h) = {id \in DOMAIN pubHosts : h \in pubHosts[id]}
  BY <1>1 DEF PubAgree, Agree, At
<1>4. At(subIDs, h) = {id \in DOMAIN subHosts : h \in subHosts[id]}
  BY <1>1 DEF SubAgree, Agree, At
<1>5. /\ {id \in DOMAIN pubHosts : h \in pubHosts[id]}
            = {id \in DOMAIN pubs : h \in DOMAIN pubs[id].publishers}
      /\ {id \in DOMAIN subHosts : h \in subHosts[id]}
            = {id \in DOMAIN subs : h \in subs[id].subscribers}
  BY DEF pubHosts, subHosts
<1>6. QED BY <1>2, <1>3, <1>4, <1>5

LEMMA AfterLeaving ==
    ASSUME NEW h \in Host, NEW id \in DOMAIN pubs, pubs[id] \in Publication
    PROVE  /\ afterLeaving(h, id) \in Publication
           /\ DOMAIN afterLeaving(h, id).publishers = DOMAIN pubs[id].publishers \ {h}
<1> DEFINE rest == Without(pubs[id].publishers, h)
           next == [rest EXCEPT ![First(rest)] = "START_PUBLISH"]
           t == IF needsSuccessor(h, id) THEN next ELSE rest
<1>1. /\ DOMAIN pubs[id].publishers \subseteq Host
      /\ \A g \in DOMAIN pubs[id].publishers : pubs[id].publishers[g] \in PublisherState
  BY PublicationFields
<1>2. rest \in [DOMAIN pubs[id].publishers \ {h} -> PublisherState]
  BY <1>1 DEF Without
<1>3. /\ DOMAIN pubs[id].publishers \ {h} \in SUBSET Host
      /\ DOMAIN rest = DOMAIN pubs[id].publishers \ {h}
  BY <1>1, <1>2
<1>4. rest \in Table(Host, PublisherState)
  BY <1>2, <1>3, TableMade, Zenon
<1>5. "START_PUBLISH" \in PublisherState
  BY DEF PublisherState
<1> HIDE DEF rest
<1>6. next \in Table(Host, PublisherState) /\ DOMAIN next = DOMAIN rest
  BY <1>4, <1>5, TableSet, Zenon
<1> HIDE DEF next
<1>7. t \in Table(Host, PublisherState) /\ DOMAIN t = DOMAIN rest
  BY <1>4, <1>6
<1>8. afterLeaving(h, id) = [pubs[id] EXCEPT !.publishers = t]
  BY Zenon DEF afterLeaving, rest, next
<1> HIDE DEF t
<1>9. QED BY <1>3, <1>7, <1>8, PublicationPublishers

LEMMA DisconnectKeeps ==
    ASSUME IInv, NEW h \in Host, disconnect(h)
    PROVE  IInv'
<1>1. /\ pubs' = deleteAllActivePublications(h)
      /\ subs' = deleteAllActiveSubscriptions(h)
      /\ hosts' = Without(hosts, h)
      /\ UNCHANGED <<nodes, gc, fault>>
  BY Zenon DEF disconnect
<1>2. TypeInv /\ PubAgree /\ SubAgree
  BY DEF IInv
<1>3. /\ IsTable(pubs, FullID, Publication) /\ IsTable(subs, FullID, Subscription)
      /\ IsTable(hosts, Host, LocalHost)
  BY <1>2 DEF TypeInv
<1>4. /\ getLocalHost(h)[h].pubs = {id \in DOMAIN pubs : h \in DOMAIN pubs[id].publishers}
      /\ getLocalHost(h)[h].subs = {id \in DOMAIN subs : h \in subs[id].subscribers}
  BY RecordIsList
<1>5. /\ DOMAIN pubs' = {id \in DOMAIN pubs : DOMAIN pubs[id].publishers # {h}}
      /\ \A id \in DOMAIN pubs' :
            /\ pubs'[id] \in Publication
            /\ DOMAIN pubs'[id].publishers = DOMAIN pubs[id].publishers \ {h}
  <2>1. lastPublished(h) = {id \in DOMAIN pubs : DOMAIN pubs[id].publishers = {h}}
    BY <1>4 DEF lastPublished
  <2>2. /\ DOMAIN pubs' = DOMAIN pubs \ lastPublished(h)
        /\ \A id \in DOMAIN pubs' : pubs'[id] = IF id \in getLocalHost(h)[h].pubs
                                                THEN afterLeaving(h, id) ELSE pubs[id]
    BY <1>1 DEF deleteAllActivePublications
  <2>3. ASSUME NEW id \in DOMAIN pubs'
        PROVE  /\ pubs'[id] \in Publication
               /\ DOMAIN pubs'[id].publishers = DOMAIN pubs[id].publishers \ {h}
    <3>1. id \in DOMAIN pubs /\ pubs[id] \in Publication
      BY <1>3, <2>2 DEF IsTable
    <3>2. /\ afterLeaving(h, id) \in Publication
          /\ DOMAIN afterLeaving(h, id).publishers = DOMAIN pubs[id].publishers \ {h}
      BY <3>1, AfterLeaving
    <3>3. QED BY <1>4, <2>2, <3>1, <3>2
  <2>4. QED BY <2>1, <2>2, <2>3
<1>6. /\ DOMAIN subs' = {id \in DOMAIN subs : subs[id].subscribers # {h}}
      /\ \A id \in DOMAIN subs' : /\ subs'[id] \in Subscription
                                  /\ subs'[id].subscribers = subs[id].subscribers \ {h}
  <2>1. lastSubscribed(h) = {id \in DOMAIN subs : subs[id].subscribers = {h}}
    BY <1>4 DEF lastSubscribed
  <2>2. /\ DOMAIN subs' = DOMAIN subs \ lastSubscribed(h)
        /\ \A id \in DOMAIN subs' :
              subs'[id] = [subs[id] EXCEPT !.subscribers = subs[id].subscribers \ {h}]
    BY <1>1 DEF deleteAllActiveSubscriptions
  <2>3. ASSUME NEW id \in DOMAIN subs'
        PROVE  /\ subs'[id] \in Subscription
               /\ subs'[id].subscribers = subs[id].subscribers \ {h}
    <3>1. subs[id] \in Subscription
      BY <1>3, <2>2 DEF IsTable
    <3>2. subs[id].subscribers \ {h} \in SUBSET Host
      BY <3>1 DEF Subscription
    <3> DEFINE p == [subs[id] EXCEPT !.subscribers = subs[id].subscribers \ {h}]
    <3>3. p \in Subscription /\ p.subscribers = subs[id].subscribers \ {h}
      BY <3>1, <3>2, SubscriptionSet, Zenon
    <3>4. subs'[id] = p
      BY <2>2, Zenon
    <3> HIDE DEF p
    <3>5. QED BY <3>3, <3>4
  <2>4. QED BY <2>1, <2>2, <2>3
<1>7. DOMAIN hosts' = DOMAIN hosts \ {h} /\ \A g \in DOMAIN hosts' : hosts'[g] = hosts[g]
  BY <1>1 DEF Without
<1>8. TypeInv'
  BY <1>1, <1>2, <1>3, <1>5, <1>6, <1>7 DEF TypeInv, IsTable
<1>9. /\ DOMAIN pubIDs' = DOMAIN pubIDs \ {h} /\ \A g \in DOMAIN pubIDs' : pubIDs'[g] = pubIDs[g]
      /\ DOMAIN subIDs' = DOMAIN subIDs \ {h} /\ \A g \in DOMAIN subIDs' : subIDs'[g] = subIDs[g]
  BY <1>7 DEF pubIDs, subIDs
<1>10. /\ DOMAIN pubHosts' = {i \in DOMAIN pubHosts : pubHosts[i] # {h}}
       /\ \A i \in DOMAIN pubHosts' : pubHosts'[i] = pubHosts[i] \ {h}
  BY <1>5, Zenon DEF pubHosts
<1>11. /\ DOMAIN subHosts' = {i \in DOMAIN subHosts : subHosts[i] # {h}}
       /\ \A i \in DOMAIN subHosts' : subHosts'[i] = subHosts[i] \ {h}
  BY <1>6, Zenon DEF subHosts
<1>12. PubAgree'
  <2>1. Agree(pubHosts, pubIDs)
    BY DEF IInv, PubAgree
  <2>2. Leaves(h, pubHosts, pubHosts', pubIDs, pubIDs')
    BY <1>9, <1>10 DEF Leaves
  <2>3. Agree(pubHosts', pubIDs')
    BY <2>1, <2>2, AgreeLeave
  <2>4. QED BY <2>3 DEF PubAgree
<1>13. SubAgree'
  <2>1. Agree(subHosts, subIDs)
    BY DEF IInv, SubAgree
  <2>2. Leaves(h, subHosts, subHosts', subIDs, subIDs')
    BY <1>9, <1>11 DEF Leaves
  <2>3. Agree(subHosts', subIDs')
    BY <2>1, <2>2, AgreeLeave
  <2>4. QED BY <2>3 DEF SubAgree
<1>14. QED BY <1>8, <1>12, <1>13 DEF IInv
-----------------------------------------------------------------------------
(***************************************************************************)
(* Notifications of the rendezvous point.                                  *)
(***************************************************************************)
\* The publications named by n get another table of the same publishers.
LEMMA RenewedKeeps ==
    ASSUME IInv, NEW n \in Notification, NEW f \in AnyFID, NEW table,
           \A id \in Named(n) : /\ table[id] \in Table(Host, PublisherState)
                                /\ DOMAIN table[id] = DOMAIN pubs[id].publishers,
           pubs' = Renewed(n, f, table), UNCHANGED <<subs, nodes, hosts, gc, fault>>
    PROVE  IInv'
<1>1. TypeInv /\ n.ids \in Seq(FullID)
  BY DEF IInv, Notification
<1>2. IsTable(pubs, FullID, Publication)
  BY <1>1 DEF TypeInv
<1>3. ASSUME NEW id \in DOMAIN pubs
      PROVE  /\ pubs'[id] \in Publication
             /\ DOMAIN pubs'[id].publishers = DOMAIN pubs[id].publishers
  <2>1. pubs[id] \in Publication
    BY <1>2 DEF IsTable
  <2>2. CASE id \in Named(n)
    <3> DEFINE q == pubs[id]
               k == n.ids
               t == table[id]
               p == [q EXCEPT !.known = k, !.fid = f, !.publishers = t]
    <3>1. /\ q \in Publication /\ k \in Seq(FullID) /\ t \in Table(Host, PublisherState)
          /\ DOMAIN t = DOMAIN q.publishers
      BY <1>1, <2>1, <2>2
    <3>2. pubs'[id] = p
      BY <2>2, Zenon DEF Renewed
    <3> HIDE DEF q, k, t
    <3>3. p \in Publication
      BY <3>1, Zenon DEF Publication
    <3>4. p.publishers = t
      BY <3>1 DEF Publication
    <3> HIDE DEF p
    <3>5. QED BY <3>1, <3>2, <3>3, <3>4 DEF q
  <2>3. CASE id \notin Named(n)
    BY <2>1, <2>3, Zenon DEF Renewed
  <2>4. QED BY <2>2, <2>3
<1>4. DOMAIN pubs' = DOMAIN pubs
  BY Zenon DEF Renewed
<1>5. PubsKept
  BY <1>3, <1>4 DEF PubsKept
<1>6. QED BY <1>1, <1>5, QuietStep DEF TypeInv

LEMMA NotificationKeeps ==
    ASSUME IInv, NEW n \in Notification, handleRVNotification(n)
    PROVE  IInv'
<1>1. TypeInv /\ n.fid \in FID /\ n.fid \in AnyFID /\ {} \in AnyFID
  BY DEF IInv, Notification, AnyFID, FID
<1>2. ASSUME NEW id \in Named(n)
      PROVE  /\ id \in DOMAIN pubs /\ pubs[id].publishers \in Table(Host, PublisherState)
             /\ DOMAIN pubs[id].publishers \subseteq Host
             /\ \A h \in DOMAIN pubs[id].publishers : pubs[id].publishers[h] \in PublisherState
  <2>1. id \in DOMAIN pubs /\ pubs[id] \in Publication
    BY <1>1 DEF Named, TypeInv, IsTable
  <2>2. QED BY <2>1, PublicationFields
<1>3. "START_PUBLISH" \in PublisherState /\ "STOP_PUBLISH" \in PublisherState
  BY DEF PublisherState
<1>4. CASE startPublish(n)
  <2> DEFINE table == [id \in Named(n) |-> [pubs[id].publishers EXCEPT
                          ![First(pubs[id].publishers)] = "START_PUBLISH"]]
  <2>1. pubs' = Renewed(n, n.fid, table) /\ UNCHANGED <<subs, nodes, hosts, gc, fault>>
    BY <1>4, Zenon DEF startPublish
  <2>2. ASSUME NEW id \in Named(n)
        PROVE  /\ table[id] \in Table(Host, PublisherState)
               /\ DOMAIN table[id] = DOMAIN pubs[id].publishers
    BY <1>2, <1>3, TableSet
  <2> HIDE DEF table
  <2>3. QED BY <1>1, <2>1, <2>2, RenewedKeeps, Zenon
<1>5. CASE updateFID(n)
  <2> DEFINE table == [id \in Named(n) |-> pubs[id].publishers]
  <2>1. pubs' = Renewed(n, n.fid, table) /\ UNCHANGED <<subs, nodes, hosts, gc, fault>>
    BY <1>5, Zenon DEF updateFID
  <2>2. \A id \in Named(n) : /\ table[id] \in Table(Host, PublisherState)
                             /\ DOMAIN table[id] = DOMAIN pubs[id].publishers
    BY <1>2
  <2> HIDE DEF table
  <2>3. QED BY <1>1, <2>1, <2>2, RenewedKeeps, Zenon
<1>6. CASE stopPublish(n)
  <2> DEFINE stopped(id) == [h \in DOMAIN pubs[id].publishers |->
                               IF h \in NotifiedAt(id) THEN "STOP_PUBLISH"
                               ELSE pubs[id].publishers[h]]
             table == [id \in Named(n) |-> stopped(id)]
  <2>1. pubs' = Renewed(n, {}, table) /\ UNCHANGED <<subs, nodes, hosts, gc, fault>>
    BY <1>6, Zenon DEF stopPublish
  <2>2. ASSUME NEW id \in Named(n)
        PROVE  /\ table[id] \in Table(Host, PublisherState)
               /\ DOMAIN table[id] = DOMAIN pubs[id].publishers
    <3>1. stopped(id) \in [DOMAIN pubs[id].publishers -> PublisherState]
      BY <1>2, <1>3
    <3>2. DOMAIN pubs[id].publishers \in SUBSET Host /\ table[id] = stopped(id)
      BY <1>2
    <3> HIDE DEF stopped, table
    <3>3. QED BY <3>1, <3>2, TableMade, Zenon
  <2> HIDE DEF table
  <2>3. QED BY <1>1, <2>1, <2>2, RenewedKeeps, Zenon
<1>7. CASE scopeNotification(n)
  <2>1. UNCHANGED <<pubs, subs, nodes, hosts, gc, fault>>
    BY <1>7, Zenon DEF scopeNotification
  <2>2. PubsKept
    BY <1>1, <2>1 DEF PubsKept, TypeInv, IsTable
  <2>3. QED BY <1>1, <2>1, <2>2, QuietStep DEF TypeInv
<1>8. CASE updateConf(n)
  <2>1. UNCHANGED <<pubs, subs, nodes, hosts, fault>>
    BY <1>8, Zenon DEF updateConf
  <2>2. gc' \in Conf
    <3>1. gc \in Conf
      BY <1>1 DEF TypeInv
    <3>2. [gc EXCEPT !.rv = n.fid] \in Conf /\ [gc EXCEPT !.tm = n.fid] \in Conf
      BY <1>1, <3>1 DEF Conf
    <3>3. QED BY <1>8, <3>2 DEF updateConf
  <2>3. PubsKept
    BY <1>1, <2>1 DEF PubsKept, TypeInv, IsTable
  <2>4. QED BY <1>1, <2>1, <2>2, <2>3, QuietStep DEF TypeInv
<1>9. QED BY <1>4, <1>5, <1>6, <1>7, <1>8 DEF handleRVNotification
-----------------------------------------------------------------------------
(***************************************************************************)
(* Data and implicit subscriptions.                                        *)
(***************************************************************************)
\* Nothing but the records of the applications changes.
LEMMA DataKeeps ==
    ASSUME IInv, UNCHANGED <<pubs, subs, nodes, gc, fault>>,
           hosts' = hosts \/ \E h \in Host : hosts' = getLocalHost(h)
    PROVE  IInv'
<1>1. TypeInv
  BY DEF IInv
<1>2. PubsKept
  BY <1>1 DEF PubsKept, TypeInv, IsTable
<1>3. QED BY <1>1, <1>2, QuietStep DEF TypeInv

LEMMA SubscribersType ==
    ASSUME TypeInv, NEW ids PROVE findLocalSubscribers(ids) \subseteq Host
<1>1. \A id \in DOMAIN subs : subs[id].subscribers \subseteq Host
  BY DEF TypeInv, IsTable, Subscription
<1>2. QED BY <1>1 DEF findLocalSubscribers, SubscribersAt

LEMMA NodeFIDsKeep ==
    ASSUME IInv, NEW f \in NodeNotice, updateNodeFIDs(f)
    PROVE  IInv'
<1> DEFINE named == DOMAIN f \cap DOMAIN nodes
           heard == {n \in named : DOMAIN nodes[n].publishers # {}}
           state(n) == IF zero(f[n]) THEN "STOP_PUBLISH_iSUB" ELSE "START_PUBLISH_iSUB"
           table(n) == IF n \in heard
                       THEN [nodes[n].publishers EXCEPT ![First(nodes[n].publishers)] = state(n)]
                       ELSE nodes[n].publishers
<1>1. TypeInv /\ IsTable(nodes, NodeID, ActiveNode)
  BY DEF IInv, TypeInv
<1>2. /\ nodes' = [n \in DOMAIN nodes |-> IF n \notin named THEN nodes[n]
                                          ELSE [fid |-> f[n], publishers |-> table(n)]]
      /\ UNCHANGED <<pubs, subs, hosts, gc>> /\ fault' \in BOOLEAN
  BY DEF updateNodeFIDs
<1>3. ASSUME NEW n \in DOMAIN nodes PROVE nodes'[n] \in ActiveNode
  <2>1. nodes[n] \in ActiveNode /\ nodes[n].publishers \in Table(Host, NodeState)
    BY <1>1 DEF IsTable, ActiveNode
  <2>2. state(n) \in NodeState
    BY DEF NodeState
  <2>3. table(n) \in Table(Host, NodeState)
    <3> HIDE DEF state, heard
    <3>1. QED BY <2>1, <2>2, TableSet, Zenon
  <2>4. n \in named => f[n] \in AnyFID
    BY DEF NodeNotice, AnyFID
  <2> HIDE DEF table, named
  <2>5. QED BY <1>2, <2>1, <2>3, <2>4 DEF ActiveNode
<1> HIDE DEF named, table
<1>4. IsTable(nodes', NodeID, ActiveNode)
  BY <1>1, <1>2, <1>3 DEF IsTable
<1>5. PubsKept
  BY <1>1, <1>2 DEF PubsKept, TypeInv, IsTable
<1>6. QED BY <1>1, <1>2, <1>4, <1>5, QuietStep DEF TypeInv

LEMMA ImplicitSubscriptionKeeps ==
    ASSUME IInv, NEW n \in NodeID, NEW ids, implicitSubscription(n, ids)
    PROVE  IInv'
<1>1. TypeInv /\ IsTable(nodes, NodeID, ActiveNode)
  BY DEF IInv, TypeInv
<1>2. NewNode(ids) \in ActiveNode
  <2> DEFINE t == [h \in findLocalSubscribers(Range(ids)) |-> "STOP_PUBLISH_iSUB"]
  <2>1. t \in [findLocalSubscribers(Range(ids)) -> NodeState]
    BY DEF NodeState
  <2>2. findLocalSubscribers(Range(ids)) \in SUBSET Host
    BY <1>1, SubscribersType
  <2>3. t \in Table(Host, NodeState)
    BY <2>1, <2>2, TableMade, Zenon
  <2>4. {} \in AnyFID
    BY DEF AnyFID, FID
  <2> HIDE DEF t
  <2>5. QED BY <2>3, <2>4 DEF NewNode, ActiveNode, t
<1>3. /\ nodes' = nodes \/ nodes' = Put(nodes, n, NewNode(ids))
      /\ UNCHANGED <<pubs, subs, hosts, gc, fault>>
  BY Zenon DEF implicitSubscription
<1>4. IsTable(nodes', NodeID, ActiveNode)
  BY <1>1, <1>2, <1>3 DEF IsTable, Put
<1>5. PubsKept
  BY <1>1, <1>3 DEF PubsKept, TypeInv, IsTable
<1>6. QED BY <1>1, <1>3, <1>4, <1>5, QuietStep DEF TypeInv

LEMMA PublishISubKeeps ==
    ASSUME IInv, NEW h \in Host, NEW id, NEW sid \in FullID, publishISub(h, id, sid)
    PROVE  IInv'
<1>1. PICK read \in FullID :
         /\ subs' = storedSubscription(h, read, "DOMAIN_LOCAL", FALSE, gc.rv)
         /\ hosts' = recordedSubscription(h, read, "DOMAIN_LOCAL")
         /\ UNCHANGED <<pubs, nodes, gc, fault>>
  <2>1. Inputs.isubs \subseteq FullID
    BY InputAssumption DEF Input
  <2>2. QED BY <2>1, Zenon DEF publishISub
<1>2. "DOMAIN_LOCAL" \in Strategy /\ FALSE \in BOOLEAN
  BY DEF Strategy, Reaching
<1>3. gc.rv \in AnyFID
  BY DEF IInv, TypeInv, Conf
<1>4. QED BY <1>1, <1>2, <1>3, StoreSubscriptionKeeps, Zenon

LEMMA PublishMulticastKeeps ==
    ASSUME IInv, NEW h \in Host, NEW id \in FullID, NEW N, publishMulticast(h, id, N)
    PROVE  IInv'
<1> DEFINE at == IF id \in DOMAIN pubs THEN id ELSE Father(id)
           p == [pubs[at] EXCEPT !.known = <<id>>]
<1>1. TypeInv
  BY DEF IInv
<1>2. /\ hosts' = getLocalHost(h) /\ UNCHANGED <<subs, nodes, gc>>
      /\ \/ at \in DOMAIN pubs /\ pubs' = [pubs EXCEPT ![at] = p] /\ UNCHANGED fault
         \/ fault' = TRUE /\ UNCHANGED pubs
  BY Zenon DEF publishMulticast
<1>3. at \in DOMAIN pubs => p \in Publication /\ p.publishers = pubs[at].publishers
  <2>1. at \in DOMAIN pubs => pubs[at] \in Publication
    BY <1>1 DEF TypeInv, IsTable
  <2>2. <<id>> \in Seq(FullID)
    OBVIOUS
  <2> HIDE DEF at
  <2>3. QED BY <2>1, <2>2, PublicationKnown, Zenon
<1> HIDE DEF at, p
<1>4. PubsKept
  BY <1>1, <1>2, <1>3 DEF PubsKept, TypeInv, IsTable
<1>5. QED BY <1>1, <1>2, <1>4, QuietStep, Zenon DEF TypeInv

-----------------------------------------------------------------------------
(***************************************************************************)
(* Link failures, and losing and regaining the network.                    *)
(***************************************************************************)
\* The publishers of a publication get the states that the table gives them.
LEMMA StatesTable ==
    ASSUME NEW p \in Publication, NEW t, t \in [DOMAIN p.publishers -> PublisherState]
    PROVE  t \in Table(Host, PublisherState) /\ DOMAIN t = DOMAIN p.publishers
<1>1. DOMAIN p.publishers \in SUBSET Host
  BY PublicationFields
<1>2. QED BY <1>1, TableMade, Zenon

LEMMA InvalidatedType ==
    ASSUME NEW p \in Publication
    PROVE  /\ invalidated(p) \in Publication
           /\ DOMAIN invalidated(p).publishers = DOMAIN p.publishers
<1> DEFINE t == [h \in DOMAIN p.publishers |-> IF p.publishers[h] = "START_PUBLISH"
                                               THEN "RE_PUBLISH" ELSE p.publishers[h]]
           q == [p EXCEPT !.fid = NoFID, !.publishers = t]
<1>1. t \in [DOMAIN p.publishers -> PublisherState]
  BY PublicationFields DEF PublisherState
<1>2. NoFID \in AnyFID
  BY DEF AnyFID
<1>3. invalidated(p) = q
  BY DEF invalidated
<1> HIDE DEF t
<1>4. t \in Table(Host, PublisherState) /\ DOMAIN t = DOMAIN p.publishers
  BY <1>1, StatesTable
<1>5. q \in Publication /\ q.publishers = t
  BY <1>2, <1>4, PublicationFID, Zenon
<1> HIDE DEF q
<1>6. QED BY <1>3, <1>4, <1>5

LEMMA PausedType ==
    ASSUME NEW p \in Publication
    PROVE  paused(p) \in Publication /\ DOMAIN paused(p).publishers = DOMAIN p.publishers
<1> DEFINE t == [h \in DOMAIN p.publishers |-> IF p.publishers[h] # "STOP_PUBLISH"
                                               THEN "PAUSE_PUBLISH" ELSE "STOP_PUBLISH"]
           q == [p EXCEPT !.fid = NoFID, !.publishers = t]
<1>1. t \in [DOMAIN p.publishers -> PublisherState]
  BY DEF PublisherState
<1>2. NoFID \in AnyFID
  BY DEF AnyFID
<1>3. paused(p) = q
  BY DEF paused
<1> HIDE DEF t
<1>4. t \in Table(Host, PublisherState) /\ DOMAIN t = DOMAIN p.publishers
  BY <1>1, StatesTable
<1>5. q \in Publication /\ q.publishers = t
  BY <1>2, <1>4, PublicationFID, Zenon
<1> HIDE DEF q
<1>6. QED BY <1>3, <1>4, <1>5

LEMMA ResumedType ==
    ASSUME NEW id, pubs[id] \in Publication
    PROVE  /\ resumed(id) \in Publication
           /\ DOMAIN resumed(id).publishers = DOMAIN pubs[id].publishers
<1> DEFINE t == [h \in DOMAIN pubs[id].publishers |->
                   IF h \in PausedAt(id) THEN "RESUME_PUBLISH" ELSE pubs[id].publishers[h]]
           q == [pubs[id] EXCEPT !.publishers = t]
<1>1. t \in [DOMAIN pubs[id].publishers -> PublisherState]
  BY PublicationFields DEF PublisherState
<1>2. resumed(id) = q
  BY DEF resumed
<1> HIDE DEF t
<1>3. t \in Table(Host, PublisherState) /\ DOMAIN t = DOMAIN pubs[id].publishers
  BY <1>1, StatesTable
<1>4. q \in Publication /\ q.publishers = t
  BY <1>3, PublicationPublishers, Zenon
<1> HIDE DEF q
<1>5. QED BY <1>2, <1>3, <1>4

LEMMA TMNotificationKeeps ==
    ASSUME IInv, NEW lid, processTMNotification(lid),
           hosts' = hosts \/ \E h \in Host : hosts' = getLocalHost(h)
    PROVE  IInv'
<1>1. TypeInv /\ IsTable(pubs, FullID, Publication)
  BY DEF IInv, TypeInv
<1>2. UNCHANGED <<subs, nodes, gc>> /\ fault' \in BOOLEAN
  BY DEF processTMNotification
<1>3. PubsKept
  BY <1>1, InvalidatedType DEF PubsKept, IsTable, processTMNotification
<1>4. QED BY <1>1, <1>2, <1>3, QuietStep DEF TypeInv

LEMMA MappRequestKeeps ==
    ASSUME IInv, NEW h \in Host, NEW q, handleMappRequest(h, q)
    PROVE  IInv'
<1>1. TypeInv /\ IsTable(pubs, FullID, Publication) /\ IsTable(nodes, NodeID, ActiveNode)
  BY DEF IInv, TypeInv
<1>2. hosts' = getLocalHost(h) /\ UNCHANGED <<subs, fault>>
  BY DEF handleMappRequest
<1>3. gc \in Conf /\ NoFID \in AnyFID
  BY <1>1 DEF TypeInv, AnyFID
<1>4. CASE UNCHANGED <<pubs, nodes, gc>>
  BY <1>2, <1>4, DataKeeps
<1>5. CASE q = "DISCONNECTED" /\ updateStates(q)
  <2>1. /\ pubs' = [id \in DOMAIN pubs |->
                      IF pubs[id].isScope THEN pubs[id] ELSE paused(pubs[id])]
        /\ nodes' = [n \in DOMAIN nodes |-> [nodes[n] EXCEPT !.fid = NoFID]]
        /\ gc' = [gc EXCEPT !.rv = NoFID, !.status = "DISCONNECTED"]
    BY <1>5 DEF updateStates
  <2>2. PubsKept
    BY <1>1, <2>1, PausedType DEF PubsKept, IsTable
  <2>3. ASSUME NEW n \in ActiveNode PROVE [n EXCEPT !.fid = NoFID] \in ActiveNode
    BY <1>3, Zenon DEF ActiveNode
  <2>4. IsTable(nodes', NodeID, ActiveNode)
    BY <1>1, <2>1, <2>3, Zenon DEF IsTable
  <2>5. gc' \in Conf
    BY <1>3, <2>1, Zenon DEF Conf
  <2>6. QED BY <1>1, <1>2, <2>2, <2>4, <2>5, QuietStep DEF TypeInv
<1>6. CASE q = "RECONNECTED" /\ updateStates(q)
  <2>1. /\ pubs' = [id \in DOMAIN pubs |-> resumed(id)] /\ UNCHANGED nodes
        /\ gc' = [gc EXCEPT !.status = "RECONNECTED"]
    BY <1>6 DEF updateStates
  <2>2. PubsKept
    BY <1>1, <2>1, ResumedType DEF PubsKept, IsTable
  <2>3. gc' \in Conf
    BY <1>3, <2>1, Zenon DEF Conf
  <2>4. QED BY <1>1, <1>2, <2>1, <2>2, <2>3, QuietStep DEF TypeInv
<1>7. QED BY <1>4, <1>5, <1>6, Zenon DEF handleMappRequest, updateStates
-----------------------------------------------------------------------------
(***************************************************************************)
(* The invariant and what follows from it.                                 *)
(***************************************************************************)
LEMMA InputTypes ==
    /\ Inputs.hosts \subseteq Host /\ Inputs.nodes \subseteq NodeID
    /\ Inputs.requests \subseteq Request /\ Inputs.notifications \subseteq Notification
    /\ Inputs.nodeNotices \subseteq NodeNotice /\ Inputs.published \subseteq FullID
    /\ Inputs.isubs \subseteq FullID
BY InputAssumption DEF Input

LEMMA InitIInv == Init => IInv
<1> SUFFICES ASSUME Init PROVE IInv
  OBVIOUS
<1>1. /\ DOMAIN pubs = {} /\ DOMAIN subs = {} /\ DOMAIN nodes = {} /\ DOMAIN hosts = {}
      /\ fault \in BOOLEAN
  BY Zenon DEF Init
<1>2. gc \in Conf
  BY FIDAssumption DEF Init, Conf, AnyFID
<1>3. TypeInv
  BY <1>1, <1>2 DEF TypeInv, IsTable
<1>4. PubAgree /\ SubAgree
  BY <1>1 DEF PubAgree, SubAgree, Agree, pubHosts, subHosts, pubIDs, subIDs
<1>5. QED BY <1>3, <1>4 DEF IInv

LEMMA NextIInv == IInv /\ [Next]_vars => IInv'
<1> SUFFICES ASSUME IInv, [Next]_vars PROVE IInv'
  OBVIOUS
<1>1. CASE UNCHANGED vars
  BY <1>1, DataKeeps DEF vars
<1>2. ASSUME NEW r \in Inputs.requests, handleLocalRequest(r) PROVE IInv'
  BY <1>2, InputTypes, RequestKeeps
<1>3. ASSUME NEW h \in Inputs.hosts, disconnect(h) PROVE IInv'
  BY <1>3, InputTypes, DisconnectKeeps
<1>4. ASSUME NEW n \in Inputs.notifications, handleRVNotification(n) PROVE IInv'
  BY <1>4, InputTypes, NotificationKeeps
<1>5. ASSUME NEW f \in Inputs.nodeNotices, updateNodeFIDs(f) PROVE IInv'
  BY <1>5, InputTypes, NodeFIDsKeep
<1>6. ASSUME NEW h \in Inputs.hosts, NEW id \in Inputs.published, publishData(h, id)
      PROVE  IInv'
  BY <1>6, InputTypes, DataKeeps DEF publishData
<1>7. ASSUME NEW h \in Inputs.hosts, NEW id, NEW fid, publishImplicit(h, id, fid)
      PROVE  IInv'
  BY <1>7, InputTypes, DataKeeps DEF publishImplicit
<1>8. ASSUME NEW ids, publicationFromNetwork(ids) PROVE IInv'
  BY <1>8, DataKeeps DEF publicationFromNetwork
<1>9. ASSUME NEW n \in Inputs.nodes, NEW ids, implicitSubscription(n, ids) PROVE IInv'
  BY <1>9, InputTypes, ImplicitSubscriptionKeeps
<1>10. ASSUME NEW h \in Inputs.hosts, NEW id, NEW sid \in Inputs.isubs, publishISub(h, id, sid)
       PROVE  IInv'
  BY <1>10, InputTypes, PublishISubKeeps
<1>11. ASSUME NEW h \in Inputs.hosts, NEW id \in Inputs.published, NEW N,
              publishMulticast(h, id, N)
       PROVE  IInv'
  BY <1>11, InputTypes, PublishMulticastKeeps
<1>12. ASSUME NEW lid, linkFailed(lid) PROVE IInv'
  BY <1>12, TMNotificationKeeps DEF linkFailed
<1>13. ASSUME NEW h \in Inputs.hosts, NEW lid, NEW fid, tmPublication(h, fid, lid) PROVE IInv'
  <2>1. \E read : processTMNotification(read) /\ hosts' = getLocalHost(h)
    BY <1>13, Zenon DEF tmPublication
  <2>2. QED BY <2>1, InputTypes, TMNotificationKeeps
<1>14. ASSUME NEW h \in Inputs.hosts, NEW q, handleMappRequest(h, q) PROVE IInv'
  BY <1>14, InputTypes, MappRequestKeeps
<1>15. CASE Next
  BY <1>2, <1>3, <1>4, <1>5, <1>6, <1>7, <1>8, <1>9, <1>10, <1>11, <1>12, <1>13, <1>14,
     <1>15, Zenon DEF Next, Step
<1>16. QED BY <1>1, <1>15

LEMMA IInvAlways == Spec => []IInv
BY InitIInv, NextIInv, PTL DEF Spec

LEMMA IInvAgree == IInv => TablesAgree
<1> SUFFICES ASSUME IInv PROVE TypeOK /\ RecordsAgree
  BY DEF TablesAgree
<1>1. TypeInv /\ PubAgree /\ SubAgree
  BY DEF IInv
<1>2. ASSUME NEW id \in DOMAIN pubs PROVE PublicationType(pubs[id])
  BY <1>1, PublicationFields DEF TypeInv, IsTable, PublicationType
<1>3. ASSUME NEW id \in DOMAIN subs PROVE SubscriptionType(subs[id])
  BY <1>1 DEF TypeInv, IsTable, Subscription, SubscriptionType
<1>4. ASSUME NEW n \in DOMAIN nodes PROVE NodeType(nodes[n])
  <2>1. nodes[n].fid \in AnyFID /\ nodes[n].publishers \in Table(Host, NodeState)
    BY <1>1 DEF TypeInv, IsTable, ActiveNode
  <2>2. QED BY <2>1, TableElement DEF NodeType
<1>5. TypeOK
  <2>1. /\ DOMAIN pubs \subseteq FullID /\ DOMAIN subs \subseteq FullID
        /\ DOMAIN nodes \subseteq NodeID /\ DOMAIN hosts \subseteq Host /\ fault \in BOOLEAN
    BY <1>1 DEF TypeInv, IsTable
  <2>2. gc.rv \in AnyFID /\ gc.tm \in FID
    BY <1>1 DEF TypeInv, Conf
  <2>3. \A h \in DOMAIN hosts : hosts[h].pubs \subseteq FullID /\ hosts[h].subs \subseteq FullID
    BY <1>1 DEF TypeInv, IsTable, LocalHost
  <2>4. QED BY <1>2, <1>3, <1>4, <2>1, <2>2, <2>3 DEF TypeOK
<1>6. PublishersAgree
  BY <1>1, Zenon DEF PubAgree, Agree, pubHosts, pubIDs, PublishersAgree
<1>7. SubscribersAgree
  BY <1>1, Zenon DEF SubAgree, Agree, subHosts, subIDs, SubscribersAgree
<1>8. QED BY <1>5, <1>6, <1>7 DEF RecordsAgree

\* After any sequence of requests, disconnections, notifications, link
\* failures and implicit subscriptions, the record of every application lists
\* exactly the publications and subscriptions that list the application
\* (storeActivePublication, removeActivePublication and their like keep both
\* up to date), so that disconnect() finds all that it has to undo.
THEOREM TablesAlwaysAgree == Spec => []TablesAgree
BY IInvAlways, IInvAgree, PTL
-----------------------------------------------------------------------------
(***************************************************************************)
(* What a step does to the state of a publisher.                           *)
(***************************************************************************)
LEMMA FirstIsOne ==
    ASSUME NEW t, DOMAIN t \subseteq Host, DOMAIN t # {}
    PROVE  First(t) \in DOMAIN t
BY HostAssumption DEF First

\* The publishers that stay keep their states and new ones are stopped.
StatesKept ==
    \A id \in DOMAIN pubs \cap DOMAIN pubs' :
      /\ pubs'[id].fid = pubs[id].fid
      /\ \A h \in DOMAIN pubs'[id].publishers :
            pubs'[id].publishers[h] = IF h \in DOMAIN pubs[id].publishers
                                      THEN pubs[id].publishers[h] ELSE "STOP_PUBLISH"

LEMMA KeptNoticed ==
    ASSUME StatesKept PROVE NoSilentChange /\ PathLossNoticed
<1>1. NoSilentChange
  BY DEF StatesKept, NoSilentChange
<1>2. \A id \in DOMAIN pubs \cap DOMAIN pubs' : StartedOnPath(id) => StartedOnPath(id)'
  BY DEF StatesKept, StartedOnPath, NotifiedAt
<1>3. QED BY <1>1, <1>2 DEF PathLossNoticed

LEMMA UnchangedKept == ASSUME IInv, UNCHANGED pubs PROVE StatesKept
BY DEF StatesKept

LEMMA RequestKept ==
    ASSUME IInv, NEW r \in Request, handleLocalRequest(r)
    PROVE  StatesKept
<1> DEFINE id == FullIDOf(r)
           h == r.host
<1>1. IsTable(pubs, FullID, Publication)
  BY DEF IInv, TypeInv
<1>2. CASE UNCHANGED pubs
  BY <1>2, UnchangedKept
<1>3. ASSUME NEW p, id \notin DOMAIN pubs, pubs' = Put(pubs, id, p) PROVE StatesKept
  BY <1>3 DEF StatesKept, Put
<1>4. CASE pubs' = Without(pubs, id)
  BY <1>4 DEF StatesKept, Without
<1>5. ASSUME NEW t, id \in DOMAIN pubs, pubs' = [pubs EXCEPT ![id].publishers = t],
             \A g \in DOMAIN t : t[g] = IF g \in DOMAIN pubs[id].publishers
                                        THEN pubs[id].publishers[g] ELSE "STOP_PUBLISH"
      PROVE  StatesKept
  <2> DEFINE p == [pubs[id] EXCEPT !.publishers = t]
  <2>1. pubs[id] \in Publication
    BY <1>1, <1>5 DEF IsTable
  <2>2. p.publishers = t /\ p.fid = pubs[id].fid
    BY <2>1 DEF Publication
  <2>3. pubs' = [pubs EXCEPT ![id] = p]
    BY <1>5
  <2> HIDE DEF p, id
  <2>4. /\ DOMAIN pubs' = DOMAIN pubs /\ pubs'[id] = p
        /\ \A i \in DOMAIN pubs : i # id => pubs'[i] = pubs[i]
    BY <1>5, <2>3
  <2>5. QED BY <1>5, <2>2, <2>4 DEF StatesKept
<1>6. CASE r.type \in PublishTypes /\ \E rvfid : storeActivePublication(r, id, rvfid)
  <2> DEFINE t == Put(pubs[id].publishers, h, "STOP_PUBLISH")
  <2>1. \/ UNCHANGED pubs
        \/ id \notin DOMAIN pubs /\ \E p : pubs' = Put(pubs, id, p)
        \/ /\ id \in DOMAIN pubs /\ h \notin DOMAIN pubs[id].publishers
           /\ pubs' = [pubs EXCEPT ![id].publishers = t]
    BY <1>6, Zenon DEF storeActivePublication, publishedAs
  <2>2. h \notin DOMAIN pubs[id].publishers =>
           \A g \in DOMAIN t : t[g] = IF g \in DOMAIN pubs[id].publishers
                                      THEN pubs[id].publishers[g] ELSE "STOP_PUBLISH"
    BY DEF Put
  <2> HIDE DEF t, id, h
  <2>3. QED BY <1>2, <1>3, <1>5, <2>1, <2>2
<1>7. CASE r.type \in UnpublishTypes /\ \E rvfid : removeActivePublication(r, id, rvfid)
  <2> DEFINE t == Without(pubs[id].publishers, h)
  <2>1. \/ UNCHANGED pubs
        \/ pubs' = Without(pubs, id)
        \/ id \in DOMAIN pubs /\ pubs' = [pubs EXCEPT ![id].publishers = t]
    BY <1>7, Zenon DEF removeActivePublication, publishedAs
  <2>2. \A g \in DOMAIN t : t[g] = IF g \in DOMAIN pubs[id].publishers
                                   THEN pubs[id].publishers[g] ELSE "STOP_PUBLISH"
    BY DEF Without
  <2> HIDE DEF t, id, h
  <2>3. QED BY <1>2, <1>4, <1>5, <2>1, <2>2
<1>8. QED BY <1>2, <1>6, <1>7, Zenon DEF handleLocalRequest

LEMMA MulticastKept ==
    ASSUME IInv, NEW h, NEW id, NEW N, publishMulticast(h, id, N)
    PROVE  StatesKept
<1> DEFINE at == IF id \in DOMAIN pubs THEN id ELSE Father(id)
           p == [pubs[at] EXCEPT !.known = <<id>>]
<1>1. CASE UNCHANGED pubs
  BY <1>1, UnchangedKept
<1>2. CASE at \in DOMAIN pubs /\ pubs' = [pubs EXCEPT ![at] = p]
  <2>1. pubs[at] \in Publication
    BY <1>2 DEF IInv, TypeInv, IsTable
  <2>2. p.publishers = pubs[at].publishers /\ p.fid = pubs[at].fid
    BY <2>1 DEF Publication
  <2> HIDE DEF p, at
  <2>3. /\ DOMAIN pubs' = DOMAIN pubs /\ pubs'[at] = p
        /\ \A i \in DOMAIN pubs : i # at => pubs'[i] = pubs[i]
    BY <1>2
  <2>4. QED BY <2>2, <2>3 DEF StatesKept
<1>3. QED BY <1>1, <1>2, Zenon DEF publishMulticast

LEMMA RenewedIs ==
    ASSUME IInv, NEW n, NEW f, NEW table, pubs' = Renewed(n, f, table)
    PROVE  /\ DOMAIN pubs' = DOMAIN pubs
           /\ \A id \in DOMAIN pubs : id \notin Named(n) => pubs'[id] = pubs[id]
           /\ \A id \in Named(n) : pubs'[id].fid = f /\ pubs'[id].publishers = table[id]
<1>1. /\ DOMAIN pubs' = DOMAIN pubs
      /\ \A id \in DOMAIN pubs : id \notin Named(n) => pubs'[id] = pubs[id]
  BY Zenon DEF Renewed
<1>2. ASSUME NEW id \in Named(n)
      PROVE  pubs'[id].fid = f /\ pubs'[id].publishers = table[id]
  <2> DEFINE q == pubs[id]
             k == n.ids
             t == table[id]
  <2>1. q \in Publication
    BY DEF IInv, TypeInv, IsTable, Named
  <2>2. pubs'[id] = [q EXCEPT !.known = k, !.fid = f, !.publishers = t]
    BY Zenon DEF Renewed, Named
  <2> HIDE DEF q, k, t
  <2>3. pubs'[id].fid = f /\ pubs'[id].publishers = t
    BY <2>1, <2>2 DEF Publication
  <2>4. QED BY <2>3 DEF t
<1>3. QED BY <1>1, <1>2

\* A FID from the network that has a bit set.
LEMMA NonzeroFID == ASSUME NEW f \in FID, f # {} PROVE ~ zero(f)
BY FIDAssumption DEF zero

LEMMA ToAppFields ==
    ASSUME NEW h, NEW type, NEW id
    PROVE  ToApp(h, type, id).host = h /\ ToApp(h, type, id).type = type
           /\ ToApp(h, type, id).id = id
BY DEF ToApp

LEMMA AppsOf ==
    ASSUME NEW apps, SendOnly([Nothing EXCEPT !.apps = apps])
    PROVE  out'.apps = apps
BY DEF SendOnly, Nothing

LEMMA StartNoticed ==
    ASSUME IInv, NEW n \in Notification, startPublish(n)
    PROVE  NoSilentChange /\ (n.fid # {} => PathLossNoticed)
<1> DEFINE first(id) == First(pubs[id].publishers)
           table == [id \in Named(n) |-> [pubs[id].publishers EXCEPT
                                            ![First(pubs[id].publishers)] = "START_PUBLISH"]]
           apps == {ToApp(First(pubs[id].publishers), "START_PUBLISH", id) : id \in Named(n)}
<1>1. pubs' = Renewed(n, n.fid, table) /\ SendOnly([Nothing EXCEPT !.apps = apps])
  BY Zenon DEF startPublish
<1>2. \A id \in Named(n) : /\ DOMAIN table[id] = DOMAIN pubs[id].publishers
                           /\ \A h \in DOMAIN table[id] :
                                 \/ table[id][h] = pubs[id].publishers[h]
                                 \/ h = first(id) /\ table[id][h] = "START_PUBLISH"
  OBVIOUS
<1>3. \A id \in Named(n) : ToApp(first(id), "START_PUBLISH", id) \in apps
  OBVIOUS
<1> HIDE DEF table, apps, first
<1>4. out'.apps = apps
  BY <1>1, AppsOf, Zenon
<1>5. /\ DOMAIN pubs' = DOMAIN pubs
      /\ \A id \in DOMAIN pubs : id \notin Named(n) => pubs'[id] = pubs[id]
      /\ \A id \in Named(n) : pubs'[id].fid = n.fid /\ pubs'[id].publishers = table[id]
  BY <1>1, RenewedIs
<1>6. NoSilentChange
  BY <1>2, <1>3, <1>4, <1>5, ToAppFields DEF NoSilentChange
<1>7. ASSUME n.fid # {}, NEW id \in DOMAIN pubs, StartedOnPath(id) PROVE StartedOnPath(id)'
  <2>1. ~ zero(n.fid)
    BY <1>7, NonzeroFID DEF Notification
  <2>2. QED BY <1>5, <1>7, <2>1 DEF StartedOnPath, NotifiedAt
<1>8. QED BY <1>6, <1>7 DEF PathLossNoticed

LEMMA UpdateNoticed ==
    ASSUME IInv, NEW n \in Notification, updateFID(n)
    PROVE  NoSilentChange /\ (n.fid # {} => PathLossNoticed)
<1> DEFINE table == [id \in Named(n) |-> pubs[id].publishers]
<1>1. pubs' = Renewed(n, n.fid, table)
  BY Zenon DEF updateFID
<1>2. \A id \in Named(n) : table[id] = pubs[id].publishers
  OBVIOUS
<1> HIDE DEF table
<1>3. /\ DOMAIN pubs' = DOMAIN pubs
      /\ \A id \in DOMAIN pubs : id \notin Named(n) => pubs'[id] = pubs[id]
      /\ \A id \in Named(n) : pubs'[id].fid = n.fid /\ pubs'[id].publishers = table[id]
  BY <1>1, RenewedIs
<1>4. NoSilentChange
  BY <1>2, <1>3 DEF NoSilentChange
<1>5. ASSUME n.fid # {}, NEW id \in DOMAIN pubs, StartedOnPath(id) PROVE StartedOnPath(id)'
  <2>1. ~ zero(n.fid)
    BY <1>5, NonzeroFID DEF Notification
  <2>2. QED BY <1>3, <1>5, <2>1 DEF StartedOnPath, NotifiedAt
<1>6. QED BY <1>4, <1>5 DEF PathLossNoticed

LEMMA StopNoticed ==
    ASSUME IInv, NEW n \in Notification, stopPublish(n)
    PROVE  NoSilentChange /\ PathLossNoticed
<1> DEFINE table == [id \in Named(n) |-> [h \in DOMAIN pubs[id].publishers |->
                        IF h \in NotifiedAt(id) THEN "STOP_PUBLISH"
                        ELSE pubs[id].publishers[h]]]
           apps == UNION {{ToApp(h, "STOP_PUBLISH", id) : h \in NotifiedAt(id)} :
                             id \in Named(n)}
<1>1. pubs' = Renewed(n, {}, table) /\ SendOnly([Nothing EXCEPT !.apps = apps])
  BY Zenon DEF stopPublish
<1>2. \A id \in Named(n) : /\ DOMAIN table[id] = DOMAIN pubs[id].publishers
                           /\ \A h \in DOMAIN table[id] :
                                 IF h \in NotifiedAt(id) THEN table[id][h] = "STOP_PUBLISH"
                                 ELSE table[id][h] = pubs[id].publishers[h]
  OBVIOUS
<1>3. \A id \in Named(n) : \A h \in NotifiedAt(id) : ToApp(h, "STOP_PUBLISH", id) \in apps
  OBVIOUS
<1> HIDE DEF table, apps
<1>4. out'.apps = apps
  BY <1>1, AppsOf, Zenon
<1>5. /\ DOMAIN pubs' = DOMAIN pubs
      /\ \A id \in DOMAIN pubs : id \notin Named(n) => pubs'[id] = pubs[id]
      /\ \A id \in Named(n) : pubs'[id].fid = {} /\ pubs'[id].publishers = table[id]
  BY <1>1, RenewedIs
<1>6. NoSilentChange
  BY <1>2, <1>3, <1>4, <1>5, ToAppFields DEF NoSilentChange
<1>7. ASSUME NEW id \in DOMAIN pubs, StartedOnPath(id) PROVE StartedOnPath(id)'
  <2>1. CASE id \in Named(n)
    BY <1>2, <1>5, <2>1 DEF StartedOnPath, NotifiedAt
  <2>2. CASE id \notin Named(n)
    BY <1>5, <1>7, <2>2 DEF StartedOnPath, NotifiedAt
  <2>3. QED BY <2>1, <2>2
<1>8. QED BY <1>6, <1>7 DEF PathLossNoticed
\* What is left of a publication when application h disconnects.
LEMMA LeavingIs ==
    ASSUME IInv, NEW h \in Host, disconnect(h), NEW id \in DOMAIN pubs, id \in DOMAIN pubs'
    PROVE  LET rest == Without(pubs[id].publishers, h)
               next == [rest EXCEPT ![First(rest)] = "START_PUBLISH"]
           IN  /\ DOMAIN pubs[id].publishers # {h}
               /\ h \notin DOMAIN pubs[id].publishers => pubs'[id] = pubs[id]
               /\ h \in DOMAIN pubs[id].publishers =>
                     pubs'[id].publishers = IF needsSuccessor(h, id) THEN next ELSE rest
               /\ h \in DOMAIN pubs[id].publishers /\ needsSuccessor(h, id) =>
                     \E m \in out'.apps : m.host = First(rest) /\ m.type = "START_PUBLISH"
<1> DEFINE mine == getLocalHost(h)[h].pubs
           rest == Without(pubs[id].publishers, h)
           next == [rest EXCEPT ![First(rest)] = "START_PUBLISH"]
           t == IF needsSuccessor(h, id) THEN next ELSE rest
           successors == {i \in mine : needsSuccessor(h, i)}
           apps == {ToApp(First(Without(pubs[i].publishers, h)), "START_PUBLISH", i) :
                      i \in successors}
<1>1. /\ pubs' = deleteAllActivePublications(h)
      /\ \E batches : Send(batches, apps)
  BY Zenon DEF disconnect
<1>2. pubs[id] \in Publication
  BY DEF IInv, TypeInv, IsTable
<1>3. mine = {i \in DOMAIN pubs : h \in DOMAIN pubs[i].publishers}
  BY RecordIsList
<1>4. /\ id \notin lastPublished(h)
      /\ pubs'[id] = IF id \in mine THEN afterLeaving(h, id) ELSE pubs[id]
  BY <1>1 DEF deleteAllActivePublications
<1>5. DOMAIN pubs[id].publishers # {h}
  BY <1>3, <1>4 DEF lastPublished
<1>6. afterLeaving(h, id) = [pubs[id] EXCEPT !.publishers = t]
  BY Zenon DEF afterLeaving
<1>7. id \in successors => ToApp(First(rest), "START_PUBLISH", id) \in apps
  OBVIOUS
<1>8. id \in successors <=> id \in mine /\ needsSuccessor(h, id)
  OBVIOUS
<1>9. t = IF needsSuccessor(h, id) THEN next ELSE rest
  OBVIOUS
<1> HIDE DEF mine, successors, apps, t
<1>10. out'.apps = apps
  BY <1>1 DEF Send, Nothing
<1>11. afterLeaving(h, id).publishers = t
  BY <1>2, <1>6 DEF Publication
<1> HIDE DEF rest, next
<1>12. id \in mine <=> h \in DOMAIN pubs[id].publishers
  BY <1>3
<1>13. id \in successors => \E m \in out'.apps : m.host = First(rest) /\ m.type = "START_PUBLISH"
  BY <1>7, <1>10, ToAppFields
<1>14. /\ DOMAIN pubs[id].publishers # {h}
       /\ h \notin DOMAIN pubs[id].publishers => pubs'[id] = pubs[id]
       /\ h \in DOMAIN pubs[id].publishers =>
             pubs'[id].publishers = IF needsSuccessor(h, id) THEN next ELSE rest
       /\ h \in DOMAIN pubs[id].publishers /\ needsSuccessor(h, id) =>
             \E m \in out'.apps : m.host = First(rest) /\ m.type = "START_PUBLISH"
  BY <1>4, <1>5, <1>8, <1>9, <1>11, <1>12, <1>13
<1>15. QED BY <1>14 DEF rest, next

LEMMA HandedOver == ASSUME IInv PROVE HandsOver
<1> SUFFICES ASSUME NEW id \in DOMAIN pubs, id \in DOMAIN pubs', ~ pubs[id].isScope,
                    NotifiedAt(id) # {}, NEW h \in DOMAIN hosts, disconnect(h)
             PROVE  NotifiedAt(id)' # {}
  BY DEF HandsOver
<1> DEFINE rest == Without(pubs[id].publishers, h)
           next == [rest EXCEPT ![First(rest)] = "START_PUBLISH"]
<1>1. h \in Host /\ pubs[id] \in Publication
  BY DEF IInv, TypeInv, IsTable
<1>2. /\ DOMAIN pubs[id].publishers # {h}
      /\ h \notin DOMAIN pubs[id].publishers => pubs'[id] = pubs[id]
      /\ h \in DOMAIN pubs[id].publishers =>
            pubs'[id].publishers = IF needsSuccessor(h, id) THEN next ELSE rest
  BY <1>1, LeavingIs, Zenon
<1>3. /\ DOMAIN rest = DOMAIN pubs[id].publishers \ {h}
      /\ \A g \in DOMAIN rest : rest[g] = pubs[id].publishers[g]
  BY DEF Without
<1>4. DOMAIN rest \subseteq Host
  BY <1>1, <1>3, PublicationFields
<1>5. h \in DOMAIN pubs[id].publishers => DOMAIN rest # {}
  BY <1>2, <1>3
<1> HIDE DEF rest
<1>6. CASE h \notin DOMAIN pubs[id].publishers
  BY <1>2, <1>6 DEF NotifiedAt
<1>7. CASE h \in DOMAIN pubs[id].publishers /\ needsSuccessor(h, id)
  <2>1. First(rest) \in DOMAIN rest
    BY <1>4, <1>5, <1>7, FirstIsOne
  <2>2. pubs'[id].publishers = next
    BY <1>2, <1>7
  <2>3. QED BY <2>1, <2>2 DEF NotifiedAt
<1>8. CASE h \in DOMAIN pubs[id].publishers /\ ~ needsSuccessor(h, id)
  <2>1. pubs[id].publishers[h] = "STOP_PUBLISH"
    BY <1>2, <1>8 DEF needsSuccessor
  <2>2. PICK g \in NotifiedAt(id) : g # h
    BY <2>1 DEF NotifiedAt
  <2>3. pubs'[id].publishers = rest /\ g \in DOMAIN rest /\ rest[g] = "START_PUBLISH"
    BY <1>2, <1>3, <1>8, <2>2 DEF NotifiedAt
  <2>4. QED BY <2>3 DEF NotifiedAt
<1>9. QED BY <1>6, <1>7, <1>8

LEMMA LeavingNoticed ==
    ASSUME IInv, NEW h \in Host, disconnect(h) PROVE NoSilentChange /\ PathLossNoticed
<1>1. PathLossNoticed
  BY DEF PathLossNoticed
<1> SUFFICES ASSUME NEW id \in DOMAIN pubs, id \in DOMAIN pubs',
                    NEW g \in DOMAIN pubs[id].publishers, g \in DOMAIN pubs'[id].publishers,
                    pubs'[id].publishers[g] # pubs[id].publishers[g]
             PROVE  \E m \in out'.apps : m.host = g /\ m.type = pubs'[id].publishers[g]
  BY <1>1 DEF NoSilentChange
<1> DEFINE rest == Without(pubs[id].publishers, h)
           next == [rest EXCEPT ![First(rest)] = "START_PUBLISH"]
<1>2. /\ h \notin DOMAIN pubs[id].publishers => pubs'[id] = pubs[id]
      /\ h \in DOMAIN pubs[id].publishers =>
            pubs'[id].publishers = IF needsSuccessor(h, id) THEN next ELSE rest
      /\ h \in DOMAIN pubs[id].publishers /\ needsSuccessor(h, id) =>
            \E m \in out'.apps : m.host = First(rest) /\ m.type = "START_PUBLISH"
  BY LeavingIs, Zenon
<1>3. \A x \in DOMAIN rest : rest[x] = pubs[id].publishers[x]
  BY DEF Without
<1>4. DOMAIN next = DOMAIN rest /\ \A x \in DOMAIN rest :
         next[x] = IF x = First(rest) THEN "START_PUBLISH" ELSE rest[x]
  OBVIOUS
<1> HIDE DEF rest, next
<1>5. QED BY <1>2, <1>3, <1>4
LEMMA LossNoticed ==
    ASSUME IInv, NEW lid, processTMNotification(lid) PROVE NoSilentChange /\ PathLossNoticed
<1>1. \A id \in DOMAIN pubs : pubs[id] \in Publication
  BY DEF IInv, TypeInv, IsTable
<1>2. ASSUME NEW p \in Publication
      PROVE  /\ invalidated(p).publishers = [h \in DOMAIN p.publishers |->
                   IF p.publishers[h] = "START_PUBLISH" THEN "RE_PUBLISH" ELSE p.publishers[h]]
  BY DEF invalidated, Publication
<1>3. \A id \in DOMAIN pubs : pubs'[id] = pubs[id] \/ pubs'[id] = invalidated(pubs[id])
  BY DEF processTMNotification
<1>4. ASSUME NEW id \in DOMAIN pubs, StartedOnPath(id) PROVE StartedOnPath(id)'
  <2>1. CASE pubs'[id] = pubs[id]
    BY <1>4, <2>1 DEF StartedOnPath, NotifiedAt
  <2>2. CASE pubs'[id] = invalidated(pubs[id])
    <3>1. pubs'[id].publishers = [h \in DOMAIN pubs[id].publishers |->
             IF pubs[id].publishers[h] = "START_PUBLISH" THEN "RE_PUBLISH"
             ELSE pubs[id].publishers[h]]
      BY <1>1, <1>2, <2>2, Zenon
    <3>2. QED BY <3>1 DEF StartedOnPath, NotifiedAt
  <2>3. QED BY <1>3, <2>1, <2>2
<1>5. ASSUME NEW id \in DOMAIN pubs, NEW h \in DOMAIN pubs[id].publishers
      PROVE  \/ pubs'[id].publishers[h] = pubs[id].publishers[h]
             \/ pubs'[id].publishers[h] = "RE_PUBLISH"
  <2>1. CASE pubs'[id] = invalidated(pubs[id])
    <3>1. pubs'[id].publishers = [g \in DOMAIN pubs[id].publishers |->
             IF pubs[id].publishers[g] = "START_PUBLISH" THEN "RE_PUBLISH"
             ELSE pubs[id].publishers[g]]
      BY <1>1, <1>2, <2>1, Zenon
    <3>2. QED BY <3>1
  <2>2. QED BY <1>3, <2>1
<1>6. NoSilentChange
  BY <1>5 DEF NoSilentChange
<1>7. QED BY <1>4, <1>6 DEF PathLossNoticed

LEMMA MappNoticed ==
    ASSUME IInv, NEW g, NEW q, handleMappRequest(g, q) PROVE NoSilentChange /\ PathLossNoticed
<1>1. \A id \in DOMAIN pubs : pubs[id] \in Publication
  BY DEF IInv, TypeInv, IsTable
<1>2. CASE UNCHANGED pubs
  BY <1>2, UnchangedKept, KeptNoticed
<1>3. CASE q = "DISCONNECTED" /\ updateStates(q)
  <2>1. ASSUME NEW p \in Publication
        PROVE  paused(p).publishers = [h \in DOMAIN p.publishers |->
                  IF p.publishers[h] # "STOP_PUBLISH" THEN "PAUSE_PUBLISH" ELSE "STOP_PUBLISH"]
    BY DEF paused, Publication
  <2>2. \A id \in DOMAIN pubs : pubs'[id] = pubs[id] \/ pubs'[id] = paused(pubs[id])
    BY <1>3 DEF updateStates
  <2>3. ASSUME NEW id \in DOMAIN pubs, StartedOnPath(id) PROVE StartedOnPath(id)'
    <3>1. CASE pubs'[id] = pubs[id]
      BY <2>3, <3>1 DEF StartedOnPath, NotifiedAt
    <3>2. CASE pubs'[id] = paused(pubs[id])
      BY <1>1, <2>1, <3>2, Zenon DEF StartedOnPath, NotifiedAt
    <3>3. QED BY <2>2, <3>1, <3>2
  <2>4. ASSUME NEW id \in DOMAIN pubs, NEW h \in DOMAIN pubs[id].publishers
        PROVE  \/ pubs'[id].publishers[h] = pubs[id].publishers[h]
               \/ pubs'[id].publishers[h] = "PAUSE_PUBLISH"
    <3>1. CASE pubs'[id] = paused(pubs[id])
      <4>1. pubs'[id].publishers = [x \in DOMAIN pubs[id].publishers |->
               IF pubs[id].publishers[x] # "STOP_PUBLISH" THEN "PAUSE_PUBLISH"
               ELSE "STOP_PUBLISH"]
        BY <1>1, <2>1, <3>1, Zenon
      <4>2. QED BY <4>1
    <3>2. QED BY <2>2, <3>1
  <2>5. NoSilentChange
    BY <2>4 DEF NoSilentChange
  <2>6. QED BY <2>3, <2>5 DEF PathLossNoticed
<1>4. CASE q = "RECONNECTED" /\ updateStates(q)
  <2> DEFINE apps == UNION {{ToApp(h, "RESUME_PUBLISH", pubs[id].known[1]) :
                               h \in PausedAt(id)} : id \in DOMAIN pubs}
  <2>1. ASSUME NEW id \in DOMAIN pubs
        PROVE  /\ resumed(id).publishers = [h \in DOMAIN pubs[id].publishers |->
                     IF h \in PausedAt(id) THEN "RESUME_PUBLISH" ELSE pubs[id].publishers[h]]
               /\ resumed(id).fid = pubs[id].fid
    <3>1. pubs[id] \in Publication
      BY <1>1
    <3>2. QED BY <3>1 DEF resumed, Publication
  <2>2. \A id \in DOMAIN pubs : pubs'[id] = resumed(id)
    BY <1>4 DEF updateStates
  <2>3. out'.apps = apps
    <3>1. out' = [Nothing EXCEPT !.apps = apps, !.isub = DOMAIN nodes]
      BY <1>4 DEF updateStates, SendOnly
    <3> HIDE DEF apps
    <3>2. QED BY <3>1 DEF Nothing
  <2>4. \A id \in DOMAIN pubs : \A h \in PausedAt(id) :
           ToApp(h, "RESUME_PUBLISH", pubs[id].known[1]) \in apps
    OBVIOUS
  <2> HIDE DEF apps
  <2>5. ASSUME NEW id \in DOMAIN pubs
        PROVE  /\ DOMAIN pubs'[id].publishers = DOMAIN pubs[id].publishers
               /\ pubs'[id].fid = pubs[id].fid
               /\ \A h \in DOMAIN pubs[id].publishers : pubs'[id].publishers[h] =
                     IF h \in PausedAt(id) THEN "RESUME_PUBLISH" ELSE pubs[id].publishers[h]
    <3>1. /\ pubs'[id].publishers = [h \in DOMAIN pubs[id].publishers |->
                IF h \in PausedAt(id) THEN "RESUME_PUBLISH" ELSE pubs[id].publishers[h]]
          /\ pubs'[id].fid = pubs[id].fid
      BY <2>1, <2>2, Zenon
    <3>2. QED BY <3>1
  <2>6. ASSUME NEW id \in DOMAIN pubs, StartedOnPath(id) PROVE StartedOnPath(id)'
    BY <2>5, <2>6 DEF StartedOnPath, NotifiedAt
  <2>7. ASSUME NEW id \in DOMAIN pubs, NEW h \in PausedAt(id)
        PROVE  \E m \in out'.apps : m.host = h /\ m.type = "RESUME_PUBLISH"
    BY <2>3, <2>4, ToAppFields
  <2>8. NoSilentChange
    BY <2>5, <2>7 DEF NoSilentChange
  <2>9. QED BY <2>6, <2>8 DEF PathLossNoticed
<1>5. QED BY <1>2, <1>3, <1>4, Zenon DEF handleMappRequest, updateStates

\* The rendezvous point and the topology manager start publishers, and move
\* them to other paths, only with a FID that has some bit set.
PathsGiven ==
    \A n \in Inputs.notifications : n.type \in {"START_PUBLISH", "UPDATE_FID"} => n.fid # {}

LEMMA NextNoticed ==
    ASSUME IInv, Next PROVE NoSilentChange /\ (PathsGiven => PathLossNoticed)
<1> DEFINE Goal == NoSilentChange /\ (PathsGiven => PathLossNoticed)
<1>1. CASE StatesKept
  BY <1>1, KeptNoticed
<1>2. CASE UNCHANGED pubs
  BY <1>1, <1>2, UnchangedKept
<1>3. ASSUME NEW r \in Inputs.requests, handleLocalRequest(r) PROVE Goal
  BY <1>1, <1>3, InputTypes, RequestKept
<1>4. ASSUME NEW h \in Inputs.hosts, disconnect(h) PROVE Goal
  BY <1>4, InputTypes, LeavingNoticed
<1>5. ASSUME NEW n \in Inputs.notifications, handleRVNotification(n) PROVE Goal
  <2>1. n \in Notification
    BY InputTypes
  <2>2. CASE startPublish(n)
    <3>1. PathsGiven => n.fid # {}
      BY <2>2 DEF PathsGiven, startPublish
    <3>2. QED BY <2>1, <2>2, <3>1, StartNoticed
  <2>3. CASE updateFID(n)
    <3>1. PathsGiven => n.fid # {}
      BY <2>3 DEF PathsGiven, updateFID
    <3>2. QED BY <2>1, <2>3, <3>1, UpdateNoticed
  <2>4. CASE stopPublish(n)
    BY <2>1, <2>4, StopNoticed
  <2>5. CASE scopeNotification(n)
    BY <1>2, <2>5, Zenon DEF scopeNotification
  <2>6. CASE updateConf(n)
    BY <1>2, <2>6, Zenon DEF updateConf
  <2>7. QED BY <1>5, <2>2, <2>3, <2>4, <2>5, <2>6 DEF handleRVNotification
<1>6. ASSUME NEW f, updateNodeFIDs(f) PROVE Goal
  BY <1>2, <1>6, Zenon DEF updateNodeFIDs
<1>7. ASSUME NEW h, NEW id, publishData(h, id) PROVE Goal
  BY <1>2, <1>7 DEF publishData
<1>8. ASSUME NEW h, NEW id, NEW fid, publishImplicit(h, id, fid) PROVE Goal
  BY <1>2, <1>8 DEF publishImplicit
<1>9. ASSUME NEW ids, publicationFromNetwork(ids) PROVE Goal
  BY <1>2, <1>9 DEF publicationFromNetwork
<1>10. ASSUME NEW n, NEW ids, implicitSubscription(n, ids) PROVE Goal
  BY <1>2, <1>10, Zenon DEF implicitSubscription
<1>11. ASSUME NEW h, NEW id, NEW sid, publishISub(h, id, sid) PROVE Goal
  BY <1>2, <1>11, Zenon DEF publishISub
<1>12. ASSUME NEW h, NEW id, NEW N, publishMulticast(h, id, N) PROVE Goal
  BY <1>1, <1>12, MulticastKept
<1>13. ASSUME NEW lid, linkFailed(lid) PROVE Goal
  BY <1>13, LossNoticed DEF linkFailed
<1>14. ASSUME NEW h, NEW lid, NEW fid, tmPublication(h, fid, lid) PROVE Goal
  <2>1. \E read : processTMNotification(read)
    BY <1>14, Zenon DEF tmPublication
  <2>2. QED BY <2>1, LossNoticed
<1>15. ASSUME NEW h, NEW q, handleMappRequest(h, q) PROVE Goal
  BY <1>15, MappNoticed
<1> HIDE DEF Goal
<1>16. Goal
  BY <1>3, <1>4, <1>5, <1>6, <1>7, <1>8, <1>9, <1>10, <1>11, <1>12, <1>13, <1>14, <1>15,
     Zenon DEF Next, Step
<1>17. QED BY <1>16 DEF Goal

\* When an application disconnects, an item with a notified publisher passes
\* to another one; no publisher is started, stopped or resumed without being
\* told; and, when publishers are started on paths, only a disconnection
\* leaves a started publisher without one (disconnect,
\* processTMNotification, updateStates).
THEOREM ChangesAlwaysNoticed == ASSUME PathsGiven PROVE Spec => ChangesNoticed
<1>1. IInv /\ [Next]_vars => [HandsOver /\ NoSilentChange /\ PathLossNoticed]_vars
  BY HandedOver, NextNoticed
<1>2. QED BY <1>1, IInvAlways, PTL DEF Spec, ChangesNoticed
-----------------------------------------------------------------------------
(***************************************************************************)
(* The order in which a disconnection is undone.                           *)
(***************************************************************************)
\* All other messages make the proxy send at most one request.
SendsOne == out'.rv = <<>> \/ \E S : out'.rv = <<S>>

LEMMA OneIsDeepest == ASSUME SendsOne PROVE DeepestFirst'
<1>1. \A i, j \in DOMAIN out'.rv : ~ (i < j)
  BY DEF SendsOne
<1>2. QED BY <1>1 DEF DeepestFirst

LEMMA SendIsOne == ASSUME NEW S, NEW apps, Send(<<S>>, apps) PROVE SendsOne
<1>1. out'.rv = <<S>>
  BY DEF Send, Nothing
<1>2. QED BY <1>1 DEF SendsOne

LEMMA SendOnlyIsOne ==
    ASSUME NEW m, SendOnly(m), m.rv = <<>> PROVE SendsOne
BY DEF SendOnly, SendsOne

LEMMA NothingSent ==
    ASSUME NEW a
    PROVE  /\ Nothing.rv = <<>>
           /\ [Nothing EXCEPT !.apps = a].rv = <<>>
           /\ [Nothing EXCEPT !.net = a].rv = <<>>
           /\ [Nothing EXCEPT !.isub = a].rv = <<>>
BY DEF Nothing

LEMMA NothingSentElse ==
    ASSUME NEW a, NEW b
    PROVE  /\ [Nothing EXCEPT !.net = a, !.isub = b].rv = <<>>
           /\ [Nothing EXCEPT !.isub = a, !.apps = b].rv = <<>>
           /\ [Nothing EXCEPT !.apps = a, !.isub = b].rv = <<>>
BY DEF Nothing

LEMMA UndoneIs ==
    ASSUME NEW type, NEW table, NEW ids, NEW m \in Undone(type, table, ids)
    PROVE  m.type = type /\ m.id \in ids
BY DEF Undone, ToRV

LEMMA LevelsAre ==
    ASSUME NEW type, NEW table, NEW ids
    PROVE  LET L == Levels(type, table, ids)
           IN  /\ DOMAIN L = 1..MaxDepth
               /\ \A i \in 1..MaxDepth : \A m \in L[i] :
                     m.type = type /\ Len(m.id) = MaxDepth + 1 - i
<1> DEFINE level(i) == {id \in ids : Len(id) = MaxDepth + 1 - i}
           L == Levels(type, table, ids)
<1>1. DOMAIN L = 1..MaxDepth /\ \A i \in 1..MaxDepth : L[i] = Undone(type, table, level(i))
  BY DEF Levels
<1>2. ASSUME NEW i \in 1..MaxDepth, NEW m \in L[i]
      PROVE  m.type = type /\ Len(m.id) = MaxDepth + 1 - i
  <2>1. m \in Undone(type, table, level(i))
    BY <1>1
  <2> HIDE DEF L, level
  <2>2. m.type = type /\ m.id \in level(i)
    BY <2>1, UndoneIs
  <2>3. QED BY <2>2 DEF level
<1>3. QED BY <1>1, <1>2

LEMMA DisconnectDeepest == ASSUME NEW h, disconnect(h) PROVE DeepestFirst'
<1> DEFINE told == {id \in lastSubscribed(h) : subs[id].strategy \in Reaching}
           itemsOf(table, ids) == {id \in ids : ~ table[id].isScope}
           scopesOf(table, ids) == {id \in ids : table[id].isScope}
           A == Undone("UNPUBLISH_INFO", pubs, itemsOf(pubs, lastPublished(h)))
           B == Undone("UNSUBSCRIBE_INFO", subs, itemsOf(subs, told))
           C == Levels("UNPUBLISH_SCOPE", pubs, scopesOf(pubs, lastPublished(h)))
           D == Levels("UNSUBSCRIBE_SCOPE", subs, scopesOf(subs, told))
           n == MaxDepth
<1>1. \E apps : Send(<<A, B>> \o C \o D, apps)
  BY Zenon DEF disconnect
<1>2. /\ \A m \in A : m.type = "UNPUBLISH_INFO"
      /\ \A m \in B : m.type = "UNSUBSCRIBE_INFO"
  BY UndoneIs
<1>3. /\ DOMAIN C = 1..n /\ DOMAIN D = 1..n
      /\ \A i \in 1..n : \A m \in C[i] : m.type = "UNPUBLISH_SCOPE" /\ Len(m.id) = n + 1 - i
      /\ \A i \in 1..n : \A m \in D[i] : m.type = "UNSUBSCRIBE_SCOPE" /\ Len(m.id) = n + 1 - i
  BY LevelsAre
<1>4. C = [i \in 1..n |-> C[i]] /\ D = [i \in 1..n |-> D[i]]
  BY DEF Levels
<1>5. n \in Nat
  BY InputAssumption
<1> DEFINE S == {A, B} \cup {C[i] : i \in 1..n} \cup {D[i] : i \in 1..n}
<1> HIDE DEF A, B, C, D, n
<1>6. /\ <<A, B>> \in Seq(S) /\ C \in Seq(S) /\ D \in Seq(S)
      /\ Len(C) = n /\ Len(D) = n
  <2>1. C \in [1..n -> S] /\ D \in [1..n -> S]
    BY <1>4
  <2>2. A \in S /\ B \in S
    OBVIOUS
  <2> HIDE DEF S
  <2>3. QED BY <1>5, <2>1, <2>2
<1> HIDE DEF S
<1>7. out'.rv = <<A, B>> \o C \o D
  <2> DEFINE all == <<A, B>> \o C \o D
  <2> HIDE DEF all
  <2>1. \E apps : Send(all, apps)
    BY <1>1 DEF all
  <2>2. out'.rv = all
    BY <2>1 DEF Send, Nothing
  <2>3. QED BY <2>2 DEF all
<1>8. /\ DOMAIN out'.rv = 1 .. 2 + n + n
      /\ out'.rv[1] = A /\ out'.rv[2] = B
      /\ \A i \in 3 .. 2 + n : out'.rv[i] = C[i - 2]
      /\ \A i \in 3 + n .. 2 + n + n : out'.rv[i] = D[i - 2 - n]
  BY <1>5, <1>6, <1>7
<1>9. ASSUME NEW i \in DOMAIN out'.rv, NEW m \in out'.rv[i]
      PROVE  \/ i = 1 /\ m.type = "UNPUBLISH_INFO"
             \/ i = 2 /\ m.type = "UNSUBSCRIBE_INFO"
             \/ i \in 3 .. 2 + n /\ m.type = "UNPUBLISH_SCOPE" /\ Len(m.id) = n + 3 - i
             \/ /\ i \in 3 + n .. 2 + n + n /\ m.type = "UNSUBSCRIBE_SCOPE"
                /\ Len(m.id) = n + n + 3 - i
  <2>1. CASE i = 1
    BY <1>2, <1>8, <2>1
  <2>2. CASE i = 2
    BY <1>2, <1>8, <2>2
  <2>3. CASE i \in 3 .. 2 + n
    <3>1. m \in C[i - 2] /\ i - 2 \in 1..n
      BY <1>5, <1>8, <2>3
    <3>2. QED BY <1>3, <1>5, <2>3, <3>1
  <2>4. CASE i \in 3 + n .. 2 + n + n
    <3>0. i - 2 - n \in 1..n
      BY <1>5, <2>4
    <3>1. m \in D[i - 2 - n]
      BY <1>8, <2>4
    <3>2. m.type = "UNSUBSCRIBE_SCOPE" /\ Len(m.id) = n + 1 - (i - 2 - n)
      BY <1>3, <3>0, <3>1
    <3>3. QED BY <1>5, <2>4, <3>2
  <2>5. QED BY <1>5, <1>8, <2>1, <2>2, <2>3, <2>4
<1>10. ASSUME NEW i \in DOMAIN out'.rv, NEW j \in DOMAIN out'.rv, i < j,
              NEW m \in out'.rv[i], NEW k \in out'.rv[j], m.type = k.type
       PROVE  Len(k.id) <= Len(m.id)
  <2>1. i \in 1 .. 2 + n + n /\ j \in 1 .. 2 + n + n
    BY <1>8
  <2>2. CASE i \in 3 .. 2 + n /\ Len(m.id) = n + 3 - i /\ m.type = "UNPUBLISH_SCOPE"
    <3>1. Len(k.id) = n + 3 - j
      BY <1>9, <1>10, <2>2, Zenon
    <3>2. QED BY <1>5, <1>10, <2>1, <2>2, <3>1
  <2>3. CASE /\ i \in 3 + n .. 2 + n + n /\ Len(m.id) = n + n + 3 - i
             /\ m.type = "UNSUBSCRIBE_SCOPE"
    <3>1. Len(k.id) = n + n + 3 - j
      BY <1>9, <1>10, <2>3, Zenon
    <3>2. QED BY <1>5, <1>10, <2>1, <2>3, <3>1
  <2>4. CASE i = 1 /\ m.type = "UNPUBLISH_INFO"
    <3>1. j = 1
      BY <1>9, <1>10, <2>4, Zenon
    <3>2. QED BY <1>10, <2>4, <3>1
  <2>5. CASE i = 2 /\ m.type = "UNSUBSCRIBE_INFO"
    <3>1. j = 2
      BY <1>9, <1>10, <2>5, Zenon
    <3>2. QED BY <1>10, <2>5, <3>1
  <2>6. QED BY <1>9, <2>2, <2>3, <2>4, <2>5
<1>11. QED BY <1>10 DEF DeepestFirst

LEMMA DataSendsNothing ==
    ASSUME NEW h, NEW id, NEW type, NEW fid
    PROVE  userPublication(h, id, type).rv = <<>> /\ givenFID(h, id, fid).rv = <<>>
<1>1. givenFID(h, id, fid).rv = <<>>
  BY DEF givenFID, Nothing
<1>2. userPublication(h, id, type).rv = <<>>
  BY DEF userPublication, Nothing
<1>3. QED BY <1>1, <1>2

LEMMA RequestSendsOne == ASSUME NEW r, handleLocalRequest(r) PROVE SendsOne
<1>1. CASE SendOnly(Nothing)
  BY <1>1, SendOnlyIsOne, NothingSent
<1>2. CASE \E S, apps : Send(<<S>>, apps)
  BY <1>2, SendIsOne
<1> DEFINE id == FullIDOf(r)
           rvfid == RVFIDOf(r.strategy)
           S == {ToRV(r.type, id, r.strategy, rvfid)}
<1>3. SendOnly(Nothing) \/ Send(<<S>>, {})
  <2>1. CASE storeActivePublication(r, id, rvfid)
    BY <2>1, Zenon DEF storeActivePublication
  <2>2. CASE removeActivePublication(r, id, rvfid)
    BY <2>2, Zenon DEF removeActivePublication
  <2>3. CASE storeActiveSubscription(r, id, rvfid)
    BY <2>3, Zenon DEF storeActiveSubscription
  <2>4. CASE removeActiveSubscription(r, id, rvfid)
    BY <2>4, Zenon DEF removeActiveSubscription
  <2> HIDE DEF S
  <2>5. QED BY <2>1, <2>2, <2>3, <2>4, Zenon DEF handleLocalRequest
<1>4. QED BY <1>1, <1>2, <1>3, Zenon

LEMMA NextDeepest == ASSUME DeepestFirst, [Next]_vars PROVE DeepestFirst'
<1>1. CASE UNCHANGED vars
  BY <1>1 DEF vars, DeepestFirst
<1>2. CASE SendsOne
  BY <1>2, OneIsDeepest
<1>3. CASE \E m : SendOnly(m) /\ m.rv = <<>>
  BY <1>2, <1>3, SendOnlyIsOne
<1>4. ASSUME NEW r, handleLocalRequest(r) PROVE DeepestFirst'
  BY <1>2, <1>4, RequestSendsOne
<1>5. ASSUME NEW h, disconnect(h) PROVE DeepestFirst'
  BY <1>5, DisconnectDeepest
<1>6. ASSUME NEW n, handleRVNotification(n) PROVE DeepestFirst'
  <2>1. CASE startPublish(n)
    BY <1>3, <2>1, NothingSent, Zenon DEF startPublish
  <2>2. CASE updateFID(n)
    BY <1>3, <2>2, NothingSent, Zenon DEF updateFID
  <2>3. CASE stopPublish(n)
    BY <1>3, <2>3, NothingSent, Zenon DEF stopPublish
  <2>4. CASE scopeNotification(n)
    BY <1>3, <2>4, NothingSent, Zenon DEF scopeNotification
  <2>5. CASE updateConf(n)
    BY <1>3, <2>5, NothingSent, Zenon DEF updateConf
  <2>6. QED BY <1>6, <2>1, <2>2, <2>3, <2>4, <2>5 DEF handleRVNotification
<1>7. ASSUME NEW f, updateNodeFIDs(f) PROVE DeepestFirst'
  BY <1>3, <1>7, NothingSent, Zenon DEF updateNodeFIDs
<1>8. ASSUME NEW h, NEW id, publishData(h, id) PROVE DeepestFirst'
  BY <1>3, <1>8, DataSendsNothing, Zenon DEF publishData
<1>9. ASSUME NEW h, NEW id, NEW fid, publishImplicit(h, id, fid) PROVE DeepestFirst'
  BY <1>3, <1>9, DataSendsNothing, Zenon DEF publishImplicit
<1>10. ASSUME NEW ids, publicationFromNetwork(ids) PROVE DeepestFirst'
  BY <1>3, <1>10, NothingSent, Zenon DEF publicationFromNetwork
<1>11. ASSUME NEW n, NEW ids, implicitSubscription(n, ids) PROVE DeepestFirst'
  <2>1. \E a, b : SendOnly([Nothing EXCEPT !.isub = a, !.apps = b])
    BY <1>11, Zenon DEF implicitSubscription
  <2>2. QED BY <1>3, <2>1, NothingSentElse, Zenon
<1>12. ASSUME NEW h, NEW id, NEW sid, publishISub(h, id, sid) PROVE DeepestFirst'
  BY <1>3, <1>12, DataSendsNothing, Zenon DEF publishISub
<1>13. ASSUME NEW h, NEW id, NEW N, publishMulticast(h, id, N) PROVE DeepestFirst'
  BY <1>3, <1>13, NothingSent, Zenon DEF publishMulticast
<1>14. ASSUME NEW lid, linkFailed(lid) PROVE DeepestFirst'
  BY <1>3, <1>14, NothingSent, Zenon DEF linkFailed
<1>15. ASSUME NEW h, NEW lid, NEW fid, tmPublication(h, fid, lid) PROVE DeepestFirst'
  BY <1>3, <1>15, NothingSent, NothingSentElse, Zenon DEF tmPublication
<1>16. ASSUME NEW h, NEW q, handleMappRequest(h, q) PROVE DeepestFirst'
  <2>1. \/ SendOnly(Nothing)
        \/ \E a : SendOnly([Nothing EXCEPT !.apps = a])
        \/ \E a, b : SendOnly([Nothing EXCEPT !.apps = a, !.isub = b])
    BY <1>16, Zenon DEF handleMappRequest, updateStates
  <2>2. QED BY <1>3, <2>1, NothingSent, NothingSentElse, Zenon
<1>17. CASE Next
  BY <1>4, <1>5, <1>6, <1>7, <1>8, <1>9, <1>10, <1>11, <1>12, <1>13, <1>14, <1>15, <1>16,
     <1>17, Zenon DEF Next, Step
<1>18. QED BY <1>1, <1>17

\* disconnect() has the rendezvous point drop the items of an application
\* first and its scopes level by level from the deepest, whatever it had
\* published and subscribed to: for no two requests of one kind does the
\* shallower ID come first (the rendezvous point refuses to drop a scope
\* that has something under it).
THEOREM AlwaysDeepestFirst == Spec => []DeepestFirst
<1>1. Init => DeepestFirst
  BY DEF Init, Nothing, DeepestFirst
<1>2. DeepestFirst /\ [Next]_vars => DeepestFirst'
  BY NextDeepest
<1>3. QED BY <1>1, <1>2, PTL DEF Spec
=============================================================================
