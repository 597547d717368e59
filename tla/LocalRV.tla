------------------------------- MODULE LocalRV -------------------------------
(***************************************************************************)
(* The rendezvous point of a Blackadder node (the Click element LocalRV,   *)
(* with the objects it owns: Scope, InformationItem and RemoteHost).       *)
(*                                                                         *)
(* The information graph is a DAG of scopes and information items.  An     *)
(* object has several full IDs, one per path that reaches it, and keeps a  *)
(* set of publishers and a set of subscribers for each of them.  Two hash  *)
(* tables find an object by full ID: scopeIndex and pubIndex.              *)
(*                                                                         *)
(* A full ID is a sequence of fragments.  Every API request is handled by  *)
(* an operator from the store to the store, as the handlers call each      *)
(* other; an early return with an error code leaves the store as it was.   *)
(***************************************************************************)
EXTENDS Naturals, Sequences

CONSTANTS
    Node,       \* labels of the nodes that send requests
    LocalProxy, \* the label of the node this rendezvous point runs on
    Fragment,   \* the fragments an ID is made of
    ScopeObj,   \* addresses of Scope objects
    ItemObj,    \* addresses of InformationItem objects
    NoScope,    \* the NULL pointer
    KnownRoots, \* known_rootscopes: the IP-over-ICN and HTTP-over-ICN roots
    Requests    \* the requests that may arrive

Strategies == {"NODE_LOCAL", "DOMAIN_LOCAL"}

RequestTypes == {"PUBLISH_SCOPE", "PUBLISH_INFO",
                 "UNPUBLISH_SCOPE", "UNPUBLISH_INFO",
                 "SUBSCRIBE_SCOPE", "SUBSCRIBE_INFO",
                 "UNSUBSCRIBE_SCOPE", "UNSUBSCRIBE_INFO"}

FullID == Seq(Fragment) \ {<<>>}

Request == [type: RequestTypes, node: Node, id: FullID,
            prefix: Seq(Fragment), strategy: Strategies]

Obj == ScopeObj \cup ItemObj

ASSUME ObjAssumption == /\ ScopeObj \cap ItemObj = {}
                        /\ NoScope \notin Obj

(***************************************************************************)
(* An ID of several fragments names an existing object to be published     *)
(* under one more path; all other requests carry one fragment.             *)
(***************************************************************************)
ASSUME RequestAssumption ==
    /\ Requests \subseteq Request
    /\ \A r \in Requests :
          \/ Len(r.id) = 1
          \/ r.type \in {"PUBLISH_SCOPE", "PUBLISH_INFO"} /\ r.prefix # <<>>

VARIABLE rv

-----------------------------------------------------------------------------
(***************************************************************************)
(* IDs.                                                                    *)
(***************************************************************************)
Suffix(id) == id[Len(id)]
Prefix(id) == SubSeq(id, 1, Len(id) - 1)
IsPrefixOf(p, id) == Len(p) <= Len(id) /\ SubSeq(id, 1, Len(p)) = p

\* Wrong on purpose (as are all operators named Bad...): the ID of the father.
BadFullID(r) == r.prefix

FullIDOf(r) == Append(r.prefix, Suffix(r.id))

(***************************************************************************)
(* The store.  regs holds the pairs of every object: a member              *)
(* <<o, id, n, "pub">> says that n is in ids[id]->first of object o.       *)
(* host holds the four sets of every RemoteHost.  rdv and notes are what   *)
(* the request being handled sends: per item the last rendezvous request,  *)
(* and the notifications about scopes.                                     *)
(***************************************************************************)
NoStrategy == "none"
NoRdv == [type |-> "none", pubs |-> {}, subs |-> {}, ids |-> {},
          unicast |-> FALSE]

EmptyStore ==
    [scopeIndex |-> [id \in {} |-> NoScope],
     pubIndex   |-> [id \in {} |-> NoScope],
     ids        |-> [o \in Obj |-> {}],
     fathers    |-> [o \in Obj |-> {}],
     strategy   |-> [o \in Obj |-> NoStrategy],
     regs       |-> {},
     host       |-> {},
     rdv        |-> [i \in ItemObj |-> NoRdv],
     notes      |-> {}]

ScopeAt(s, id) == IF id \in DOMAIN s.scopeIndex THEN s.scopeIndex[id]
                                                ELSE NoScope

SuffixOf(s, o) == Suffix(CHOOSE id \in s.ids[o] : TRUE)

getSubscopes(s, f) == {c \in ScopeObj : f \in s.fathers[c]}
getInformationItems(s, f) == {i \in ItemObj : f \in s.fathers[i]}

Registered(s, o, role) ==
    {n \in Node : \E id \in s.ids[o] : <<o, id, n, role>> \in s.regs}

getPublishers(s, o) == Registered(s, o, "pub")
getSubscribers(s, o) == Registered(s, o, "sub")

\* The subscribers of an item, with those of all the scopes it is under.
Interested(s, i) ==
    getSubscribers(s, i) \cup UNION {getSubscribers(s, f) : f \in s.fathers[i]}

getRootScopes(s, i) == {id[1] : id \in s.ids[i]}

\* known_scope: the item follows the one-shot semantics of *-over-ICN.
Known(s, i) == getRootScopes(s, i) \cap KnownRoots # {}

\* The IDs that object o has through its father f (all, for a root scope).
IDsUnder(s, f, sfx) == {Append(p, sfx) : p \in s.ids[f]}
BranchIDs(s, o, f) == IF f = NoScope THEN s.ids[o]
                                     ELSE IDsUnder(s, f, SuffixOf(s, o))

checkForOtherPubSub(s, o, f) ==
    \E t \in s.regs : t[1] = o /\ t[2] \in BranchIDs(s, o, f)

-----------------------------------------------------------------------------
(***************************************************************************)
(* Changing the graph.  G gives every object the IDs it gains.             *)
(***************************************************************************)
AddIDs(s, G) ==
    LET set(index, S) ==
          [id \in DOMAIN index \cup UNION {G[o] : o \in S} |->
             IF \E o \in S : id \in G[o] THEN CHOOSE o \in S : id \in G[o]
                                         ELSE index[id]]
    IN  [s EXCEPT !.ids = [o \in Obj |-> s.ids[o] \cup G[o]],
                  !.scopeIndex = set(s.scopeIndex, ScopeObj),
                  !.pubIndex = set(s.pubIndex, ItemObj)]

\* A new object; root scopes have no father and one ID.
NewObject(s, o, fs, strategy, newIDs) ==
    AddIDs([s EXCEPT !.fathers[o] = fs, !.strategy[o] = strategy],
           [x \in Obj |-> IF x = o THEN newIDs ELSE {}])

\* Any free address of A will do; an address that is one of the object's IDs is
\* preferred, so that TLC need not tell apart which of them was free first.
Fresh(s, A, newIDs) ==
    LET free == {o \in A : s.ids[o] = {}}
    IN  CHOOSE o \in free : free \cap newIDs # {} => o \in newIDs

NewRootScope(s, id, strategy) ==
    NewObject(s, Fresh(s, ScopeObj, {id}), {}, strategy, {id})
NewInnerScope(s, f, sfx, strategy) ==
    LET newIDs == IDsUnder(s, f, sfx)
    IN  NewObject(s, Fresh(s, ScopeObj, newIDs), {f}, strategy, newIDs)
NewItem(s, f, sfx) ==
    LET newIDs == IDsUnder(s, f, sfx)
    IN  NewObject(s, Fresh(s, ItemObj, newIDs), {f}, s.strategy[f], newIDs)

(***************************************************************************)
(* recursivelyUpdateIDs and updateIDs, for object x with ID old put under  *)
(* f too: the subtree found under old is found under x's new IDs as well.  *)
(***************************************************************************)
BadGainedShallow(s, f, old) == \* does not recurse into subscopes and items
    [y \in Obj |-> {Append(p, Suffix(old)) :
                      p \in s.ids[f], d \in {d \in s.ids[y] : d = old}}]

\* The ID d of something at or below old, when old is moved under p.
Moved(p, old, d) == Append(p, Suffix(old)) \o SubSeq(d, Len(old) + 1, Len(d))

GainedIDs(s, f, old) ==
    [y \in Obj |-> UNION {{Moved(p, old, d) : p \in s.ids[f]} :
                            d \in {e \in s.ids[y] : IsPrefixOf(old, e)}}]

Link(s, x, f, old) ==
    AddIDs([s EXCEPT !.fathers[x] = @ \cup {f}], GainedIDs(s, f, old))

(***************************************************************************)
(* Remove the objects K from under f: the object itself when f is its only *)
(* father (or it is a root scope), else the branch under f.                *)
(***************************************************************************)

Drop(s, K, f) ==
    LET last(o) == s.fathers[o] \subseteq {f}
        lost(o) == IF o \notin K THEN {}
                   ELSE IF last(o) THEN s.ids[o] ELSE BranchIDs(s, o, f)
        keep(index, S) ==
          [id \in DOMAIN index \ UNION {lost(o) : o \in S} |-> index[id]]
    IN  [s EXCEPT
           !.ids = [o \in Obj |-> s.ids[o] \ lost(o)],
           !.fathers = [o \in Obj |-> IF o \in K THEN s.fathers[o] \ {f}
                                                 ELSE s.fathers[o]],
           !.strategy = [o \in Obj |-> IF o \in K /\ last(o) THEN NoStrategy
                                       ELSE s.strategy[o]],
           !.scopeIndex = keep(s.scopeIndex, ScopeObj),
           !.pubIndex = keep(s.pubIndex, ItemObj),
           !.regs = {t \in s.regs : t[2] \notin lost(t[1])}]

-----------------------------------------------------------------------------
(***************************************************************************)
(* Registering a publisher or subscriber with an object and its host.      *)
(***************************************************************************)
Kind(o) == IF o \in ScopeObj THEN "scope" ELSE "item"

HostEntry(t) == <<t[3], Kind(t[1]), t[2], t[4]>>

Register(s, t) == [s EXCEPT !.regs = @ \cup {t},
                            !.host = @ \cup {HostEntry(t)}]

BadUnregister(s, T) == [s EXCEPT !.regs = @ \ T] \* forgets the RemoteHost

Unregister(s, T) == [s EXCEPT !.regs = @ \ T,
                              !.host = @ \ {HostEntry(t) : t \in T}]

-----------------------------------------------------------------------------
(***************************************************************************)
(* What a request sends.                                                   *)
(***************************************************************************)
BadRdvOf(s, i, update_only) == \* forgets the subscribers of the fathers
    [type |-> "MATCH_PUB_SUBS", pubs |-> getPublishers(s, i),
     subs |-> getSubscribers(s, i), ids |-> s.ids[i], unicast |-> FALSE]

RdvOf(s, i, update_only) ==
    LET subs == Interested(s, i)
        toTM == s.strategy[i] = "DOMAIN_LOCAL"
    IN  [type |-> IF toTM
                  THEN IF update_only THEN "UPDATE_FID" ELSE "MATCH_PUB_SUBS"
                  ELSE IF subs = {} THEN "STOP_PUBLISH"
                  ELSE IF update_only THEN "UPDATE_FID" ELSE "START_PUBLISH",
         pubs |-> getPublishers(s, i),
         subs |-> subs,
         ids  |-> s.ids[i],
         unicast |-> toTM /\ Known(s, i)]

\* For every item of I; nothing is sent for an item that nobody publishes.
rendezvous(s, I, update_only) ==
    [s EXCEPT !.rdv = [i \in ItemObj |->
        IF i \in I /\ getPublishers(s, i) # {} THEN RdvOf(s, i, update_only)
                                               ELSE s.rdv[i]]]

Recipients(strategy, subs) ==
    IF strategy = "NODE_LOCAL" THEN subs \cap {LocalProxy} ELSE subs

notifySubscribers(s, type, N) ==
    [s EXCEPT !.notes = @ \cup
        {[type |-> type, ids |-> n.ids, to |-> n.to] :
            n \in {m \in N : m.to # {}}}]

Note(s, c, idSet, subs) ==
    [ids |-> idSet, to |-> Recipients(s.strategy[c], subs)]

-----------------------------------------------------------------------------
(***************************************************************************)
(* unpublish_info, called for every publisher in N, item in I (all under   *)
(* scope f) and prefix in P (IDs of f).  An item that loses a publisher    *)
(* goes away when nobody else uses it under f; otherwise the rendezvous is *)
(* done again, unless the item is a one-shot publication.  When the calls  *)
(* send several requests about one item, rdv keeps the last one.           *)
(***************************************************************************)
BadLeavingSubs(s, N, I, P) == \* subscribers leave too
    {t \in s.regs : t[1] \in I /\ t[3] \in N /\ Prefix(t[2]) \in P}

BadLeavingEverywhere(s, N, I, P) == \* at all IDs of the items
    {t \in s.regs : t[4] = "pub" /\ t[1] \in I /\ t[3] \in N}

leaving(s, N, I, P) ==
    {t \in s.regs : /\ t[4] = "pub" /\ t[1] \in I /\ t[3] \in N
                    /\ Prefix(t[2]) \in P}

unpublishInfos(s, N, I, P, f, update_only) ==
    LET T == leaving(s, N, I, P)
        hit == {t[1] : t \in T}
        s1 == Unregister(s, T)
        s2 == Drop(s1, {i \in hit : ~checkForOtherPubSub(s1, i, f)}, f)
    IN  rendezvous(s2, {i \in hit : ~Known(s, i)}, update_only)

BadMatched(s, I) == {} \* no one-shot semantics

\* The *-over-ICN items whose publishers are removed, being matched.
matched(s, I) == {i \in I : Known(s, i) /\ Interested(s, i) # {}}

\* Rendezvous for the items I under f, and the one-shot unpublication at ID
\* prefix of the publishers of those that are of the *-over-ICN kind.
match(s, I, f, prefix) ==
    unpublishInfos(rendezvous(s, I, FALSE), Node, matched(s, I), {prefix}, f,
                   FALSE)

unpublish_info(s, r) ==
    LET full == FullIDOf(r)
        f == ScopeAt(s, r.prefix)
    IN  IF full \notin DOMAIN s.pubIndex \/ s.strategy[f] # r.strategy THEN s
        ELSE unpublishInfos(s, {r.node}, {s.pubIndex[full]}, {r.prefix}, f,
                            FALSE)

-----------------------------------------------------------------------------
(***************************************************************************)
(* Publishing.  created is the store in which the object surely exists.    *)
(***************************************************************************)
addScopePublisher(s, sc, r) == Register(s, <<sc, FullIDOf(r), r.node, "pub">>)

publish_root_scope(s, r) ==
    LET full == FullIDOf(r)
        sc == ScopeAt(s, full)
        created == IF sc = NoScope THEN NewRootScope(s, full, r.strategy)
                                   ELSE s
    IN  IF sc # NoScope /\ s.strategy[sc] # r.strategy THEN s
        ELSE addScopePublisher(created, created.scopeIndex[full], r)

BadScopeAllowed(s, r) == \* does not look at the strategy
    /\ FullIDOf(r) \notin DOMAIN s.pubIndex
    /\ ScopeAt(s, r.prefix) # NoScope

\* Whether a scope may be put, or is there to be used, at the request's ID.
scopeAllowed(s, r) ==
    LET full == FullIDOf(r)
        f == ScopeAt(s, r.prefix)
        sc == ScopeAt(s, full)
    IN  /\ full \notin DOMAIN s.pubIndex
        /\ f # NoScope
        /\ s.strategy[IF sc = NoScope THEN f ELSE sc] = r.strategy

BadAnnounce(s, r, idSet) == s \* a new scope is not announced

\* The scope at the request's ID is new: tell the subscribers of its father.
announce(s, r, idSet) ==
    LET sc == s.scopeIndex[FullIDOf(r)]
        f == s.scopeIndex[r.prefix]
    IN  notifySubscribers(s, "SCOPE_PUBLISHED",
                          {Note(s, sc, idSet, getSubscribers(s, f))})

publish_inner_scope(s, r) ==
    LET full == FullIDOf(r)
        f == ScopeAt(s, r.prefix)
        sc == ScopeAt(s, full)
        created == NewInnerScope(s, f, Suffix(full), r.strategy)
        new == created.scopeIndex[full]
    IN  IF ~scopeAllowed(s, r) THEN s
        ELSE IF sc # NoScope THEN addScopePublisher(s, sc, r)
        ELSE announce(addScopePublisher(created, new, r), r, created.ids[new])

republish_inner_scope(s, r) ==
    LET f == ScopeAt(s, r.prefix)
        sc == ScopeAt(s, FullIDOf(r))
        x == ScopeAt(s, r.id)
        linked == Link(s, x, f, r.id)
    IN  IF ~scopeAllowed(s, r) \/ x = NoScope THEN s
        ELSE IF sc # NoScope THEN addScopePublisher(s, sc, r)
        ELSE announce(addScopePublisher(linked, x, r), r,
                      linked.ids[x] \ {r.id})

publish_scope(s, r) ==
    IF Len(r.id) > 1 THEN republish_inner_scope(s, r)
    ELSE IF r.prefix = <<>> THEN publish_root_scope(s, r)
    ELSE publish_inner_scope(s, r)

\* Whether an item may be put, or is there to be used, at the request's ID.
itemAllowed(s, r) ==
    LET f == ScopeAt(s, r.prefix)
    IN  /\ FullIDOf(r) \notin DOMAIN s.scopeIndex
        /\ f # NoScope
        /\ s.strategy[f] = r.strategy

\* Nothing is done for a node that is registered already (EXISTS).
addItemUser(s, r, role) ==
    LET i == s.pubIndex[FullIDOf(r)]
        t == <<i, FullIDOf(r), r.node, role>>
    IN  IF t \in s.regs THEN s
        ELSE match(Register(s, t), {i}, s.scopeIndex[r.prefix], r.prefix)

withItem(s, r) ==
    IF FullIDOf(r) \in DOMAIN s.pubIndex THEN s
    ELSE NewItem(s, s.scopeIndex[r.prefix], Suffix(r.id))

advertise_info(s, r) ==
    IF itemAllowed(s, r) THEN addItemUser(withItem(s, r), r, "pub") ELSE s

readvertise_info(s, r) ==
    LET f == ScopeAt(s, r.prefix)
        linked == IF FullIDOf(r) \in DOMAIN s.pubIndex THEN s
                  ELSE Link(s, s.pubIndex[r.id], f, r.id)
    IN  IF itemAllowed(s, r) /\ r.id \in DOMAIN s.pubIndex
        THEN addItemUser(linked, r, "pub") ELSE s

publish_info(s, r) ==
    IF r.prefix = <<>> THEN s
    ELSE IF Len(r.id) > 1 THEN readvertise_info(s, r)
    ELSE advertise_info(s, r)

-----------------------------------------------------------------------------
(***************************************************************************)
(* Subscribing.  A new subscriber of an existing scope is told of the      *)
(* subscopes, and the rendezvous is done for the items in the scope.       *)
(***************************************************************************)
addScopeSubscriber(s, sc, r) == Register(s, <<sc, FullIDOf(r), r.node, "sub">>)

joinScope(s, sc, r) ==
    LET s1 == addScopeSubscriber(s, sc, r)
        s2 == notifySubscribers(s1, "SCOPE_PUBLISHED",
                {Note(s, c, s.ids[c], {r.node}) : c \in getSubscopes(s, sc)})
    IN  match(s2, getInformationItems(s, sc), sc, FullIDOf(r))

subscribe_root_scope(s, r) ==
    LET full == FullIDOf(r)
        sc == ScopeAt(s, full)
        created == NewRootScope(s, full, r.strategy)
    IN  IF sc = NoScope
        THEN addScopeSubscriber(created, created.scopeIndex[full], r)
        ELSE IF s.strategy[sc] = r.strategy THEN joinScope(s, sc, r) ELSE s

subscribe_inner_scope(s, r) ==
    LET full == FullIDOf(r)
        sc == ScopeAt(s, full)
        created == NewInnerScope(s, ScopeAt(s, r.prefix), Suffix(full),
                                 r.strategy)
        new == created.scopeIndex[full]
    IN  IF ~scopeAllowed(s, r) THEN s
        ELSE IF sc # NoScope THEN joinScope(s, sc, r)
        ELSE announce(addScopeSubscriber(created, new, r), r, created.ids[new])

subscribe_scope(s, r) ==
    IF r.prefix = <<>> THEN subscribe_root_scope(s, r)
    ELSE subscribe_inner_scope(s, r)

subscribe_info(s, r) ==
    IF r.prefix # <<>> /\ itemAllowed(s, r)
    THEN addItemUser(withItem(s, r), r, "sub") ELSE s

-----------------------------------------------------------------------------
(***************************************************************************)
(* Leaving a scope.  It goes away, with a notification to the subscribers  *)
(* of the father, when it is empty and nobody else uses it there.          *)
(***************************************************************************)
BadEmptyScope(s, sc) == getSubscopes(s, sc) = {} \* forgets the items
emptyScope(s, sc) == getSubscopes(s, sc) = {} /\ getInformationItems(s, sc) = {}

pruneScope(s, sc, f, full) ==
    LET gone == IF s.fathers[sc] = {f} THEN s.ids[sc] ELSE {full}
        told == IF f = NoScope THEN s
                ELSE notifySubscribers(s, "SCOPE_UNPUBLISHED",
                       {Note(s, sc, gone, getSubscribers(s, f))})
    IN  IF emptyScope(s, sc) /\ ~checkForOtherPubSub(s, sc, f)
        THEN Drop(told, {sc}, f)
        ELSE s

unpublish_scope(s, r) ==
    LET full == FullIDOf(r)
        sc == ScopeAt(s, full)
        t == <<sc, full, r.node, "pub">>
        s1 == unpublishInfos(s, {r.node}, getInformationItems(s, sc),
                             s.ids[sc], sc, FALSE)
    IN  IF sc = NoScope \/ s.strategy[sc] # r.strategy THEN s
        ELSE IF t \notin s1.regs THEN s1
        ELSE pruneScope(Unregister(s1, {t}), sc, ScopeAt(s, r.prefix), full)

unsubscribe_scope(s, r) ==
    LET full == FullIDOf(r)
        sc == ScopeAt(s, full)
        t == <<sc, full, r.node, "sub">>
        s1 == Unregister(s, {t})
        s2 == IF full[1] \in KnownRoots THEN s1
              ELSE rendezvous(s1, getInformationItems(s, sc), TRUE)
    IN  IF \/ sc = NoScope \/ s.strategy[sc] # r.strategy
           \/ t \notin s.regs
        THEN s
        ELSE pruneScope(s2, sc, ScopeAt(s, r.prefix), full)

unsubscribe_info(s, r) ==
    LET full == FullIDOf(r)
        f == ScopeAt(s, r.prefix)
        i == s.pubIndex[full]
        t == <<i, full, r.node, "sub">>
        s1 == Unregister(s, {t})
        s2 == IF Known(s1, i) THEN s1 ELSE rendezvous(s1, {i}, TRUE)
    IN  IF \/ full \notin DOMAIN s.pubIndex \/ s.strategy[f] # r.strategy
           \/ t \notin s.regs
        THEN s
        ELSE IF checkForOtherPubSub(s2, i, f) THEN s2
        ELSE Drop(s2, {i}, f)

-----------------------------------------------------------------------------
(***************************************************************************)
(* LocalRV::push: one request is handled at a time.                        *)
(***************************************************************************)
Start(s) == [s EXCEPT !.rdv = [i \in ItemObj |-> NoRdv], !.notes = {}]

(***************************************************************************)
(* Bounds of the model, never reached in the checked instances: there is   *)
(* an address left to allocate.  The code recurses without end when a      *)
(* scope is put under itself or under one of its own descendants; such     *)
(* requests are left out.                                                  *)
(***************************************************************************)
Handled(s, r) ==
    /\ {o \in ScopeObj : s.ids[o] = {}} # {}
    /\ {o \in ItemObj : s.ids[o] = {}} # {}
    /\ Len(r.id) > 1 /\ ScopeAt(s, r.prefix) # NoScope =>
         \A p \in s.ids[ScopeAt(s, r.prefix)] : ~IsPrefixOf(r.id, p)

Init == rv = EmptyStore

Handle(r, type) == r.type = type /\ Handled(rv, r)

PublishScope(r) ==
    Handle(r, "PUBLISH_SCOPE") /\ rv' = publish_scope(Start(rv), r)
PublishInfo(r) ==
    Handle(r, "PUBLISH_INFO") /\ rv' = publish_info(Start(rv), r)
UnpublishScope(r) ==
    Handle(r, "UNPUBLISH_SCOPE") /\ rv' = unpublish_scope(Start(rv), r)
UnpublishInfo(r) ==
    Handle(r, "UNPUBLISH_INFO") /\ rv' = unpublish_info(Start(rv), r)
SubscribeScope(r) ==
    Handle(r, "SUBSCRIBE_SCOPE") /\ rv' = subscribe_scope(Start(rv), r)
SubscribeInfo(r) ==
    Handle(r, "SUBSCRIBE_INFO") /\ rv' = subscribe_info(Start(rv), r)
UnsubscribeScope(r) ==
    Handle(r, "UNSUBSCRIBE_SCOPE") /\ rv' = unsubscribe_scope(Start(rv), r)
UnsubscribeInfo(r) ==
    Handle(r, "UNSUBSCRIBE_INFO") /\ rv' = unsubscribe_info(Start(rv), r)

\* PUBLISHED_DATA_iSUB: ask the topology manager for paths to the nodes N.
ImplicitSubscription(N) ==
    rv' = [Start(rv) EXCEPT
             !.notes = {[type |-> "MATCH_PUB_iSUBS", ids |-> {}, to |-> N]}]

push(r) ==
    \/ PublishScope(r) \/ PublishInfo(r)
    \/ UnpublishScope(r) \/ UnpublishInfo(r)
    \/ SubscribeScope(r) \/ SubscribeInfo(r)
    \/ UnsubscribeScope(r) \/ UnsubscribeInfo(r)

Next ==
    \/ \E r \in Requests : push(r)
    \/ \E N \in SUBSET Node : ImplicitSubscription(N)

Spec == Init /\ [][Next]_rv

-----------------------------------------------------------------------------
(***************************************************************************)
(* Types.                                                                  *)
(***************************************************************************)
Roles == {"pub", "sub"}

RdvType == [type: {"none", "MATCH_PUB_SUBS", "UPDATE_FID", "START_PUBLISH",
                   "STOP_PUBLISH"},
            pubs: SUBSET Node, subs: SUBSET Node, ids: SUBSET FullID,
            unicast: BOOLEAN]

NoteType == [type: {"SCOPE_PUBLISHED", "SCOPE_UNPUBLISHED",
                    "MATCH_PUB_iSUBS"},
             ids: SUBSET FullID, to: SUBSET Node]

Fields == {"scopeIndex", "pubIndex", "ids", "fathers", "strategy", "regs",
           "host", "rdv", "notes"}

\* The store is well typed: in particular every object an index leads to is
\* of the index's kind, and no index entry is NULL.
StoreType(s) ==
    /\ DOMAIN s = Fields
    /\ DOMAIN s.scopeIndex \subseteq FullID
    /\ \A id \in DOMAIN s.scopeIndex : s.scopeIndex[id] \in ScopeObj
    /\ DOMAIN s.pubIndex \subseteq FullID
    /\ \A id \in DOMAIN s.pubIndex : s.pubIndex[id] \in ItemObj
    /\ s.ids \in [Obj -> SUBSET FullID]
    /\ s.fathers \in [Obj -> SUBSET ScopeObj]
    /\ s.strategy \in [Obj -> Strategies \cup {NoStrategy}]
    /\ s.regs \subseteq Obj \X FullID \X Node \X Roles
    /\ s.host \subseteq Node \X {"scope", "item"} \X FullID \X Roles
    /\ s.rdv \in [ItemObj -> RdvType]
    /\ s.notes \subseteq NoteType

TypeOK == StoreType(rv)

(***************************************************************************)
(* The graph.                                                              *)
(***************************************************************************)

\* What a hash table finds under an ID is an object that carries the ID.
IndexLeads(s) ==
    /\ \A id \in DOMAIN s.scopeIndex : id \in s.ids[s.scopeIndex[id]]
    /\ \A id \in DOMAIN s.pubIndex : id \in s.ids[s.pubIndex[id]]

\* The two hash tables and the ids of the objects agree: moreover, every ID an
\* object carries leads to that object.
IndexAgrees(s) ==
    /\ IndexLeads(s)
    /\ \A o \in ScopeObj : \A id \in s.ids[o] :
          id \in DOMAIN s.scopeIndex /\ s.scopeIndex[id] = o
    /\ \A o \in ItemObj : \A id \in s.ids[o] :
          id \in DOMAIN s.pubIndex /\ s.pubIndex[id] = o

\* No ID is that of a scope and of an information item.
KindsDisjoint(s) == DOMAIN s.scopeIndex \cap DOMAIN s.pubIndex = {}

\* All IDs of an object end in the same fragment.
OneSuffix(s) ==
    \A o \in Obj : \A id1, id2 \in s.ids[o] : Suffix(id1) = Suffix(id2)

\* An object has an ID exactly under every ID of every father; an object
\* without fathers is a root scope, whose IDs have one fragment.
PathsComplete(s) ==
    \A o \in Obj :
      /\ \A id \in s.ids[o] :
            \/ s.fathers[o] = {} /\ o \in ScopeObj /\ Len(id) = 1
            \/ Len(id) > 1 /\ \E f \in s.fathers[o] : Prefix(id) \in s.ids[f]
      /\ \A f \in s.fathers[o] :
            /\ s.ids[f] # {}
            /\ s.ids[o] # {}
            /\ \A p \in s.ids[f], id \in s.ids[o] :
                  Append(p, Suffix(id)) \in s.ids[o]

\* Publishers and subscribers are kept for IDs the object has.
RegsLive(s) == \A t \in s.regs : t[2] \in s.ids[t[1]]

\* The four sets of every RemoteHost mirror the pairs of the objects: what a
\* node has published and subscribed to is what the graph says it has.
HostsMirror(s) ==
    /\ \A t \in s.regs : HostEntry(t) \in s.host
    /\ \A h \in s.host : \E t \in s.regs : HostEntry(t) = h

\* The information graph is well formed (the conjuncts above): the handlers
\* dereference the father found by prefix and the pair found by ID unchecked.
GraphInv == /\ IndexAgrees(rv) /\ KindsDisjoint(rv) /\ OneSuffix(rv)
            /\ PathsComplete(rv) /\ RegsLive(rv)

\* What the nodes are recorded to have done mirrors the graph.
HostInv == HostsMirror(rv)

(***************************************************************************)
(* What the rendezvous point promises to the nodes.                        *)
(***************************************************************************)

\* A subscription ends only by an unsubscription of its own node for its own
\* ID, whatever happens to the graph around it.
SubscriptionsKept ==
    \A t \in rv.regs \ rv'.regs :
      t[4] = "sub" =>
        \E r \in Requests : /\ r.node = t[3] /\ FullIDOf(r) = t[2]
                            /\ UnsubscribeScope(r) \/ UnsubscribeInfo(r)

\* A publication ends only by an unpublication of its own node (of the object
\* or of the scope an item is in) or, for the *-over-ICN items, because the
\* step matched it: the rendezvous request of the step lists its publisher.
PublicationsKept ==
    \A t \in rv.regs \ rv'.regs :
      t[4] = "pub" =>
        \/ /\ t[1] \in ItemObj /\ rv'.rdv[t[1]].unicast
           /\ t[3] \in rv'.rdv[t[1]].pubs /\ rv'.rdv[t[1]].subs # {}
        \/ \E r \in Requests :
             /\ r.node = t[3]
             /\ FullIDOf(r) = t[2] \/ r.type = "UNPUBLISH_SCOPE"
             /\ UnpublishScope(r) \/ UnpublishInfo(r)

\* Whoever becomes a subscriber of a scope that has subscopes, or subscribes
\* to a scope that gains one, is sent an ID of that subscope in that step.
SubscopesAnnounced ==
    \A c \in ScopeObj : \A f \in rv'.fathers[c] :
    \A n \in Recipients(rv'.strategy[c], getSubscribers(rv', f)) :
      ~(f \in rv.fathers[c] /\ n \in getSubscribers(rv, f))
      => \E m \in rv'.notes : /\ m.type = "SCOPE_PUBLISHED" /\ n \in m.to
                              /\ m.ids \cap rv'.ids[c] # {}

(***************************************************************************)
(* The topology manager (or the local publisher) learns of every change:   *)
(* when a step changes the publishers of an item that still has some, or   *)
(* adds a subscriber, the step's rendezvous request carries the publishers *)
(* and IDs the item now has and every subscriber it now has.  (A publisher *)
(* that leaves a *-over-ICN item ends its own request only.)               *)
(***************************************************************************)
RendezvousKeepsUp ==
    \A i \in ItemObj :
      LET pubs == getPublishers(rv', i)
          subs == Interested(rv', i)
          sent == rv'.rdv[i]
      IN  /\ pubs # {}
          /\ \/ ~(pubs \subseteq getPublishers(rv, i))
             \/ ~(subs \subseteq Interested(rv, i))
             \/ pubs # getPublishers(rv, i) /\ ~Known(rv, i)
          => sent.pubs = pubs /\ subs \subseteq sent.subs
             /\ sent.ids = rv'.ids[i]

\* Every object has the strategy of the scopes it is in, as long as no object
\* is published again under a scope of another strategy.
StrategyInv ==
    \A o \in Obj : \A f \in rv.fathers[o] : rv.strategy[o] = rv.strategy[f]

\* One-shot semantics of *-over-ICN: no item under a known root is left with
\* both a publisher and somebody interested in it.
OneShot ==
    \A i \in ItemObj :
      Known(rv, i) => getPublishers(rv, i) = {} \/ Interested(rv, i) = {}

\* The store is what the handlers take for granted when they dereference what
\* a hash table returned: well typed, a well-formed graph, mirrored by the
\* records of the nodes, of one strategy under each root.
StoreConsistent == TypeOK /\ GraphInv /\ HostInv /\ StrategyInv

\* What a node publishes or subscribes to ends by its own request only, or
\* with the match of a *-over-ICN item (unpublishInfo, unsubscribeScope and
\* the removal of empty scopes around them).
RegistrationsKept == [][SubscriptionsKept /\ PublicationsKept]_rv

\* Every change that somebody waits for is sent in the step that makes it: new
\* subscopes to the subscribers, new publishers and subscribers of an item to
\* the topology manager (notifySubscribers, rendezvous).
ChangesAnnounced == [][SubscopesAnnounced /\ RendezvousKeepsUp]_rv
=============================================================================
