--------------------------- MODULE LocalRV_proofs ---------------------------
(***************************************************************************)
(* Proofs about the rendezvous point, for all sets of nodes, fragments,    *)
(* addresses and requests.                                                 *)
(***************************************************************************)
EXTENDS LocalRV, TLAPS, SequenceTheorems

(***************************************************************************)
(* The inductive invariant: the type of the store, and that what an index  *)
(* finds under an ID carries that ID.  Without the second part a handler   *)
(* that creates an object under the scope found by prefix could not be     *)
(* shown to find it in the index afterwards.                               *)
(***************************************************************************)
Good(s) == StoreType(s) /\ IndexLeads(s)

\* The same, field by field.
IDsType == [Obj -> SUBSET FullID]
FathersType == [Obj -> SUBSET ScopeObj]
StrategyType == [Obj -> Strategies \cup {NoStrategy}]
RegsType == SUBSET (Obj \X FullID \X Node \X Roles)
HostType == SUBSET (Node \X {"scope", "item"} \X FullID \X Roles)
RdvsType == [ItemObj -> RdvType]
IndexOK(index, ids, S) ==
    /\ DOMAIN index \subseteq FullID
    /\ \A id \in DOMAIN index : index[id] \in S /\ id \in ids[index[id]]

LEMMA GoodFields ==
    ASSUME NEW s
    PROVE  Good(s) <=> /\ DOMAIN s = Fields
                       /\ IndexOK(s.scopeIndex, s.ids, ScopeObj)
                       /\ IndexOK(s.pubIndex, s.ids, ItemObj)
                       /\ s.ids \in IDsType
                       /\ s.fathers \in FathersType
                       /\ s.strategy \in StrategyType
                       /\ s.regs \in RegsType
                       /\ s.host \in HostType
                       /\ s.rdv \in RdvsType
                       /\ s.notes \in SUBSET NoteType
  BY DEF Good, StoreType, IndexLeads, IndexOK, IDsType, FathersType,
         StrategyType, RegsType, HostType, RdvsType

(***************************************************************************)
(* AddIDs: what each field of the new store is, and that it is good.       *)
(***************************************************************************)
Extended(index, G, S) ==
    [id \in DOMAIN index \cup UNION {G[o] : o \in S} |->
       IF \E o \in S : id \in G[o] THEN CHOOSE o \in S : id \in G[o]
                                   ELSE index[id]]

MoreIDs(ids, G) == [o \in Obj |-> ids[o] \cup G[o]]

LEMMA AddIDsFields ==
    ASSUME NEW s, DOMAIN s = Fields, NEW G
    PROVE  LET t == AddIDs(s, G)
           IN  /\ DOMAIN t = Fields
               /\ t.ids = MoreIDs(s.ids, G)
               /\ t.scopeIndex = Extended(s.scopeIndex, G, ScopeObj)
               /\ t.pubIndex = Extended(s.pubIndex, G, ItemObj)
               /\ t.fathers = s.fathers
               /\ t.strategy = s.strategy
               /\ t.regs = s.regs
               /\ t.host = s.host
               /\ t.rdv = s.rdv
               /\ t.notes = s.notes
  BY DEF AddIDs, Fields, Extended, MoreIDs

LEMMA ExtendedOK ==
    ASSUME NEW index, NEW S, NEW ids \in IDsType, NEW G \in IDsType,
           S \subseteq Obj, IndexOK(index, ids, S)
    PROVE  /\ IndexOK(Extended(index, G, S), MoreIDs(ids, G), S)
           /\ \A o \in S : G[o] \subseteq DOMAIN Extended(index, G, S)
<1> DEFINE D == DOMAIN index \cup UNION {G[o] : o \in S}
           e == Extended(index, G, S)
<1>1. DOMAIN e = D
  BY DEF Extended
<1>2. D \subseteq FullID
  BY DEF IDsType, IndexOK
<1>3. ASSUME NEW id \in D PROVE e[id] \in S /\ id \in ids[e[id]] \cup G[e[id]]
  <2>1. CASE \E o \in S : id \in G[o]
    <3>1. e[id] = CHOOSE o \in S : id \in G[o]
      BY <2>1 DEF Extended
    <3> QED
      BY <2>1, <3>1
  <2>2. CASE ~ \E o \in S : id \in G[o]
    <3>1. e[id] = index[id] /\ id \in DOMAIN index
      BY <2>2 DEF Extended
    <3> QED
      BY <3>1 DEF IndexOK
  <2> QED
    BY <2>1, <2>2
<1> QED
  BY <1>1, <1>2, <1>3 DEF IndexOK, MoreIDs

LEMMA AddIDsGood ==
    ASSUME NEW s, Good(s), NEW G \in IDsType
    PROVE  /\ Good(AddIDs(s, G))
           /\ \A o \in ScopeObj : G[o] \subseteq DOMAIN AddIDs(s, G).scopeIndex
           /\ \A o \in ItemObj : G[o] \subseteq DOMAIN AddIDs(s, G).pubIndex
<1> DEFINE t == AddIDs(s, G)
<1>1. DOMAIN s = Fields /\ s.ids \in IDsType
  BY GoodFields
<1>2. /\ DOMAIN t = Fields
      /\ t.ids = MoreIDs(s.ids, G)
      /\ t.scopeIndex = Extended(s.scopeIndex, G, ScopeObj)
      /\ t.pubIndex = Extended(s.pubIndex, G, ItemObj)
      /\ t.fathers = s.fathers
      /\ t.strategy = s.strategy
      /\ t.regs = s.regs
      /\ t.host = s.host
      /\ t.rdv = s.rdv
      /\ t.notes = s.notes
  BY <1>1, AddIDsFields
<1> HIDE DEF t
<1>3. ScopeObj \subseteq Obj /\ ItemObj \subseteq Obj
  BY DEF Obj
<1>4. /\ IndexOK(t.scopeIndex, t.ids, ScopeObj)
      /\ \A o \in ScopeObj : G[o] \subseteq DOMAIN t.scopeIndex
  BY <1>1, <1>2, <1>3, GoodFields, ExtendedOK
<1>5. /\ IndexOK(t.pubIndex, t.ids, ItemObj)
      /\ \A o \in ItemObj : G[o] \subseteq DOMAIN t.pubIndex
  BY <1>1, <1>2, <1>3, GoodFields, ExtendedOK
<1>6. t.ids \in IDsType
  BY <1>1, <1>2 DEF IDsType, MoreIDs
<1>7. Good(t)
  BY <1>2, <1>4, <1>5, <1>6, GoodFields
<1> QED
  BY <1>4, <1>5, <1>7 DEF t

(***************************************************************************)
(* The other primitives that change the store.                             *)
(***************************************************************************)
LEMMA InitGood == Good(EmptyStore)
<1> DEFINE s == EmptyStore
<1>1. /\ DOMAIN s = Fields
      /\ s.scopeIndex = [id \in {} |-> NoScope]
      /\ s.pubIndex = [id \in {} |-> NoScope]
      /\ s.ids = [o \in Obj |-> {}]
      /\ s.fathers = [o \in Obj |-> {}]
      /\ s.strategy = [o \in Obj |-> NoStrategy]
      /\ s.regs = {} /\ s.host = {} /\ s.notes = {}
      /\ s.rdv = [i \in ItemObj |-> NoRdv]
  BY DEF EmptyStore, Fields
<1> HIDE DEF s
<1>2. IndexOK(s.scopeIndex, s.ids, ScopeObj) /\ IndexOK(s.pubIndex, s.ids, ItemObj)
  BY <1>1 DEF IndexOK
<1>3. s.ids \in IDsType /\ s.fathers \in FathersType /\ s.strategy \in StrategyType
  BY <1>1 DEF IDsType, FathersType, StrategyType
<1>4. NoRdv \in RdvType
  BY DEF NoRdv, RdvType
<1>5. /\ s.regs \in RegsType /\ s.host \in HostType /\ s.rdv \in RdvsType
      /\ s.notes \in SUBSET NoteType
  BY <1>1, <1>4 DEF RegsType, HostType, RdvsType
<1> QED
  BY <1>1, <1>2, <1>3, <1>5, GoodFields, Zenon DEF s

LEMMA StartGood ==
    ASSUME NEW s, Good(s)
    PROVE  Good(Start(s))
<1> DEFINE t == Start(s)
<1>1. /\ DOMAIN t = Fields /\ t.scopeIndex = s.scopeIndex
      /\ t.pubIndex = s.pubIndex /\ t.ids = s.ids /\ t.fathers = s.fathers
      /\ t.strategy = s.strategy /\ t.regs = s.regs /\ t.host = s.host
      /\ t.rdv = [i \in ItemObj |-> NoRdv] /\ t.notes = {}
  BY GoodFields DEF Start, Fields
<1>2. t.rdv \in RdvsType
  BY <1>1 DEF RdvsType, RdvType, NoRdv
<1> QED
  BY <1>1, <1>2, GoodFields

Reg == Obj \X FullID \X Node \X Roles

LEMMA RegisterGood ==
    ASSUME NEW s, Good(s), NEW r \in Reg
    PROVE  /\ Good(Register(s, r))
           /\ Register(s, r).ids = s.ids
           /\ Register(s, r).scopeIndex = s.scopeIndex
           /\ Register(s, r).pubIndex = s.pubIndex
<1> DEFINE t == Register(s, r)
<1>1. /\ DOMAIN t = Fields /\ t.scopeIndex = s.scopeIndex
      /\ t.pubIndex = s.pubIndex /\ t.ids = s.ids /\ t.fathers = s.fathers
      /\ t.strategy = s.strategy /\ t.regs = s.regs \cup {r}
      /\ t.host = s.host \cup {HostEntry(r)}
      /\ t.rdv = s.rdv /\ t.notes = s.notes
  BY GoodFields DEF Register, Fields
<1>2. t.regs \in RegsType
  BY <1>1, GoodFields DEF RegsType, Reg
<1>3. HostEntry(r) \in Node \X {"scope", "item"} \X FullID \X Roles
  BY DEF HostEntry, Kind, Reg
<1>4. t.host \in HostType
  BY <1>1, <1>3, GoodFields DEF HostType
<1> QED
  BY <1>1, <1>2, <1>4, GoodFields, Zenon

LEMMA UnregisterGood ==
    ASSUME NEW s, Good(s), NEW T
    PROVE  /\ Good(Unregister(s, T))
           /\ Unregister(s, T).ids = s.ids
           /\ Unregister(s, T).scopeIndex = s.scopeIndex
           /\ Unregister(s, T).pubIndex = s.pubIndex
<1> DEFINE t == Unregister(s, T)
<1>1. /\ DOMAIN t = Fields /\ t.scopeIndex = s.scopeIndex
      /\ t.pubIndex = s.pubIndex /\ t.ids = s.ids /\ t.fathers = s.fathers
      /\ t.strategy = s.strategy /\ t.regs = s.regs \ T
      /\ t.host = s.host \ {HostEntry(x) : x \in T}
      /\ t.rdv = s.rdv /\ t.notes = s.notes
  BY GoodFields DEF Unregister, Fields
<1>2. t.regs \in RegsType /\ t.host \in HostType
  BY <1>1, GoodFields DEF RegsType, HostType
<1> QED
  BY <1>1, <1>2, GoodFields, Zenon

LEMMA RdvOfType ==
    ASSUME NEW s, Good(s), NEW i \in ItemObj, NEW u \in BOOLEAN
    PROVE  RdvOf(s, i, u) \in RdvType
<1>1. getPublishers(s, i) \in SUBSET Node
  BY DEF getPublishers, Registered
<1>2. Interested(s, i) \in SUBSET Node
  BY DEF Interested, getSubscribers, Registered
<1>3. s.ids[i] \in SUBSET FullID
  BY GoodFields DEF IDsType, Obj
<1>4. (s.strategy[i] = "DOMAIN_LOCAL" /\ Known(s, i)) \in BOOLEAN
  OBVIOUS
<1> QED
  BY <1>1, <1>2, <1>3, <1>4 DEF RdvOf, RdvType

LEMMA RendezvousGood ==
    ASSUME NEW s, Good(s), NEW I, NEW u \in BOOLEAN
    PROVE  /\ Good(rendezvous(s, I, u))
           /\ rendezvous(s, I, u).ids = s.ids
           /\ rendezvous(s, I, u).scopeIndex = s.scopeIndex
           /\ rendezvous(s, I, u).pubIndex = s.pubIndex
<1> DEFINE t == rendezvous(s, I, u)
<1>1. /\ DOMAIN t = Fields /\ t.scopeIndex = s.scopeIndex
      /\ t.pubIndex = s.pubIndex /\ t.ids = s.ids /\ t.fathers = s.fathers
      /\ t.strategy = s.strategy /\ t.regs = s.regs /\ t.host = s.host
      /\ t.rdv = [i \in ItemObj |->
                    IF i \in I /\ getPublishers(s, i) # {} THEN RdvOf(s, i, u)
                                                           ELSE s.rdv[i]]
      /\ t.notes = s.notes
  BY GoodFields DEF rendezvous, Fields
<1>2. t.rdv \in RdvsType
  <2>1. s.rdv \in RdvsType
    BY GoodFields
  <2> QED
    BY <1>1, <2>1, RdvOfType DEF RdvsType
<1> QED
  BY <1>1, <1>2, GoodFields

NoteBody == [ids: SUBSET FullID, to: SUBSET Node]

LEMMA NotifyGood ==
    ASSUME NEW s, Good(s), NEW N \in SUBSET NoteBody,
           NEW type \in {"SCOPE_PUBLISHED", "SCOPE_UNPUBLISHED"}
    PROVE  /\ Good(notifySubscribers(s, type, N))
           /\ notifySubscribers(s, type, N).ids = s.ids
           /\ notifySubscribers(s, type, N).scopeIndex = s.scopeIndex
           /\ notifySubscribers(s, type, N).pubIndex = s.pubIndex
<1> DEFINE t == notifySubscribers(s, type, N)
           M == {[type |-> type, ids |-> n.ids, to |-> n.to] :
                   n \in {m \in N : m.to # {}}}
<1>1. /\ DOMAIN t = Fields /\ t.scopeIndex = s.scopeIndex
      /\ t.pubIndex = s.pubIndex /\ t.ids = s.ids /\ t.fathers = s.fathers
      /\ t.strategy = s.strategy /\ t.regs = s.regs /\ t.host = s.host
      /\ t.rdv = s.rdv /\ t.notes = s.notes \cup M
  BY GoodFields DEF notifySubscribers, Fields
<1>2. M \subseteq NoteType
  BY DEF NoteBody, NoteType
<1>3. t.notes \in SUBSET NoteType
  BY <1>1, <1>2, GoodFields
<1> QED
  BY <1>1, <1>3, GoodFields

LEMMA NoteIsBody ==
    ASSUME NEW s, NEW c, NEW idSet \in SUBSET FullID, NEW subs \in SUBSET Node
    PROVE  Note(s, c, idSet, subs) \in NoteBody
  BY DEF Note, NoteBody, Recipients


LEMMA DropGood ==
    ASSUME NEW s, Good(s), NEW K, NEW f
    PROVE  Good(Drop(s, K, f))
<1> DEFINE t == Drop(s, K, f)
           last(o) == s.fathers[o] \subseteq {f}
           lost(o) == IF o \notin K THEN {}
                      ELSE IF last(o) THEN s.ids[o] ELSE BranchIDs(s, o, f)
           keep(index, S) ==
             [id \in DOMAIN index \ UNION {lost(o) : o \in S} |-> index[id]]
           ids == [o \in Obj |-> s.ids[o] \ lost(o)]
<1>1. /\ DOMAIN t = Fields /\ t.rdv = s.rdv /\ t.notes = s.notes
      /\ t.scopeIndex = keep(s.scopeIndex, ScopeObj)
      /\ t.pubIndex = keep(s.pubIndex, ItemObj)
      /\ t.ids = ids
      /\ t.host = s.host
  BY GoodFields DEF Drop, Fields
<1>2. /\ t.fathers = [o \in Obj |-> IF o \in K THEN s.fathers[o] \ {f}
                                               ELSE s.fathers[o]]
      /\ t.strategy = [o \in Obj |-> IF o \in K /\ last(o) THEN NoStrategy
                                                           ELSE s.strategy[o]]
      /\ t.regs = {x \in s.regs : x[2] \notin lost(x[1])}
  BY GoodFields DEF Drop, Fields
<1> HIDE DEF t, lost, last
<1>3. ASSUME NEW index, NEW S, S \subseteq Obj, IndexOK(index, s.ids, S)
      PROVE  IndexOK(keep(index, S), ids, S)
  BY <1>3 DEF IndexOK
<1> HIDE DEF keep, ids
<1>4. IndexOK(t.scopeIndex, t.ids, ScopeObj)
  BY <1>1, <1>3, GoodFields DEF Obj
<1>5. IndexOK(t.pubIndex, t.ids, ItemObj)
  BY <1>1, <1>3, GoodFields DEF Obj
<1>6. t.ids \in IDsType
  BY <1>1, GoodFields DEF IDsType, ids
<1>7. t.fathers \in FathersType
  BY <1>2, GoodFields DEF FathersType
<1>8. t.strategy \in StrategyType
  BY <1>2, GoodFields DEF StrategyType
<1>9. t.regs \in RegsType
  BY <1>2, GoodFields DEF RegsType
<1> QED
  BY <1>1, <1>4, <1>5, <1>6, <1>7, <1>8, <1>9, GoodFields DEF t

LEMMA NewObjectGood ==
    ASSUME NEW s, Good(s), NEW o \in Obj, NEW fs \in SUBSET ScopeObj,
           NEW strategy \in Strategies \cup {NoStrategy},
           NEW newIDs \in SUBSET FullID
    PROVE  LET t == NewObject(s, o, fs, strategy, newIDs)
           IN  /\ Good(t)
               /\ o \in ScopeObj => newIDs \subseteq DOMAIN t.scopeIndex
               /\ o \in ItemObj => newIDs \subseteq DOMAIN t.pubIndex
<1> DEFINE u == [s EXCEPT !.fathers[o] = fs, !.strategy[o] = strategy]
           G == [x \in Obj |-> IF x = o THEN newIDs ELSE {}]
<1>1. /\ DOMAIN u = Fields /\ u.scopeIndex = s.scopeIndex
      /\ u.pubIndex = s.pubIndex /\ u.ids = s.ids
      /\ u.fathers = [s.fathers EXCEPT ![o] = fs]
      /\ u.strategy = [s.strategy EXCEPT ![o] = strategy]
      /\ u.regs = s.regs /\ u.host = s.host
      /\ u.rdv = s.rdv /\ u.notes = s.notes
  BY GoodFields DEF Fields
<1>2. u.fathers \in FathersType /\ u.strategy \in StrategyType
  BY <1>1, GoodFields DEF FathersType, StrategyType
<1>3. Good(u)
  BY <1>1, <1>2, GoodFields, Zenon
<1>4. G \in IDsType
  BY DEF IDsType
<1>5. NewObject(s, o, fs, strategy, newIDs) = AddIDs(u, G)
  BY DEF NewObject
<1>6. G[o] = newIDs
  OBVIOUS
<1> HIDE DEF u, G
<1> QED
  BY <1>3, <1>4, <1>5, <1>6, AddIDsGood

(***************************************************************************)
(* IDs.                                                                    *)
(***************************************************************************)
LEMMA SuffixType ==
    ASSUME NEW id \in FullID
    PROVE  Suffix(id) \in Fragment
<1>1. id \in Seq(Fragment) /\ id # <<>>
  BY DEF FullID
<1>2. Len(id) \in 1 .. Len(id)
  BY <1>1
<1> QED
  BY <1>1, <1>2 DEF Suffix

LEMMA AppendType ==
    ASSUME NEW p \in Seq(Fragment), NEW x \in Fragment
    PROVE  Append(p, x) \in FullID
  BY AppendProperties DEF FullID

LEMMA IDsUnderType ==
    ASSUME NEW s, Good(s), NEW f \in ScopeObj, NEW x \in Fragment
    PROVE  IDsUnder(s, f, x) \in SUBSET FullID
<1>1. s.ids[f] \subseteq Seq(Fragment)
  BY GoodFields DEF IDsType, Obj, FullID
<1> QED
  BY <1>1, AppendType, Zenon DEF IDsUnder

LEMMA MovedType ==
    ASSUME NEW p \in Seq(Fragment), NEW old \in FullID, NEW d \in FullID
    PROVE  Moved(p, old, d) \in FullID
<1>1. Append(p, Suffix(old)) \in Seq(Fragment) \ {<<>>}
  BY SuffixType, AppendType DEF FullID
<1>2. SubSeq(d, Len(old) + 1, Len(d)) \in Seq(Fragment)
  BY DEF FullID
<1> QED
  BY <1>1, <1>2 DEF FullID, Moved

LEMMA GainedType ==
    ASSUME NEW s, Good(s), NEW f \in ScopeObj, NEW old \in FullID
    PROVE  GainedIDs(s, f, old) \in IDsType
<1>1. s.ids[f] \subseteq Seq(Fragment)
  BY GoodFields DEF IDsType, Obj, FullID
<1>2. \A y \in Obj : s.ids[y] \subseteq FullID
  BY GoodFields DEF IDsType
<1> QED
  BY <1>1, <1>2, MovedType DEF GainedIDs, IDsType

\* An object put under f as well has, at the ID of f, the ID it is put at.
LEMMA GainedAt ==
    ASSUME NEW s, NEW f, NEW x \in Obj, NEW old \in s.ids[x], old \in FullID,
           NEW p \in s.ids[f], p \in Seq(Fragment)
    PROVE  Append(p, Suffix(old)) \in GainedIDs(s, f, old)[x]
<1>1. old \in Seq(Fragment)
  BY DEF FullID
<1>2. IsPrefixOf(old, old)
  BY <1>1 DEF IsPrefixOf
<1>3. SubSeq(old, Len(old) + 1, Len(old)) = <<>>
  BY <1>1
<1>4. Append(p, Suffix(old)) \in Seq(Fragment)
  BY SuffixType
<1>5. Moved(p, old, old) = Append(p, Suffix(old))
  BY <1>3, <1>4 DEF Moved
<1> QED
  BY <1>2, <1>5 DEF GainedIDs


(***************************************************************************)
(* Looking up and creating objects.                                        *)
(***************************************************************************)
LEMMA RequestFacts ==
    ASSUME NEW r \in Request
    PROVE  /\ FullIDOf(r) \in FullID /\ r.prefix \in Seq(Fragment)
           /\ r.id \in FullID /\ r.node \in Node /\ r.strategy \in Strategies
           /\ Suffix(r.id) \in Fragment /\ Suffix(FullIDOf(r)) \in Fragment
           /\ Suffix(FullIDOf(r)) = Suffix(r.id)
<1>1. /\ r.prefix \in Seq(Fragment) /\ r.id \in FullID /\ r.node \in Node
      /\ r.strategy \in Strategies
  BY DEF Request
<1>2. Suffix(r.id) \in Fragment
  BY <1>1, SuffixType
<1>3. FullIDOf(r) \in FullID
  BY <1>1, <1>2, AppendType DEF FullIDOf
<1>4. Suffix(FullIDOf(r)) = Suffix(r.id)
  BY <1>1, <1>2 DEF FullIDOf, Suffix
<1> QED
  BY <1>1, <1>2, <1>3, <1>4

LEMMA ScopeAtFacts ==
    ASSUME NEW s, Good(s), NEW id
    PROVE  /\ ScopeAt(s, id) # NoScope <=> id \in DOMAIN s.scopeIndex
           /\ ScopeAt(s, id) # NoScope =>
                /\ ScopeAt(s, id) \in ScopeObj
                /\ ScopeAt(s, id) = s.scopeIndex[id]
                /\ id \in s.ids[ScopeAt(s, id)]
<1>1. IndexOK(s.scopeIndex, s.ids, ScopeObj)
  BY GoodFields
<1>2. NoScope \notin ScopeObj
  BY ObjAssumption DEF Obj
<1> QED
  BY <1>1, <1>2 DEF ScopeAt, IndexOK

LEMMA ItemAtFacts ==
    ASSUME NEW s, Good(s), NEW id \in DOMAIN s.pubIndex
    PROVE  s.pubIndex[id] \in ItemObj /\ id \in s.ids[s.pubIndex[id]]
  BY GoodFields DEF IndexOK

FreeScope(s) == {o \in ScopeObj : s.ids[o] = {}} # {}
FreeItem(s) == {o \in ItemObj : s.ids[o] = {}} # {}

LEMMA FreshFree ==
    ASSUME NEW s, NEW A, NEW newIDs, {o \in A : s.ids[o] = {}} # {}
    PROVE  Fresh(s, A, newIDs) \in A /\ s.ids[Fresh(s, A, newIDs)] = {}
<1> DEFINE free == {o \in A : s.ids[o] = {}}
<1>1. \E o \in free : free \cap newIDs # {} => o \in newIDs
  OBVIOUS
<1>2. Fresh(s, A, newIDs) \in free
  BY <1>1 DEF Fresh
<1> QED
  BY <1>2

LEMMA NewRootScopeGood ==
    ASSUME NEW s, Good(s), FreeScope(s), NEW id \in FullID,
           NEW strategy \in Strategies
    PROVE  /\ Good(NewRootScope(s, id, strategy))
           /\ id \in DOMAIN NewRootScope(s, id, strategy).scopeIndex
<1>1. Fresh(s, ScopeObj, {id}) \in ScopeObj
  BY FreshFree DEF FreeScope
<1> QED
  BY <1>1, NewObjectGood, Zenon DEF NewRootScope, Obj

LEMMA NewInnerScopeGood ==
    ASSUME NEW s, Good(s), FreeScope(s), NEW f \in ScopeObj, NEW x \in Fragment,
           NEW strategy \in Strategies
    PROVE  /\ Good(NewInnerScope(s, f, x, strategy))
           /\ \A p \in s.ids[f] :
                Append(p, x) \in DOMAIN NewInnerScope(s, f, x, strategy).scopeIndex
<1>1. Fresh(s, ScopeObj, IDsUnder(s, f, x)) \in ScopeObj
  BY FreshFree DEF FreeScope
<1>2. IDsUnder(s, f, x) \in SUBSET FullID
  BY IDsUnderType
<1>3. \A p \in s.ids[f] : Append(p, x) \in IDsUnder(s, f, x)
  BY DEF IDsUnder
<1> QED
  BY <1>1, <1>2, <1>3, NewObjectGood, Zenon DEF NewInnerScope, Obj

LEMMA NewItemGood ==
    ASSUME NEW s, Good(s), FreeItem(s), NEW f \in ScopeObj, NEW x \in Fragment
    PROVE  /\ Good(NewItem(s, f, x))
           /\ \A p \in s.ids[f] : Append(p, x) \in DOMAIN NewItem(s, f, x).pubIndex
<1>1. Fresh(s, ItemObj, IDsUnder(s, f, x)) \in ItemObj
  BY FreshFree DEF FreeItem
<1>2. IDsUnder(s, f, x) \in SUBSET FullID
  BY IDsUnderType
<1>3. \A p \in s.ids[f] : Append(p, x) \in IDsUnder(s, f, x)
  BY DEF IDsUnder
<1>4. s.strategy[f] \in Strategies \cup {NoStrategy}
  BY GoodFields DEF StrategyType, Obj
<1> QED
  BY <1>1, <1>2, <1>3, <1>4, NewObjectGood, Zenon DEF NewItem, Obj

LEMMA LinkGood ==
    ASSUME NEW s, Good(s), NEW x \in Obj, NEW f \in ScopeObj,
           NEW old \in s.ids[x]
    PROVE  /\ Good(Link(s, x, f, old))
           /\ \A p \in s.ids[f] :
                /\ x \in ScopeObj =>
                     Append(p, Suffix(old)) \in DOMAIN Link(s, x, f, old).scopeIndex
                /\ x \in ItemObj =>
                     Append(p, Suffix(old)) \in DOMAIN Link(s, x, f, old).pubIndex
<1> DEFINE u == [s EXCEPT !.fathers[x] = @ \cup {f}]
           G == GainedIDs(s, f, old)
<1>1. /\ DOMAIN u = Fields /\ u.scopeIndex = s.scopeIndex
      /\ u.pubIndex = s.pubIndex /\ u.ids = s.ids
      /\ u.fathers = [s.fathers EXCEPT ![x] = @ \cup {f}]
      /\ u.strategy = s.strategy
      /\ u.regs = s.regs /\ u.host = s.host
      /\ u.rdv = s.rdv /\ u.notes = s.notes
  BY GoodFields DEF Fields
<1>2. u.fathers \in FathersType
  BY <1>1, GoodFields DEF FathersType
<1>3. Good(u)
  BY <1>1, <1>2, GoodFields, Zenon
<1>4. old \in FullID /\ s.ids[f] \subseteq Seq(Fragment)
  BY GoodFields DEF IDsType, Obj, FullID
<1>5. G \in IDsType
  BY <1>4, GainedType
<1>6. \A p \in s.ids[f] : Append(p, Suffix(old)) \in G[x]
  BY <1>4, GainedAt
<1>7. Link(s, x, f, old) = AddIDs(u, G)
  BY DEF Link
<1> HIDE DEF u, G
<1> QED
  BY <1>3, <1>5, <1>6, <1>7, AddIDsGood


(***************************************************************************)
(* The handlers.                                                           *)
(***************************************************************************)
LEMMA UnpublishInfosGood ==
    ASSUME NEW s, Good(s), NEW N, NEW I, NEW P, NEW f, NEW u \in BOOLEAN
    PROVE  Good(unpublishInfos(s, N, I, P, f, u))
  BY UnregisterGood, DropGood, RendezvousGood DEF unpublishInfos

LEMMA MatchGood ==
    ASSUME NEW s, Good(s), NEW I, NEW f, NEW prefix
    PROVE  Good(match(s, I, f, prefix))
  BY RendezvousGood, UnpublishInfosGood, Zenon DEF match

LEMMA UnpublishInfoGood ==
    ASSUME NEW s, Good(s), NEW r \in Request
    PROVE  Good(unpublish_info(s, r))
  BY UnpublishInfosGood, Zenon DEF unpublish_info

\* Registering with a scope that exists.
LEMMA ScopeUserGood ==
    ASSUME NEW s, Good(s), NEW r \in Request, NEW sc \in ScopeObj
    PROVE  /\ Good(addScopePublisher(s, sc, r))
           /\ Good(addScopeSubscriber(s, sc, r))
           /\ addScopePublisher(s, sc, r).ids = s.ids
           /\ addScopeSubscriber(s, sc, r).ids = s.ids
<1>1. /\ <<sc, FullIDOf(r), r.node, "pub">> \in Reg
      /\ <<sc, FullIDOf(r), r.node, "sub">> \in Reg
  BY RequestFacts DEF Reg, Obj, Roles
<1> QED
  BY <1>1, RegisterGood DEF addScopePublisher, addScopeSubscriber

LEMMA SubscribersAreNodes ==
    ASSUME NEW s, NEW o
    PROVE  getSubscribers(s, o) \in SUBSET Node
  BY DEF getSubscribers, Registered

LEMMA AnnounceGood ==
    ASSUME NEW s, Good(s), NEW r, NEW idSet \in SUBSET FullID
    PROVE  Good(announce(s, r, idSet))
  BY NotifyGood, NoteIsBody, SubscribersAreNodes DEF announce

LEMMA PublishRootScopeGood ==
    ASSUME NEW s, Good(s), FreeScope(s), NEW r \in Request
    PROVE  Good(publish_root_scope(s, r))
<1> DEFINE full == FullIDOf(r)
           sc == ScopeAt(s, full)
           new == NewRootScope(s, full, r.strategy)
<1>1. CASE sc = NoScope
  <2>1. Good(new) /\ full \in DOMAIN new.scopeIndex
    BY RequestFacts, NewRootScopeGood
  <2>2. new.scopeIndex[full] \in ScopeObj
    BY <2>1, GoodFields DEF IndexOK
  <2>3. publish_root_scope(s, r) = addScopePublisher(new, new.scopeIndex[full], r)
    BY <1>1 DEF publish_root_scope
  <2> QED
    BY <2>1, <2>2, <2>3, ScopeUserGood
<1>2. CASE sc # NoScope
  <2>1. sc \in ScopeObj /\ sc = s.scopeIndex[full]
    BY <1>2, ScopeAtFacts
  <2>2. \/ publish_root_scope(s, r) = s
        \/ publish_root_scope(s, r) = addScopePublisher(s, sc, r)
    BY <1>2, <2>1 DEF publish_root_scope
  <2> QED
    BY <2>1, <2>2, ScopeUserGood
<1> QED
  BY <1>1, <1>2

\* A new scope under the scope found by the prefix of the request.
LEMMA NewScopeAtRequest ==
    ASSUME NEW s, Good(s), FreeScope(s), NEW r \in Request, scopeAllowed(s, r)
    PROVE  LET new == NewInnerScope(s, ScopeAt(s, r.prefix),
                                    Suffix(FullIDOf(r)), r.strategy)
               sc == new.scopeIndex[FullIDOf(r)]
           IN  Good(new) /\ sc \in ScopeObj /\ new.ids[sc] \in SUBSET FullID
<1> DEFINE f == ScopeAt(s, r.prefix)
           new == NewInnerScope(s, f, Suffix(FullIDOf(r)), r.strategy)
<1>1. f \in ScopeObj /\ r.prefix \in s.ids[f]
  BY ScopeAtFacts DEF scopeAllowed
<1>2. /\ Good(new)
      /\ Append(r.prefix, Suffix(FullIDOf(r))) \in DOMAIN new.scopeIndex
  BY <1>1, RequestFacts, NewInnerScopeGood
<1>3. FullIDOf(r) = Append(r.prefix, Suffix(FullIDOf(r)))
  BY RequestFacts DEF FullIDOf
<1> HIDE DEF new
<1>4. new.scopeIndex[FullIDOf(r)] \in ScopeObj
  BY <1>2, <1>3, GoodFields, Zenon DEF IndexOK
<1> QED
  BY <1>2, <1>4, GoodFields DEF IDsType, Obj, new

LEMMA PublishInnerScopeGood ==
    ASSUME NEW s, Good(s), FreeScope(s), NEW r \in Request
    PROVE  Good(publish_inner_scope(s, r))
<1> DEFINE full == FullIDOf(r)
           sc == ScopeAt(s, full)
           created == NewInnerScope(s, ScopeAt(s, r.prefix), Suffix(full), r.strategy)
           new == created.scopeIndex[full]
<1>1. CASE ~scopeAllowed(s, r)
  BY <1>1 DEF publish_inner_scope
<1>2. CASE scopeAllowed(s, r) /\ sc # NoScope
  BY <1>2, ScopeAtFacts, ScopeUserGood DEF publish_inner_scope
<1>3. CASE scopeAllowed(s, r) /\ sc = NoScope
  <2>1. Good(created) /\ new \in ScopeObj /\ created.ids[new] \in SUBSET FullID
    BY <1>3, NewScopeAtRequest
  <2>2. publish_inner_scope(s, r)
          = announce(addScopePublisher(created, new, r), r, created.ids[new])
    BY <1>3 DEF publish_inner_scope
  <2> HIDE DEF created, new
  <2> QED
    BY <2>1, <2>2, ScopeUserGood, AnnounceGood
<1> QED
  BY <1>1, <1>2, <1>3

LEMMA RepublishInnerScopeGood ==
    ASSUME NEW s, Good(s), NEW r \in Request
    PROVE  Good(republish_inner_scope(s, r))
<1> DEFINE f == ScopeAt(s, r.prefix)
           sc == ScopeAt(s, FullIDOf(r))
           x == ScopeAt(s, r.id)
           linked == Link(s, x, f, r.id)
<1>1. CASE ~scopeAllowed(s, r) \/ x = NoScope
  BY <1>1 DEF republish_inner_scope
<1>2. CASE scopeAllowed(s, r) /\ x # NoScope /\ sc # NoScope
  BY <1>2, ScopeAtFacts, ScopeUserGood DEF republish_inner_scope
<1>3. CASE scopeAllowed(s, r) /\ x # NoScope /\ sc = NoScope
  <2>1. x \in ScopeObj /\ x \in Obj /\ r.id \in s.ids[x]
    BY <1>3, ScopeAtFacts DEF Obj
  <2>2. f \in ScopeObj
    BY <1>3, ScopeAtFacts DEF scopeAllowed
  <2>3. Good(linked)
    BY <2>1, <2>2, LinkGood
  <2>4. republish_inner_scope(s, r)
          = announce(addScopePublisher(linked, x, r), r, linked.ids[x] \ {r.id})
    BY <1>3 DEF republish_inner_scope
  <2> HIDE DEF linked, x
  <2>5. linked.ids[x] \ {r.id} \in SUBSET FullID
    BY <2>1, <2>3, GoodFields DEF IDsType
  <2> QED
    BY <2>1, <2>3, <2>4, <2>5, ScopeUserGood, AnnounceGood
<1> QED
  BY <1>1, <1>2, <1>3

LEMMA PublishScopeGood ==
    ASSUME NEW s, Good(s), FreeScope(s), NEW r \in Request
    PROVE  Good(publish_scope(s, r))
  BY PublishRootScopeGood, PublishInnerScopeGood, RepublishInnerScopeGood
     DEF publish_scope


LEMMA AddItemUserGood ==
    ASSUME NEW s, Good(s), NEW r \in Request, NEW role \in Roles,
           FullIDOf(r) \in DOMAIN s.pubIndex
    PROVE  Good(addItemUser(s, r, role))
<1> DEFINE t == <<s.pubIndex[FullIDOf(r)], FullIDOf(r), r.node, role>>
<1>1. t \in Reg
  BY ItemAtFacts, RequestFacts DEF Reg, Obj
<1>2. Good(Register(s, t))
  BY <1>1, RegisterGood
<1> QED
  BY <1>2, MatchGood, Zenon DEF addItemUser

LEMMA WithItemGood ==
    ASSUME NEW s, Good(s), FreeItem(s), NEW r \in Request, itemAllowed(s, r)
    PROVE  Good(withItem(s, r)) /\ FullIDOf(r) \in DOMAIN withItem(s, r).pubIndex
<1> DEFINE f == ScopeAt(s, r.prefix)
<1>1. f \in ScopeObj /\ r.prefix \in s.ids[f] /\ f = s.scopeIndex[r.prefix]
  BY ScopeAtFacts DEF itemAllowed
<1>2. /\ Good(NewItem(s, f, Suffix(r.id)))
      /\ FullIDOf(r) \in DOMAIN NewItem(s, f, Suffix(r.id)).pubIndex
  BY <1>1, RequestFacts, NewItemGood DEF FullIDOf
<1> QED
  BY <1>1, <1>2 DEF withItem

LEMMA AdvertiseInfoGood ==
    ASSUME NEW s, Good(s), FreeItem(s), NEW r \in Request
    PROVE  Good(advertise_info(s, r))
  BY WithItemGood, AddItemUserGood DEF advertise_info, Roles

LEMMA ReadvertiseInfoGood ==
    ASSUME NEW s, Good(s), NEW r \in Request
    PROVE  Good(readvertise_info(s, r))
<1> DEFINE f == ScopeAt(s, r.prefix)
           x == s.pubIndex[r.id]
           linked == IF FullIDOf(r) \in DOMAIN s.pubIndex THEN s
                     ELSE Link(s, x, f, r.id)
<1>1. CASE ~(itemAllowed(s, r) /\ r.id \in DOMAIN s.pubIndex)
  BY <1>1 DEF readvertise_info
<1>2. CASE itemAllowed(s, r) /\ r.id \in DOMAIN s.pubIndex
  <2>1. f \in ScopeObj /\ r.prefix \in s.ids[f]
    BY <1>2, ScopeAtFacts DEF itemAllowed
  <2>2. x \in ItemObj /\ x \in Obj /\ r.id \in s.ids[x]
    BY <1>2, ItemAtFacts DEF Obj
  <2>3. Good(linked) /\ FullIDOf(r) \in DOMAIN linked.pubIndex
    BY <2>1, <2>2, LinkGood DEF FullIDOf
  <2>4. readvertise_info(s, r) = addItemUser(linked, r, "pub")
    BY <1>2 DEF readvertise_info
  <2> HIDE DEF linked
  <2> QED
    BY <2>3, <2>4, AddItemUserGood DEF Roles
<1> QED
  BY <1>1, <1>2

LEMMA PublishInfoGood ==
    ASSUME NEW s, Good(s), FreeItem(s), NEW r \in Request
    PROVE  Good(publish_info(s, r))
  BY AdvertiseInfoGood, ReadvertiseInfoGood DEF publish_info

LEMMA JoinScopeGood ==
    ASSUME NEW s, Good(s), NEW r \in Request, NEW sc \in ScopeObj
    PROVE  Good(joinScope(s, sc, r))
<1> DEFINE s1 == addScopeSubscriber(s, sc, r)
           N == {Note(s, c, s.ids[c], {r.node}) : c \in getSubscopes(s, sc)}
           s2 == notifySubscribers(s1, "SCOPE_PUBLISHED", N)
<1>1. Good(s1)
  BY ScopeUserGood
<1>2. \A c \in getSubscopes(s, sc) : s.ids[c] \in SUBSET FullID
  BY GoodFields DEF getSubscopes, IDsType, Obj
<1>3. {r.node} \in SUBSET Node
  BY RequestFacts
<1>4. N \in SUBSET NoteBody
  BY <1>2, <1>3, NoteIsBody
<1> HIDE DEF N, s1
<1>5. Good(s2)
  BY <1>1, <1>4, NotifyGood
<1> HIDE DEF s2
<1>6. joinScope(s, sc, r) = match(s2, getInformationItems(s, sc), sc, FullIDOf(r))
  BY DEF joinScope, s2, s1, N
<1> QED
  BY <1>5, <1>6, MatchGood, Zenon

LEMMA SubscribeScopeGood ==
    ASSUME NEW s, Good(s), FreeScope(s), NEW r \in Request
    PROVE  Good(subscribe_scope(s, r))
<1> DEFINE full == FullIDOf(r)
           sc == ScopeAt(s, full)
           root == NewRootScope(s, full, r.strategy)
           inner == NewInnerScope(s, ScopeAt(s, r.prefix), Suffix(full), r.strategy)
           new == inner.scopeIndex[full]
<1>1. sc # NoScope => Good(joinScope(s, sc, r))
  BY ScopeAtFacts, JoinScopeGood
<1>2. Good(subscribe_root_scope(s, r))
  <2>1. Good(root) /\ full \in DOMAIN root.scopeIndex
    BY RequestFacts, NewRootScopeGood
  <2>2. root.scopeIndex[full] \in ScopeObj
    BY <2>1, GoodFields DEF IndexOK
  <2>3. Good(addScopeSubscriber(root, root.scopeIndex[full], r))
    BY <2>1, <2>2, ScopeUserGood
  <2> QED
    BY <1>1, <2>3 DEF subscribe_root_scope
<1>3. Good(subscribe_inner_scope(s, r))
  <2>1. CASE ~(scopeAllowed(s, r) /\ sc = NoScope)
    BY <1>1, <2>1 DEF subscribe_inner_scope
  <2>2. CASE scopeAllowed(s, r) /\ sc = NoScope
    <3>1. Good(inner) /\ new \in ScopeObj /\ inner.ids[new] \in SUBSET FullID
      BY <2>2, NewScopeAtRequest
    <3>2. subscribe_inner_scope(s, r)
            = announce(addScopeSubscriber(inner, new, r), r, inner.ids[new])
      BY <2>2 DEF subscribe_inner_scope
    <3> HIDE DEF inner, new
    <3> QED
      BY <3>1, <3>2, ScopeUserGood, AnnounceGood
  <2> QED
    BY <2>1, <2>2
<1> QED
  BY <1>2, <1>3 DEF subscribe_scope

LEMMA SubscribeInfoGood ==
    ASSUME NEW s, Good(s), FreeItem(s), NEW r \in Request
    PROVE  Good(subscribe_info(s, r))
  BY WithItemGood, AddItemUserGood DEF subscribe_info, Roles

LEMMA PruneScopeGood ==
    ASSUME NEW s, Good(s), NEW sc \in ScopeObj, NEW f, NEW full \in FullID
    PROVE  Good(pruneScope(s, sc, f, full))
<1> DEFINE gone == IF s.fathers[sc] = {f} THEN s.ids[sc] ELSE {full}
           N == {Note(s, sc, gone, getSubscribers(s, f))}
           told == IF f = NoScope THEN s
                   ELSE notifySubscribers(s, "SCOPE_UNPUBLISHED", N)
<1>1. gone \in SUBSET FullID
  BY GoodFields DEF IDsType, Obj
<1>2. N \in SUBSET NoteBody
  BY <1>1, NoteIsBody, SubscribersAreNodes
<1> HIDE DEF N
<1>3. Good(told)
  BY <1>2, NotifyGood
<1>4. pruneScope(s, sc, f, full) = s \/ pruneScope(s, sc, f, full) = Drop(told, {sc}, f)
  BY DEF pruneScope, N
<1> HIDE DEF told
<1> QED
  BY <1>3, <1>4, DropGood

LEMMA UnpublishScopeGood ==
    ASSUME NEW s, Good(s), NEW r \in Request
    PROVE  Good(unpublish_scope(s, r))
<1> DEFINE full == FullIDOf(r)
           sc == ScopeAt(s, full)
           t == <<sc, full, r.node, "pub">>
           s1 == unpublishInfos(s, {r.node}, getInformationItems(s, sc),
                                s.ids[sc], sc, FALSE)
<1>1. Good(s1)
  BY UnpublishInfosGood
<1> HIDE DEF s1
<1>2. Good(Unregister(s1, {t}))
  BY <1>1, UnregisterGood
<1>3. sc # NoScope =>
        Good(pruneScope(Unregister(s1, {t}), sc, ScopeAt(s, r.prefix), full))
  BY <1>2, ScopeAtFacts, RequestFacts, PruneScopeGood
<1> QED
  BY <1>1, <1>3 DEF unpublish_scope, s1

LEMMA UnsubscribeScopeGood ==
    ASSUME NEW s, Good(s), NEW r \in Request
    PROVE  Good(unsubscribe_scope(s, r))
<1> DEFINE full == FullIDOf(r)
           sc == ScopeAt(s, full)
           s1 == Unregister(s, {<<sc, full, r.node, "sub">>})
           s2 == IF full[1] \in KnownRoots THEN s1
                 ELSE rendezvous(s1, getInformationItems(s, sc), TRUE)
<1>1. Good(s1)
  BY UnregisterGood
<1> HIDE DEF s1
<1>2. Good(s2)
  BY <1>1, RendezvousGood
<1> HIDE DEF s2
<1>3. sc # NoScope => Good(pruneScope(s2, sc, ScopeAt(s, r.prefix), full))
  BY <1>2, ScopeAtFacts, RequestFacts, PruneScopeGood
<1> QED
  BY <1>3 DEF unsubscribe_scope, s1, s2

LEMMA UnsubscribeInfoGood ==
    ASSUME NEW s, Good(s), NEW r \in Request
    PROVE  Good(unsubscribe_info(s, r))
<1> DEFINE full == FullIDOf(r)
           i == s.pubIndex[full]
           s1 == Unregister(s, {<<i, full, r.node, "sub">>})
           s2 == IF Known(s1, i) THEN s1 ELSE rendezvous(s1, {i}, TRUE)
<1>1. Good(s1)
  BY UnregisterGood
<1> HIDE DEF s1
<1>2. Good(s2)
  BY <1>1, RendezvousGood
<1> HIDE DEF s2
<1>3. Good(Drop(s2, {i}, ScopeAt(s, r.prefix)))
  BY <1>2, DropGood
<1> QED
  BY <1>2, <1>3 DEF unsubscribe_info, s1, s2

(***************************************************************************)
(* Every handled request keeps the store well typed, and whatever the hash *)
(* tables of LocalRV find under an ID carries that ID.                     *)
(***************************************************************************)
THEOREM GoodInductive == Good(rv) /\ [Next]_rv => Good(rv)'
<1> SUFFICES ASSUME Good(rv), [Next]_rv PROVE Good(rv')
  OBVIOUS
<1> DEFINE s == Start(rv)
<1>1. Good(s)
  BY StartGood
<1>2. s.ids = rv.ids
  BY GoodFields DEF Start, Fields
<1>3. ASSUME NEW r \in Requests, NEW type, Handle(r, type)
      PROVE  r \in Request /\ FreeScope(s) /\ FreeItem(s)
  BY <1>2, <1>3, RequestAssumption DEF Handle, Handled, FreeScope, FreeItem
<1> HIDE DEF s
<1>4. ASSUME NEW r \in Requests, PublishScope(r) PROVE Good(rv')
  BY <1>1, <1>3, <1>4, PublishScopeGood DEF PublishScope, s
<1>5. ASSUME NEW r \in Requests, PublishInfo(r) PROVE Good(rv')
  BY <1>1, <1>3, <1>5, PublishInfoGood DEF PublishInfo, s
<1>6. ASSUME NEW r \in Requests, UnpublishScope(r) PROVE Good(rv')
  BY <1>1, <1>3, <1>6, UnpublishScopeGood DEF UnpublishScope, s
<1>7. ASSUME NEW r \in Requests, UnpublishInfo(r) PROVE Good(rv')
  BY <1>1, <1>3, <1>7, UnpublishInfoGood DEF UnpublishInfo, s
<1>8. ASSUME NEW r \in Requests, SubscribeScope(r) PROVE Good(rv')
  BY <1>1, <1>3, <1>8, SubscribeScopeGood DEF SubscribeScope, s
<1>9. ASSUME NEW r \in Requests, SubscribeInfo(r) PROVE Good(rv')
  BY <1>1, <1>3, <1>9, SubscribeInfoGood DEF SubscribeInfo, s
<1>10. ASSUME NEW r \in Requests, UnsubscribeScope(r) PROVE Good(rv')
  BY <1>1, <1>3, <1>10, UnsubscribeScopeGood DEF UnsubscribeScope, s
<1>11. ASSUME NEW r \in Requests, UnsubscribeInfo(r) PROVE Good(rv')
  BY <1>1, <1>3, <1>11, UnsubscribeInfoGood DEF UnsubscribeInfo, s
<1>12. ASSUME NEW N \in SUBSET Node, ImplicitSubscription(N) PROVE Good(rv')
  <2> DEFINE n == [type |-> "MATCH_PUB_iSUBS", ids |-> {}, to |-> N]
             t == [s EXCEPT !.notes = {n}]
  <2>1. /\ DOMAIN t = Fields /\ t.scopeIndex = s.scopeIndex
        /\ t.pubIndex = s.pubIndex /\ t.ids = s.ids /\ t.fathers = s.fathers
        /\ t.strategy = s.strategy /\ t.regs = s.regs /\ t.host = s.host
        /\ t.rdv = s.rdv /\ t.notes = {n}
    BY <1>1, GoodFields DEF Fields
  <2>2. n \in NoteType
    BY DEF NoteType
  <2>3. rv' = t
    BY <1>12 DEF ImplicitSubscription, s
  <2> HIDE DEF t, n
  <2> QED
    BY <1>1, <2>1, <2>2, <2>3, GoodFields
<1>13. CASE UNCHANGED rv
  BY <1>13
<1> QED
  BY <1>4, <1>5, <1>6, <1>7, <1>8, <1>9, <1>10, <1>11, <1>12, <1>13 DEF Next, push

\* The rendezvous point is type correct: no request leaves a NULL or an object
\* of the wrong kind in a hash table, or a stray value in the graph.
THEOREM TypeCorrect == Spec => []TypeOK
<1>1. Init => Good(rv)
  BY InitGood DEF Init
<1>2. Good(rv) => TypeOK
  BY DEF Good, TypeOK
<1> QED
  BY <1>1, <1>2, GoodInductive, PTL DEF Spec

=============================================================================
