------------------------ MODULE TopologyManager_proofs ------------------------
(***************************************************************************)
(* For every topology, LIDs, ways of breaking ties and inputs: the FIDs    *)
(* that the topology manager keeps are valid, every node it has a path to  *)
(* has its FIDs and was told them, and failures are heard of.              *)
(*                                                                         *)
(* FIDs are found to be affected by their bits.  A FID that is not has no  *)
(* edge of a failed link on its path, so the path is still there; this     *)
(* needs every FID to be that of a path (FIDsValid), whatever other FIDs   *)
(* it matches by chance.  That a node which kept its FID from the TM also  *)
(* has one to the TM needs links to fail in both directions.               *)
(***************************************************************************)
EXTENDS TopologyManager, FiniteSetTheorems, TLAPS

-----------------------------------------------------------------------------
(***************************************************************************)
(* Walks.                                                                  *)
(***************************************************************************)
\* A walk is a sequence of nodes, and not an empty one.
LEMMA WalkIsSeq ==
    ASSUME NEW p \in Walk
    PROVE  /\ Len(p) \in Nat /\ Len(p) \in 1..Cardinality(Node)
           /\ p \in [1..Len(p) -> Node] /\ Injective(p) /\ p # <<>>
<1>1. Cardinality(Node) \in Nat
  BY FS_CardinalityType, TopologyAssumption
<1>2. PICK k \in 1..Cardinality(Node) : p \in [1..k -> Node] /\ Injective(p)
  BY DEF Walk
<1>3. p \in Seq(Node) /\ Len(p) = k
  BY <1>1, <1>2
<1> QED
  BY <1>1, <1>2, <1>3

LEMMA SeqIsWalk ==
    ASSUME NEW k \in 1..Cardinality(Node), NEW p \in [1..k -> Node], Injective(p)
    PROVE  p \in Walk /\ Len(p) = k
<1>1. Cardinality(Node) \in Nat
  BY FS_CardinalityType, TopologyAssumption
<1>2. Len(p) = k
  BY <1>1
<1> QED
  BY <1>2 DEF Walk

\* A path back is the path read backwards (the topology is symmetric).
LEMMA WayBack ==
    ASSUME NEW G \in Graph, NEW a \in Node, NEW b \in Node, Routes(G, a, b) # {}
    PROVE  Routes(G, b, a) # {}
<1>1. PICK p \in Walk : leads(p, G, a, b)
  BY DEF Routes
<1> DEFINE k == Len(p)
           q == [i \in 1..k |-> p[k + 1 - i]]
<1>2. k \in Nat /\ k \in 1..Cardinality(Node) /\ p \in [1..k -> Node] /\ Injective(p)
  BY WalkIsSeq
<1> HIDE DEF k
<1>3. q \in [1..k -> Node]
  BY <1>2
<1>4. Injective(q)
  <2> SUFFICES ASSUME NEW i \in 1..k, NEW j \in 1..k, p[k + 1 - i] = p[k + 1 - j]
               PROVE  i = j
    BY DEF Injective
  <2>1. k + 1 - i \in 1..k /\ k + 1 - j \in 1..k
    BY <1>2
  <2>2. k + 1 - i = k + 1 - j
    BY <2>1, <1>2 DEF Injective
  <2> QED
    BY <2>2, <1>2
<1>5. q \in Walk /\ Len(q) = k
  BY <1>2, <1>3, <1>4, SeqIsWalk
<1>6. leads(q, G, b, a)
  <2>1. q[1] = b /\ q[k] = a
    BY <1>1, <1>2 DEF leads, k
  <2>2. ASSUME NEW i \in 1..(k - 1)
        PROVE  <<q[i], q[i + 1]>> \in G
    <3>1. k - i \in 1..(k - 1) /\ i \in 1..k /\ i + 1 \in 1..k
      BY <1>2
    <3>2. q[i] = p[(k - i) + 1] /\ q[i + 1] = p[k - i]
      BY <3>1, <1>2
    <3>3. <<p[k - i], p[(k - i) + 1]>> \in G
      BY <1>1, <3>1 DEF leads, k
    <3> QED
      BY <3>2, <3>3 DEF Graph
  <2> QED
    BY <1>5, <2>1, <2>2, Zenon DEF leads
<1> QED
  BY <1>5, <1>6 DEF Routes

-----------------------------------------------------------------------------
(***************************************************************************)
(* FIDs.  Edges always have the LIDs of the topology file.                 *)
(***************************************************************************)
HasLIDs(L) == DOMAIN L \in Graph /\ L = [e \in DOMAIN L |-> LID[e]]

\* fid is of a path from a to b in graph G, or zero.
ValidIn(fid, G, a, b) == fid # {} => \E p \in Routes(G, a, b) : fid = PathFID(p, LID)

LEMMA EdgeOfPath ==
    ASSUME NEW G, NEW a \in Node, NEW b \in Node, NEW p \in Routes(G, a, b)
    PROVE  /\ p \in Walk /\ p[Len(p)] = b /\ leads(p, G, a, b)
           /\ \A i \in 1..(Len(p) - 1) : <<p[i], p[i + 1]>> \in G
  BY DEF Routes, leads

LEMMA SameFID ==
    ASSUME NEW L, HasLIDs(L), NEW a \in Node, NEW b \in Node,
           NEW p \in Routes(DOMAIN L, a, b)
    PROVE  PathFID(p, L) = PathFID(p, LID)
<1>1. \A i \in 1..(Len(p) - 1) : L[<<p[i], p[i + 1]>>] = LID[<<p[i], p[i + 1]>>]
  BY EdgeOfPath, Zenon DEF HasLIDs
<1> QED
  BY <1>1, Zenon DEF PathFID

LEMMA FIDOfPath ==
    ASSUME NEW G \in Graph, NEW a \in Node, NEW b \in Node, NEW p \in Routes(G, a, b)
    PROVE  PathFID(p, LID) \in FID /\ PathFID(p, LID) # {}
<1>1. iLID[p[Len(p)]] \in FID /\ iLID[p[Len(p)]] # {}
  <2>1. p[Len(p)] = b
    BY DEF Routes, leads
  <2>2. iLID[b] \in FID \ {{}}
    BY TopologyAssumption
  <2> QED
    BY <2>1, <2>2
<1>2. ASSUME NEW i \in 1..(Len(p) - 1)
      PROVE  LID[<<p[i], p[i + 1]>>] \in FID
  BY EdgeOfPath, TopologyAssumption, Zenon DEF Graph
<1> DEFINE links == UNION {LID[<<p[i], p[i + 1]>>] : i \in 1..(Len(p) - 1)}
           last == iLID[p[Len(p)]]
<1>3. PathFID(p, LID) = links \cup last
  BY Zenon DEF PathFID
<1>4. \A x \in links : \E i \in 1..(Len(p) - 1) : x \in LID[<<p[i], p[i + 1]>>]
  BY Zenon
<1> HIDE DEF links
<1> QED
  BY <1>1, <1>2, <1>3, <1>4, Zenon DEF FID

LEMMA Calculated ==
    ASSUME NEW t \in Tie, NEW L, HasLIDs(L), NEW a \in Node, NEW b \in Node
    PROVE  /\ calculateFID(t, L, a, b) \in FID
           /\ ValidIn(calculateFID(t, L, a, b), DOMAIN L, a, b)
           /\ Routes(DOMAIN L, a, b) # {} => calculateFID(t, L, a, b) # {}
<1> DEFINE p == shortestPath[t][DOMAIN L][a][b]
<1>0. DOMAIN L \in Graph
  BY DEF HasLIDs
<1>1. p \in IF Routes(DOMAIN L, a, b) = {} THEN {<<>>} ELSE Shortest(DOMAIN L, a, b)
  BY <1>0, IgraphAssumption
<1>2. CASE Routes(DOMAIN L, a, b) = {}
  BY <1>1, <1>2 DEF calculateFID, ValidIn, FID
<1>3. CASE Routes(DOMAIN L, a, b) # {}
  <2>1. p \in Routes(DOMAIN L, a, b)
    BY <1>1, <1>3 DEF Shortest
  <2>2. p # <<>>
    BY <2>1, WalkIsSeq DEF Routes
  <2>3. calculateFID(t, L, a, b) = PathFID(p, LID)
    BY <2>1, <2>2, SameFID DEF calculateFID
  <2>4. PathFID(p, LID) \in FID /\ PathFID(p, LID) # {}
    BY <1>0, <2>1, FIDOfPath
  <2> HIDE DEF p
  <2> QED
    BY <2>1, <2>3, <2>4 DEF ValidIn
<1> QED
  BY <1>2, <1>3

\* A valid FID takes packets to where it should.
LEMMA ValidArrives ==
    ASSUME NEW L, HasLIDs(L), NEW a \in Node, NEW b \in Node,
           NEW fid, fid # {}, ValidIn(fid, DOMAIN L, a, b),
           NEW via, fid \subseteq via
    PROVE  arrives(via, L, a, b)
<1>1. PICK p \in Routes(DOMAIN L, a, b) : fid = PathFID(p, LID)
  BY DEF ValidIn
<1>2. PathFID(p, L) \subseteq via
  BY <1>1, SameFID
<1> QED
  BY <1>1, <1>2, EdgeOfPath, Zenon DEF arrives

\* A FID without the LIDs of failed links is valid without them.
LEMMA Unaffected ==
    ASSUME NEW G, NEW H, NEW F, NEW a \in Node, NEW b \in Node, NEW fid,
           ValidIn(fid, G, a, b), ~ affectedBy(fid, F),
           \A e \in G \ H : e \in DOMAIN F /\ F[e] = LID[e]
    PROVE  ValidIn(fid, H, a, b)
<1> SUFFICES ASSUME fid # {} PROVE \E p \in Routes(H, a, b) : fid = PathFID(p, LID)
  BY DEF ValidIn
<1>1. PICK p \in Routes(G, a, b) : fid = PathFID(p, LID)
  BY DEF ValidIn
<1>2. ASSUME NEW i \in 1..(Len(p) - 1)
      PROVE  <<p[i], p[i + 1]>> \in H
  <2>1. <<p[i], p[i + 1]>> \in G
    BY <1>1, EdgeOfPath, Zenon
  <2>2. LID[<<p[i], p[i + 1]>>] \subseteq fid
    BY <1>1, Zenon DEF PathFID
  <2> QED
    BY <2>1, <2>2 DEF affectedBy
<1>3. p \in Routes(H, a, b)
  BY <1>1, <1>2, EdgeOfPath DEF Routes, leads
<1> QED
  BY <1>1, <1>3

LEMMA MoreLinks ==
    ASSUME NEW G, NEW H, G \subseteq H, NEW a \in Node, NEW b \in Node
    PROVE  /\ Routes(G, a, b) \subseteq Routes(H, a, b)
           /\ \A fid : ValidIn(fid, G, a, b) => ValidIn(fid, H, a, b)
<1>1. Routes(G, a, b) \subseteq Routes(H, a, b)
  BY DEF Routes, leads
<1> QED
  BY <1>1 DEF ValidIn

LEMMA ValidFID ==
    ASSUME NEW L, HasLIDs(L), NEW a \in Node, NEW b \in Node, NEW fid
    PROVE  (fid # {} => \E p \in Routes(DOMAIN L, a, b) : fid = PathFID(p, L))
             <=> ValidIn(fid, DOMAIN L, a, b)
  BY SameFID DEF ValidIn

-----------------------------------------------------------------------------
(***************************************************************************)
(* The inductive invariant.                                                *)
(***************************************************************************)
Inv ==
    /\ TypeOK
    /\ DOMAIN edge_LID \in Graph
    /\ FIDsValid
    /\ NodesReached
    /\ NodesTold

\* The invariant in terms of the LIDs of the topology file.
LEMMA InvFacts ==
    ASSUME Inv
    PROVE  /\ HasLIDs(edge_LID)
           /\ \A e \in DOMAIN edge_LID : e \in Edge /\ edge_LID[e] = LID[e]
           /\ \A e \in DOMAIN freedLIDs : e \in Edge /\ freedLIDs[e] = LID[e]
           /\ \A n \in Node : /\ ValidIn(TM_to_nodeFID[n], DOMAIN edge_LID, TM, n)
                              /\ ValidIn(RVFID[n], DOMAIN edge_LID, n, RV)
                              /\ ValidIn(TMFID[n], DOMAIN edge_LID, n, TM)
           /\ \A n \in Node : TM_to_nodeFID[n] # {} => TMFID[n] # {}
<1>1. HasLIDs(edge_LID)
  BY DEF Inv, TypeOK, HasLIDs
<1>2. /\ \A e \in DOMAIN edge_LID : e \in Edge /\ edge_LID[e] = LID[e]
      /\ \A e \in DOMAIN freedLIDs : e \in Edge /\ freedLIDs[e] = LID[e]
  BY DEF Inv, TypeOK
<1>3. ASSUME NEW n \in Node
      PROVE  /\ ValidIn(TM_to_nodeFID[n], DOMAIN edge_LID, TM, n)
             /\ ValidIn(RVFID[n], DOMAIN edge_LID, n, RV)
             /\ ValidIn(TMFID[n], DOMAIN edge_LID, n, TM)
  BY <1>1, ValidFID, TopologyAssumption, Zenon DEF Inv, FIDsValid, validFID
<1>4. ASSUME NEW n \in Node, TM_to_nodeFID[n] # {}
      PROVE  TMFID[n] # {}
  BY <1>3, <1>4 DEF ValidIn, Inv, NodesReached, reaches
<1> QED
  BY <1>1, <1>2, <1>3, <1>4

\* What is needed of the tables after a step.
LEMMA InvAfter ==
    ASSUME HasLIDs(edge_LID'), TypeOK',
           \A n \in Node : /\ ValidIn(TM_to_nodeFID'[n], DOMAIN edge_LID', TM, n)
                           /\ ValidIn(RVFID'[n], DOMAIN edge_LID', n, RV)
                           /\ ValidIn(TMFID'[n], DOMAIN edge_LID', n, TM),
           NodesReached', NodesTold'
    PROVE  Inv'
<1>1. FIDsValid'
  BY ValidFID, TopologyAssumption DEF FIDsValid, validFID
<1> QED
  BY <1>1 DEF Inv, HasLIDs

\* A node knows a FID that it knew already or is sent over a FID to it.
LEMMA Told ==
    ASSUME NEW n \in Node, NEW L, NEW updates,
           \/ told[n].rv = RVFID'[n]
           \/ \E m \in updates : /\ m.type = "UPDATE_RVFID" /\ m.to = n
                                 /\ arrives(m.via, L, TM, n),
           \/ told[n].tm = TMFID'[n]
           \/ \E m \in updates : /\ m.type = "UPDATE_TMFID" /\ m.to = n
                                 /\ arrives(m.via, L, TM, n)
    PROVE  toldBy(updates, L)[n] = [rv |-> RVFID'[n], tm |-> TMFID'[n]]
  BY DEF toldBy

LEMMA ToldType ==
    ASSUME NEW L, NEW updates, told \in [Node -> [rv: FID, tm: FID]],
           RVFID' \in [Node -> FID], TMFID' \in [Node -> FID]
    PROVE  toldBy(updates, L) \in [Node -> [rv: FID, tm: FID]]
  BY DEF toldBy

-----------------------------------------------------------------------------
(***************************************************************************)
(* The steps.                                                              *)
(***************************************************************************)
\* A link fails: what is affected is repaired, the rest needs no repair.
LEMMA RemoveLink ==
    ASSUME Inv, NEW r \in Reports, NEW t \in Tie, removeLink(t, r),
           conf' = conf, fault' = fault
    PROVE  /\ Inv'
           /\ \A n \in Node : ValidIn(TM_to_nodeFID'[n], DOMAIN edge_LID', TM, n)
           /\ HasLIDs(edge_LID') /\ \A e \in DOMAIN freedLIDs' : freedLIDs'[e] = LID[e]
<1> DEFINE L == edge_LID'
           F == freedLIDs'
           to == TM_to_nodeFID'
           G == DOMAIN edge_LID
           near == {n \in Node : to[n] # {}}
           newRV == {n \in near : affectedBy(RVFID[n], F)}
           newTM == {n \in near : affectedBy(TMFID[n], F)}
           updates == Updates(newRV, newTM, to)
<1>0. /\ L = withoutLink(r) /\ F = freedWith(r)
      /\ to = [n \in Node |-> IF affectedBy(TM_to_nodeFID[n], F)
                              THEN calculateFID(t, L, TM, n) ELSE TM_to_nodeFID[n]]
      /\ RVFID' = [n \in Node |-> IF n \in newRV THEN calculateFID(t, L, n, RV)
                                  ELSE IF n \in near THEN RVFID[n] ELSE {}]
      /\ TMFID' = [n \in Node |-> IF n \in newTM THEN calculateFID(t, L, n, TM)
                                  ELSE IF n \in near THEN TMFID[n] ELSE {}]
      /\ told' = toldBy(updates, L)
      /\ exists(r)
  BY DEF removeLink
<1> HIDE DEF L, F, to, G, near, newRV, newTM, updates
<1>1. Both(r) \subseteq G /\ DOMAIN L = G \ Both(r) /\ DOMAIN F = DOMAIN freedLIDs \cup Both(r)
  BY <1>0, Zenon DEF exists, Both, withoutLink, freedWith, Inv, Graph, G
<1>2. HasLIDs(L)
  <2>1. DOMAIN L \in Graph
    <3>1. DOMAIN L \subseteq Edge
      BY <1>1 DEF Inv, Graph, G
    <3>2. ASSUME NEW e \in DOMAIN L
          PROVE  <<e[2], e[1]>> \in DOMAIN L
      <4>1. <<e[2], e[1]>> \in G
        BY <1>1 DEF Inv, Graph, G
      <4>2. e \in Node \X Node /\ e \notin Both(r)
        BY <1>1, <3>1, TopologyAssumption
      <4>3. <<e[2], e[1]>> \notin Both(r)
        BY <4>2 DEF Both
      <4> QED
        BY <1>1, <4>1, <4>3
    <3> QED
      BY <3>1, <3>2 DEF Graph
  <2>2. L = [e \in DOMAIN L |-> LID[e]]
    BY <1>0, <1>1, InvFacts DEF withoutLink, G
  <2> QED
    BY <2>1, <2>2 DEF HasLIDs
<1>3. /\ F = [e \in DOMAIN F |-> LID[e]]
      /\ \A e \in G \ DOMAIN L : e \in DOMAIN F /\ F[e] = LID[e]
  BY <1>0, <1>1, InvFacts DEF freedWith, G
<1>4. /\ TM \in Node /\ RV \in Node
      /\ TM_to_nodeFID \in [Node -> FID] /\ RVFID \in [Node -> FID] /\ TMFID \in [Node -> FID]
  BY TopologyAssumption DEF Inv, TypeOK
<1>5. ASSUME NEW n \in Node
      PROVE  to[n] \in FID /\ ValidIn(to[n], DOMAIN L, TM, n)
  <2>1. CASE affectedBy(TM_to_nodeFID[n], F)
    BY <1>0, <1>2, <1>4, <2>1, Calculated
  <2>2. CASE ~ affectedBy(TM_to_nodeFID[n], F)
    BY <1>0, <1>3, <1>4, <2>2, InvFacts, Unaffected DEF G, near, newRV, newTM
  <2> QED
    BY <2>1, <2>2
<1>6. ASSUME NEW n \in Node
      PROVE  RVFID'[n] \in FID /\ ValidIn(RVFID'[n], DOMAIN L, n, RV)
  <2>1. CASE n \in newRV
    BY <1>0, <1>2, <1>4, <2>1, Calculated
  <2>2. CASE n \in near \ newRV
    BY <1>0, <1>3, <1>4, <2>2, InvFacts, Unaffected DEF G, near, newRV, newTM
  <2>3. CASE n \notin near
    BY <1>0, <2>3 DEF ValidIn, FID, near, newRV, newTM
  <2> QED
    BY <2>1, <2>2, <2>3
<1>7. ASSUME NEW n \in Node
      PROVE  TMFID'[n] \in FID /\ ValidIn(TMFID'[n], DOMAIN L, n, TM)
  <2>1. CASE n \in newTM
    BY <1>0, <1>2, <1>4, <2>1, Calculated
  <2>2. CASE n \in near \ newTM
    BY <1>0, <1>3, <1>4, <2>2, InvFacts, Unaffected DEF G, near, newRV, newTM
  <2>3. CASE n \notin near
    BY <1>0, <2>3 DEF ValidIn, FID, near, newRV, newTM
  <2> QED
    BY <2>1, <2>2, <2>3
<1>8. TypeOK'
  <2>1. /\ DOMAIN L \cup DOMAIN F = Edge /\ DOMAIN L \cap DOMAIN F = {}
        /\ L = [e \in DOMAIN L |-> LID[e]]
    BY <1>1, <1>2 DEF Inv, TypeOK, HasLIDs, G
  <2>2. to \in [Node -> FID] /\ RVFID' \in [Node -> FID] /\ TMFID' \in [Node -> FID]
    BY <1>0, <1>5, <1>6, <1>7
  <2>3. told' \in [Node -> [rv: FID, tm: FID]]
    BY <1>0, <2>2, ToldType DEF Inv, TypeOK
  <2> QED
    BY <1>3, <2>1, <2>2, <2>3 DEF Inv, TypeOK, L, F, to
<1>9. ASSUME NEW n \in Node, Routes(DOMAIN L, TM, n) # {}
      PROVE  to[n] # {} /\ TMFID'[n] # {}
  <2>1. TM_to_nodeFID[n] # {} /\ TMFID[n] # {}
    BY <1>1, <1>4, <1>9, MoreLinks DEF Inv, NodesReached, reaches, G
  <2>2. to[n] # {}
    BY <1>0, <1>2, <1>4, <1>9, <2>1, Calculated
  <2>3. Routes(DOMAIN L, n, TM) # {}
    BY <1>2, <1>4, <1>9, WayBack DEF HasLIDs
  <2> QED
    BY <1>0, <1>2, <1>4, <2>1, <2>2, <2>3, Calculated DEF near
<1>10. NodesReached'
  BY <1>9 DEF NodesReached, reaches, L, to
<1>11. ASSUME NEW n \in Node, to[n] # {}
       PROVE  told'[n] = [rv |-> RVFID'[n], tm |-> TMFID'[n]]
  <2>1. TM_to_nodeFID[n] # {}
    <3>1. ASSUME affectedBy(TM_to_nodeFID[n], F) PROVE TM_to_nodeFID[n] # {}
      <4>1. PICK e \in DOMAIN F : F[e] \subseteq TM_to_nodeFID[n]
        BY <3>1 DEF affectedBy
      <4>2. e \in Edge /\ F[e] = LID[e]
        BY <1>1, <1>3, InvFacts DEF G
      <4> QED
        BY <4>1, <4>2, TopologyAssumption
    <3> QED
      BY <1>0, <1>11, <3>1
  <2>2. told[n] = [rv |-> RVFID[n], tm |-> TMFID[n]]
    BY <2>1 DEF Inv, NodesTold
  <2>3. arrives(to[n], L, TM, n)
    BY <1>2, <1>4, <1>5, <1>11, ValidArrives
  <2>4. \/ told[n].rv = RVFID'[n]
        \/ \E m \in updates : m.type = "UPDATE_RVFID" /\ m.to = n /\ arrives(m.via, L, TM, n)
    <3>1. CASE n \in newRV
      <4> DEFINE m == Update("UPDATE_RVFID", n, to[n], RVFID'[n])
      <4>1. m \in updates
        BY <3>1 DEF Updates, updates
      <4>2. m.type = "UPDATE_RVFID" /\ m.to = n /\ m.via = to[n]
        BY DEF Update
      <4> QED
        BY <2>3, <4>1, <4>2, Zenon
    <3>2. CASE n \notin newRV
      BY <1>0, <1>11, <2>2, <3>2 DEF near
    <3> QED
      BY <3>1, <3>2, Zenon
  <2>5. \/ told[n].tm = TMFID'[n]
        \/ \E m \in updates : m.type = "UPDATE_TMFID" /\ m.to = n /\ arrives(m.via, L, TM, n)
    <3>1. CASE n \in newTM
      <4> DEFINE m == Update("UPDATE_TMFID", n, to[n], TMFID'[n])
      <4>1. m \in updates
        BY <3>1 DEF Updates, updates
      <4>2. m.type = "UPDATE_TMFID" /\ m.to = n /\ m.via = to[n]
        BY DEF Update
      <4> QED
        BY <2>3, <4>1, <4>2, Zenon
    <3>2. CASE n \notin newTM
      BY <1>0, <1>11, <2>2, <3>2 DEF near
    <3> QED
      BY <3>1, <3>2, Zenon
  <2>6. toldBy(updates, L)[n] = [rv |-> RVFID'[n], tm |-> TMFID'[n]]
    BY <2>4, <2>5, Told
  <2> QED
    BY <1>0, <2>6
<1>12. NodesTold'
  BY <1>11 DEF NodesTold, to
<1>13. Inv'
  BY <1>2, <1>5, <1>6, <1>7, <1>8, <1>10, <1>12, InvAfter DEF L, to
<1> QED
  BY <1>2, <1>3, <1>5, <1>13 DEF L, F, to

\* A link is restored: all FIDs stay valid, and nodes that are back get new ones.
LEMMA AddLink ==
    ASSUME Inv, NEW r \in Reports, NEW t \in Tie, addLink(t, r),
           conf' = conf, fault' = fault
    PROVE  Inv' /\ freedLIDs' = freedWithout(r)
<1> DEFINE L == edge_LID'
           F == freedLIDs'
           to == TM_to_nodeFID'
           G == DOMAIN edge_LID
           back == {n \in Node : TM_to_nodeFID[n] = {} /\ calculateFID(t, L, TM, n) # {}}
           updates == Updates(back, back, to)
<1>0. /\ L = withLink(r) /\ F = freedWithout(r)
      /\ to = [n \in Node |-> IF n \in back THEN calculateFID(t, L, TM, n)
                                            ELSE TM_to_nodeFID[n]]
      /\ RVFID' = [n \in Node |-> IF n \in back THEN calculateFID(t, L, n, RV) ELSE RVFID[n]]
      /\ TMFID' = [n \in Node |-> IF n \in back THEN calculateFID(t, L, n, TM) ELSE TMFID[n]]
      /\ told' = toldBy(updates, L)
      /\ ~ exists(r)
  BY Zenon DEF addLink, reconnected
<1> HIDE DEF L, F, to, G, back, updates
<1>1. /\ Both(r) \subseteq Edge /\ Both(r) \cap G = {} /\ Both(r) \subseteq DOMAIN freedLIDs
      /\ DOMAIN L = G \cup Both(r) /\ DOMAIN F = DOMAIN freedLIDs \ Both(r)
  <2>1. Both(r) \subseteq Edge
    BY InputAssumption, TopologyAssumption DEF Both, Report
  <2>2. Both(r) \cap G = {}
    BY <1>0 DEF exists, Both, Inv, Graph, G
  <2>3. Both(r) \subseteq DOMAIN freedLIDs
    BY <2>1, <2>2 DEF Inv, TypeOK, G
  <2> QED
    BY <1>0, <2>1, <2>2, <2>3 DEF withLink, freedWithout, G
<1>2. HasLIDs(L)
  <2>1. DOMAIN L \in Graph
    BY <1>1 DEF Inv, Graph, Both, G
  <2>2. L = [e \in DOMAIN L |-> LID[e]]
    BY <1>0, <1>1, InvFacts DEF withLink, G
  <2> QED
    BY <2>1, <2>2 DEF HasLIDs
<1>3. F = [e \in DOMAIN F |-> LID[e]]
  BY <1>0, <1>1, InvFacts DEF freedWithout
<1>4. /\ TM \in Node /\ RV \in Node
      /\ TM_to_nodeFID \in [Node -> FID] /\ RVFID \in [Node -> FID] /\ TMFID \in [Node -> FID]
  BY TopologyAssumption DEF Inv, TypeOK
<1>5. ASSUME NEW n \in Node
      PROVE  /\ to[n] \in FID /\ RVFID'[n] \in FID /\ TMFID'[n] \in FID
             /\ ValidIn(to[n], DOMAIN L, TM, n)
             /\ ValidIn(RVFID'[n], DOMAIN L, n, RV)
             /\ ValidIn(TMFID'[n], DOMAIN L, n, TM)
  <2>1. CASE n \in back
    BY <1>0, <1>2, <1>4, <2>1, Calculated
  <2>2. CASE n \notin back
    BY <1>0, <1>1, <1>4, <2>2, InvFacts, MoreLinks, Zenon DEF G
  <2> QED
    BY <2>1, <2>2
<1>6. TypeOK'
  <2>1. /\ DOMAIN L \cup DOMAIN F = Edge /\ DOMAIN L \cap DOMAIN F = {}
        /\ L = [e \in DOMAIN L |-> LID[e]]
    BY <1>1, <1>2 DEF Inv, TypeOK, HasLIDs, G
  <2>2. to \in [Node -> FID] /\ RVFID' \in [Node -> FID] /\ TMFID' \in [Node -> FID]
    BY <1>0, <1>5
  <2>3. told' \in [Node -> [rv: FID, tm: FID]]
    BY <1>0, <2>2, ToldType, Zenon DEF Inv, TypeOK
  <2> QED
    BY <1>3, <2>1, <2>2, <2>3 DEF Inv, TypeOK, L, F, to
<1>7. ASSUME NEW n \in Node, Routes(DOMAIN L, TM, n) # {}
      PROVE  to[n] # {} /\ TMFID'[n] # {}
  <2>1. Routes(DOMAIN L, n, TM) # {}
    BY <1>2, <1>4, <1>7, WayBack DEF HasLIDs
  <2>2. calculateFID(t, L, TM, n) # {} /\ calculateFID(t, L, n, TM) # {}
    BY <1>2, <1>4, <1>7, <2>1, Calculated
  <2>3. CASE n \in back
    BY <1>0, <2>2, <2>3
  <2>4. CASE n \notin back
    BY <1>0, <2>2, <2>4, InvFacts DEF back
  <2> QED
    BY <2>3, <2>4
<1>8. NodesReached'
  BY <1>7 DEF NodesReached, reaches, L, to
<1>9. ASSUME NEW n \in Node, to[n] # {}
      PROVE  told'[n] = [rv |-> RVFID'[n], tm |-> TMFID'[n]]
  <2>1. arrives(to[n], L, TM, n)
    BY <1>2, <1>4, <1>5, <1>9, ValidArrives
  <2>2. CASE n \in back
    <3> DEFINE m == Update("UPDATE_RVFID", n, to[n], RVFID'[n])
               k == Update("UPDATE_TMFID", n, to[n], TMFID'[n])
    <3>1. m \in updates /\ k \in updates
      BY <2>2 DEF Updates, updates
    <3>2. /\ m.type = "UPDATE_RVFID" /\ m.to = n /\ m.via = to[n]
          /\ k.type = "UPDATE_TMFID" /\ k.to = n /\ k.via = to[n]
      BY DEF Update
    <3> HIDE DEF m, k
    <3> QED
      BY <1>0, <2>1, <3>1, <3>2, Told
  <2>3. CASE n \notin back
    <3>1. told[n] = [rv |-> RVFID[n], tm |-> TMFID[n]]
      BY <1>0, <1>9, <2>3 DEF Inv, NodesTold
    <3>2. told[n].rv = RVFID'[n] /\ told[n].tm = TMFID'[n]
      BY <1>0, <2>3, <3>1
    <3> QED
      BY <1>0, <3>2, Told
  <2> QED
    BY <2>2, <2>3
<1>10. NodesTold'
  BY <1>9 DEF NodesTold, to
<1> QED
  BY <1>0, <1>2, <1>5, <1>6, <1>8, <1>10, InvAfter DEF L, F, to

\* Steps that leave the tables alone.
LEMMA Unchanged ==
    ASSUME Inv, fault' \in BOOLEAN,
           UNCHANGED <<conf, edge_LID, freedLIDs, TM_to_nodeFID, RVFID, TMFID, told>>
    PROVE  Inv'
  BY DEF Inv, TypeOK, FIDsValid, validFID, NodesReached, reaches, NodesTold

LEMMA InvInit == Init => Inv
<1> SUFFICES ASSUME Init PROVE Inv
  OBVIOUS
<1>1. PICK t \in Tie :
         /\ TM_to_nodeFID = [n \in Node |-> calculateFID(t, LID, TM, n)]
         /\ RVFID = [n \in Node |-> calculateFID(t, LID, n, RV)]
         /\ TMFID = [n \in Node |-> calculateFID(t, LID, n, TM)]
  BY DEF Init
<1>2. edge_LID = LID /\ HasLIDs(LID)
  BY TopologyAssumption DEF Init, HasLIDs, Graph, Edge
<1>3. TM \in Node /\ RV \in Node
  BY TopologyAssumption
<1>4. ASSUME NEW n \in Node
      PROVE  /\ TM_to_nodeFID[n] \in FID /\ RVFID[n] \in FID /\ TMFID[n] \in FID
             /\ validFID(TM_to_nodeFID[n], TM, n) /\ validFID(RVFID[n], n, RV)
             /\ validFID(TMFID[n], n, TM)
             /\ Routes(DOMAIN LID, TM, n) # {} => TM_to_nodeFID[n] # {}
             /\ Routes(DOMAIN LID, n, TM) # {} => TMFID[n] # {}
  BY <1>1, <1>2, <1>3, Calculated, ValidFID DEF validFID
<1>5. TypeOK
  <2>1. TM_to_nodeFID \in [Node -> FID] /\ RVFID \in [Node -> FID] /\ TMFID \in [Node -> FID]
    BY <1>1, <1>4
  <2>2. told \in [Node -> [rv: FID, tm: FID]]
    BY <2>1 DEF Init
  <2>3. DOMAIN freedLIDs = {} /\ freedLIDs = [e \in DOMAIN freedLIDs |-> LID[e]]
    BY DEF Init
  <2>4. edge_LID = [e \in DOMAIN edge_LID |-> LID[e]] /\ DOMAIN edge_LID = Edge
    BY <1>2 DEF HasLIDs, Edge
  <2>5. conf \in Configuration /\ fault \in BOOLEAN
    BY InputAssumption, Zenon DEF Init
  <2> QED
    BY <2>1, <2>2, <2>3, <2>4, <2>5 DEF TypeOK
<1>6. FIDsValid
  BY <1>4 DEF FIDsValid
<1>7. NodesReached
  BY <1>2, <1>3, <1>4, WayBack DEF NodesReached, reaches, HasLIDs
<1>8. NodesTold
  BY DEF NodesTold, Init
<1> QED
  BY <1>2, <1>5, <1>6, <1>7, <1>8 DEF Inv, HasLIDs

LEMMA InvNext == Inv /\ [Next]_vars => Inv'
<1> SUFFICES ASSUME Inv, [Next]_vars PROVE Inv'
  OBVIOUS
<1>1. CASE UNCHANGED vars
  BY <1>1, Unchanged DEF vars, Inv, TypeOK
<1>2. ASSUME NEW r \in Reports, handleLinkStateNotification(r)
      PROVE  Inv'
  <2>1. ASSUME NEW t \in Tie, removeLink(t, r) \/ addLink(t, r), UNCHANGED <<conf, fault>>
        PROVE  Inv'
    BY <2>1, RemoveLink, AddLink
  <2>2. CASE UNCHANGED <<conf, edge_LID, freedLIDs, TM_to_nodeFID, RVFID, TMFID, told>>
             /\ fault' \in BOOLEAN
    BY <2>2, Unchanged
  <2>3. fault \in BOOLEAN
    BY DEF Inv, TypeOK
  <2> QED
    BY <1>2, <2>1, <2>2, <2>3, Zenon DEF handleLinkStateNotification
<1>3. ASSUME NEW r \in Requests, handleRequest(r)
      PROVE  Inv'
  <2>1. fault' \in BOOLEAN
    <3>1. fault \in BOOLEAN
      BY DEF Inv, TypeOK
    <3>2. ASSUME NEW t \in Tie, handleMulticastPathRequest(t, r)
          PROVE  fault' \in BOOLEAN
      BY <3>1, <3>2, Zenon DEF handleMulticastPathRequest
    <3>3. ASSUME NEW t \in Tie, handleUnicastPathRequest(t, r)
          PROVE  fault' \in BOOLEAN
      <4>1. UNCHANGED fault \/ fault' = (Cardinality(r.subs) > 1)
        BY <3>3, Zenon DEF handleUnicastPathRequest
      <4>2. (Cardinality(r.subs) > 1) \in BOOLEAN
        OBVIOUS
      <4> QED
        BY <3>1, <4>1, <4>2, Zenon
    <3> QED
      BY <1>3, <3>2, <3>3 DEF handleRequest
  <2> QED
    BY <1>3, <2>1, Unchanged DEF handleRequest
<1> QED
  BY <1>1, <1>2, <1>3 DEF Next

\* Whatever links fail and come back, the FIDs that the topology manager keeps
\* (TM_to_nodeFID, RVFID, TMFID of tm_graph.hpp) are those of paths in the graph,
\* every node that it has a path to has its FIDs, and was told them.
THEOREM Maintained == Spec => []FIDsMaintained
<1>1. Inv => FIDsMaintained
  BY DEF Inv, FIDsMaintained
<1> QED
  BY <1>1, InvInit, InvNext, PTL DEF Spec

\* With path management, the broadcast of the LIDs of a failed link
\* (handleLinkStateNotificationPM()) gets to every node that is still reached.
THEOREM Heard == Spec => FailureHeard
<1> DEFINE Step == (conf.pm /\ ~ conf.uc) =>
         \A e \in DOMAIN freedLIDs' \ DOMAIN freedLIDs, n \in Node :
            TM_to_nodeFID'[n] # {} =>
               \E m \in out'.failed : /\ m.lid = LID[e]
                                      /\ arrives(m.via, edge_LID', TM, n)
<1>1. Inv /\ [Next]_vars => [Step]_vars
  <2> SUFFICES ASSUME Inv, Next, conf.pm, ~ conf.uc,
                      NEW e \in DOMAIN freedLIDs' \ DOMAIN freedLIDs,
                      NEW n \in Node, TM_to_nodeFID'[n] # {}
               PROVE  \E m \in out'.failed : /\ m.lid = LID[e]
                                             /\ arrives(m.via, edge_LID', TM, n)
    OBVIOUS
  <2>1. PICK r \in Reports, t \in Tie :
           (removeLink(t, r) \/ addLink(t, r)) /\ UNCHANGED <<conf, fault>>
    BY Zenon DEF Next, handleLinkStateNotification, handleRequest
  <2>2. removeLink(t, r)
    BY <2>1, AddLink, Zenon DEF freedWithout
  <2>3. /\ ValidIn(TM_to_nodeFID'[n], DOMAIN edge_LID', TM, n)
        /\ HasLIDs(edge_LID') /\ freedLIDs'[e] = LID[e]
    BY <2>1, <2>2, RemoveLink
  <2> DEFINE all == UNION {TM_to_nodeFID'[k] : k \in Node}
             m == [lid |-> freedLIDs'[e], via |-> all]
  <2>4. m \in out'.failed
    <3>1. out'.failed = failureMessages(freedLIDs', TM_to_nodeFID, TM_to_nodeFID')
      BY <2>2 DEF removeLink, Nothing
    <3> QED
      BY <3>1, Zenon DEF failureMessages
  <2>5. arrives(all, edge_LID', TM, n)
    BY <2>3, ValidArrives, TopologyAssumption
  <2> HIDE DEF all
  <2> QED
    BY <2>3, <2>4, <2>5
<1> QED
  BY <1>1, InvInit, InvNext, PTL DEF Spec, FailureHeard

=============================================================================
