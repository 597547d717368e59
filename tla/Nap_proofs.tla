----------------------------- MODULE Nap_proofs -----------------------------
(***************************************************************************)
(* Proofs about the network attachment point (NAP).                        *)
(*                                                                         *)
(* The IP handler finds the longest prefix, for every address width, every *)
(* list of routing prefixes and every byte order.                          *)
(*                                                                         *)
(* What an LTP receiver reports as missing is missing, for every set of    *)
(* fragments it may hold and every announced sequence number.              *)
(***************************************************************************)
EXTENDS NapIp, LtpScan, WellFoundedInduction, TLAPS

(***************************************************************************)
(* The routing prefixes of the IP handler.                                 *)
(***************************************************************************)
\* What reading the configuration keeps: every stored prefix lies within its
\* mask, and no two have the same network number (the map's key).
TableInv ==
    /\ configured \in Seq([address : Address, mask : Mask])
    /\ routingPrefixes \subseteq [bits : Address, mask : Mask]
    /\ \A p, q \in routingPrefixes : p.bits = q.bits => p = q

\* Head and Tail of a list of configured prefixes.
LEMMA EntryOfSeq == ASSUME NEW S, NEW s \in Seq(S), s # <<>>
                    PROVE  Head(s) \in S /\ Tail(s) \in Seq(S)
OBVIOUS

\* Every step keeps TableInv; only ParsePrefix touches the table.
LEMMA TableInvKept == TableInv /\ [IpNext]_ipVars => TableInv'
<1> SUFFICES ASSUME TableInv, [IpNext]_ipVars PROVE TableInv'
    OBVIOUS
<1>1. CASE ParsePrefix
  <2> DEFINE e == Head(configured)
             p == routingPrefix(e)
  <2>0. configured # <<>> /\ configured \in Seq([address : Address, mask : Mask])
    BY <1>1 DEF ParsePrefix, TableInv
  <2>1. e \in [address : Address, mask : Mask] /\ Tail(configured) \in Seq([address : Address, mask : Mask])
    BY <2>0, EntryOfSeq, Zenon
  <2>2. p \in [bits : Address, mask : Mask]
    BY <2>1 DEF routingPrefix, Address
  <2>3. configured' \in Seq([address : Address, mask : Mask])
    BY <1>1, <2>1 DEF ParsePrefix
  <2>4. routingPrefixes' = routingPrefixes
        \/ (routingPrefixes' = routingPrefixes \cup {p} /\ \A q \in routingPrefixes : q.bits # p.bits)
    BY <1>1 DEF ParsePrefix
  <2> HIDE DEF p
  <2>5. QED BY <2>2, <2>3, <2>4 DEF TableInv
<1>2. CASE UNCHANGED <<configured, routingPrefixes>>
  BY <1>2 DEF TableInv
<1>3. ParsePrefix \/ UNCHANGED <<configured, routingPrefixes>>
  BY Zenon DEF IpNext, ipVars, Handle, BufferPacket, IpStartPublish, IpStopPublish, CleanPacket, Lose, UtpHandle
<1>4. QED BY <1>1, <1>2, <1>3

\* Of two stored prefixes that match an address, the one with the longer mask
\* has at least the other's network bits, hence a larger key or the same one.
LEMMA LongestFromTable == TableInv => LongestPrefix
<1> SUFFICES ASSUME TableInv, NEW a \in Address, NEW p \in firstMatch(a), NEW q \in matching(a)
             PROVE q.mask \subseteq p.mask
    BY DEF LongestPrefix
<1>1. p \in routingPrefixes /\ q \in routingPrefixes /\ a \cap p.mask = p.bits /\ a \cap q.mask = q.bits
  BY DEF firstMatch, matching
<1>2. p.mask \in Mask /\ q.mask \in Mask /\ p.bits \in Address /\ q.bits \in Address
  BY <1>1 DEF TableInv
<1>3. Uint(q.bits) <= Uint(p.bits)
  BY DEF firstMatch
<1>4. CASE p.mask \subseteq q.mask
  <2>1. p.bits \subseteq q.bits
    BY <1>1, <1>4
  <2>2. p.bits = q.bits
    BY <2>1, <1>2, <1>3, UintMonotone
  <2>3. p = q
    BY <2>2, <1>1 DEF TableInv
  <2>4. QED BY <2>3
<1>5. QED BY <1>2, <1>4, MasksNested

\* Ip::_routingPrefix always finds the longest stored prefix.
THEOREM RoutesLongest == IpSpec => []LongestPrefix
<1>1. IpInit => TableInv
  BY ConfigsAssumption, Zenon DEF IpInit, TableInv
<1>2. QED BY <1>1, TableInvKept, LongestFromTable, PTL DEF IpSpec

-----------------------------------------------------------------------------
(***************************************************************************)
(* The gaps that an LTP receiver reports.                                  *)
(***************************************************************************)
\* A non-empty set of naturals has a smallest element.
LEMMA MinOfNats ==
    ASSUME NEW T \in SUBSET Nat, T # {}
    PROVE  Min(T) \in T /\ \A y \in T : Min(T) <= y
<1> DEFINE R == OpToRel(<, Nat)
<1>1. R = {ss \in Nat \X Nat : ss[1] < ss[2]}
  BY Zenon DEF OpToRel
<1>2. IsWellFoundedOn(R, Nat)
  BY NatLessThanWellFounded, Zenon
<1> HIDE DEF R
<1>3. PICK n \in T : \A m \in T : <<m, n>> \notin R
  BY <1>2, WFMin, Zenon
<1>4. \A m \in T : n <= m
  <2> SUFFICES ASSUME NEW m \in T, ~(n <= m) PROVE FALSE
    OBVIOUS
  <2>1. m \in Nat /\ n \in Nat /\ m < n
    OBVIOUS
  <2>2. <<m, n>> \in Nat \X Nat /\ <<m, n>>[1] < <<m, n>>[2]
    BY <2>1
  <2>3. <<m, n>> \in R
    BY <1>1, <2>2, Zenon
  <2> QED BY <1>3, <2>3
<1> QED BY <1>4, Zenon DEF Min

\* A non-empty bounded set of naturals has a largest one.
LEMMA MaxOfNats ==
    ASSUME NEW N \in Nat, NEW T \in SUBSET (0..N), T # {}
    PROVE  Max(T) \in T /\ \A y \in T : y <= Max(T)
<1> DEFINE U == {N - k : k \in T}
<1>1. U \in SUBSET Nat /\ U # {}
  <2>1. \A k \in T : N - k \in Nat
    OBVIOUS
  <2>2. PICK k \in T : TRUE
    BY Zenon
  <2>3. N - k \in U
    OBVIOUS
  <2> QED BY <2>1, <2>3
<1>2. PICK u \in U : \A m \in U : u <= m
  <2> HIDE DEF U
  <2> QED BY <1>1, MinOfNats, Zenon
<1>3. PICK k \in T : u = N - k
  OBVIOUS
<1>4. \A y \in T : y <= k
  <2> SUFFICES ASSUME NEW y \in T PROVE y <= k
    OBVIOUS
  <2>1. N - y \in U
    OBVIOUS
  <2>2. N - k <= N - y
    BY <1>2, <1>3, <2>1, Zenon
  <2> QED BY <2>2
<1>5. \E x \in T : \A y \in T : x >= y
  BY <1>4
<1>6. Max(T) \in T /\ \A y \in T : Max(T) >= y
  BY <1>5, Zenon DEF Max
<1> QED BY <1>6

\* The answer is useful for every set of buffered fragments and every WINDOW_END.
LEMMA UsefulForAll ==
    ASSUME NEW N \in Nat, NEW S \in SUBSET (1..N), S # {}, NEW seq \in 1..N
    PROVE  AnswerIsUseful(S, seq)
<1> DEFINE G == AfterGap(S)
           first == firstMissingSequence(S, seq)
           last == lastMissingSequence(S, seq)
<1>1. /\ Min(S) \in S /\ \A y \in S : Min(S) <= y
      /\ Max(S) \in S /\ \A y \in S : y <= Max(S)
  <2>1. S \in SUBSET Nat /\ S \in SUBSET (0..N)
    OBVIOUS
  <2> QED BY <2>1, MinOfNats, MaxOfNats, Zenon
<1>a. \A y \in S : y \in Nat /\ 1 <= y /\ y <= N
  OBVIOUS
<1>b. Min(S) \in Nat /\ Max(S) \in Nat /\ seq \in Nat /\ 1 <= Min(S) /\ 1 <= Max(S) /\ Max(S) <= N
  <2>1. Min(S) \in S /\ Max(S) \in S
    BY <1>1
  <2>2. seq \in Nat
    OBVIOUS
  <2> HIDE <1>1
  <2> QED BY <1>a, <2>1, <2>2, Zenon
<1>2. G \subseteq S /\ \A k \in G : k # Min(S) /\ k - 1 \notin S /\ k \in 2..N
  BY <1>a, <1>b, <1>1 DEF AfterGap
<1>3. ASSUME G # {}
      PROVE  /\ Min(G) \in G /\ \A y \in G : Min(G) <= y
             /\ Max(G) \in G /\ \A y \in G : y <= Max(G)
  <2>1. G \in SUBSET Nat /\ G \in SUBSET (0..N)
    BY <1>2
  <2> QED BY <1>3, <2>1, MinOfNats, MaxOfNats, Zenon
<1>4. Max(S \cup {seq}) = IF Max(S) < seq THEN seq ELSE Max(S)
  <2>1. S \cup {seq} \in SUBSET (0..N) /\ S \cup {seq} # {}
    OBVIOUS
  <2>2. Max(S \cup {seq}) \in S \cup {seq} /\ \A y \in S \cup {seq} : y <= Max(S \cup {seq})
    BY <2>1, MaxOfNats, Zenon
  <2> DEFINE m == Max(S \cup {seq})
  <2>3. m \in Nat /\ (m = seq \/ m \in S) /\ seq <= m /\ Max(S) <= m
    BY <1>a, <1>b, <1>1, <2>2, Zenon
  <2>4. m \in S => m <= Max(S)
    BY <1>1, Zenon
  <2>5. m = IF Max(S) < seq THEN seq ELSE Max(S)
    <3> HIDE DEF m
    <3> QED BY <1>b, <2>3, <2>4
  <2> QED BY <2>5
<1>5. ASSUME 1 \in S, G # {}
      PROVE  LET p == Max({j \in S : j < Min(G)})
             IN p \in S /\ p + 1 < Min(G) /\ p + 1 \notin S
  <2> DEFINE J == {j \in S : j < Min(G)}
  <2>1. Min(S) = 1
    BY <1>a, <1>b, <1>1, <1>5
  <2>2. 1 \in J
    BY <1>2, <1>3, <1>5, <2>1
  <2>3. J \in SUBSET (0..N) /\ J # {}
    <3>1. J \subseteq S
      OBVIOUS
    <3> HIDE DEF J
    <3>2. S \subseteq 0..N
      BY <1>a
    <3> QED BY <2>2, <3>1, <3>2, Zenon
  <2>4. Max(J) \in J /\ \A y \in J : y <= Max(J)
    BY <2>3, MaxOfNats, Zenon
  <2>5. Min(G) \in 2..N /\ Min(G) - 1 \notin S
    BY <1>2, <1>3, <1>5
  <2>6. Max(J) \in Nat /\ Max(J) \in S /\ Max(J) < Min(G)
    BY <1>a, <2>4, Zenon
  <2>7. ASSUME Max(J) + 1 \in S PROVE FALSE
    <3>1. Max(J) + 1 # Min(G) - 1 + 1
      BY <2>5, <2>6
    <3>2. Max(J) + 1 < Min(G)
      BY <2>5, <2>6, <3>1
    <3>3. Max(J) + 1 \in J
      BY <2>7, <3>2
    <3> QED BY <2>4, <2>6, <3>3
  <2>8. Max(J) # Min(G) - 1
    BY <2>5, <2>6
  <2>9. Max(J) + 1 < Min(G)
    BY <2>5, <2>6, <2>8
  <2> QED BY <2>6, <2>7, <2>9
<1>6. ASSUME 1 \in S, G = {}
      PROVE  S = 1..Max(S)
  <2>0. S \subseteq 1..Max(S)
    BY <1>a, <1>b, <1>1
  <2> SUFFICES ASSUME NEW j \in 1..Max(S), j \notin S PROVE FALSE
    BY <2>0, Zenon
  <2> DEFINE K == {k \in S : j < k}
  <2>1. Max(S) \in K
    BY <1>a, <1>b, <1>1
  <2>2. K \in SUBSET Nat /\ K # {}
    BY <1>a, <2>1, Zenon
  <2>3. Min(K) \in K /\ \A y \in K : Min(K) <= y
    BY <2>2, MinOfNats, Zenon
  <2>4. Min(K) - 1 \notin S
    <3>1. Min(K) \in Nat /\ j < Min(K) /\ j \in Nat
      <4>1. Min(K) \in S /\ j < Min(K)
        BY <2>3
      <4>2. Min(K) \in Nat
        BY <1>a, <4>1, Zenon
      <4>3. j \in Nat
        BY <1>b
      <4> QED BY <4>1, <4>2, <4>3, Zenon
    <3>2. ASSUME Min(K) - 1 \in S PROVE FALSE
      <4>1. Min(K) - 1 # j
        BY <3>2
      <4>2. Min(K) - 1 \in K
        BY <3>1, <3>2, <4>1
      <4>3. Min(K) <= Min(K) - 1
        BY <2>3, <4>2, Zenon
      <4> QED BY <3>1, <4>3
    <3> QED BY <3>2
  <2>5. Min(S) = 1
    BY <1>a, <1>b, <1>1, <1>6
  <2>6. Min(K) \in G
    BY <2>3, <2>4, <2>5 DEF AfterGap
  <2> QED BY <1>6, <2>6
<1>7. ASSUME S = 1..Max(S)
      PROVE  1 \in S /\ G = {}
  <2>1. 1 \in S /\ Min(S) = 1
    BY <1>a, <1>b, <1>1, <1>7
  <2> QED BY <1>a, <1>b, <1>7, <2>1, <1>1 DEF AfterGap
<1>8. first = 0 <=> (S = 1..Max(S) /\ seq <= Max(S))
  <2>1. CASE 1 \notin S
    BY <2>1, <1>7 DEF firstMissingSequence
  <2>2. CASE 1 \in S /\ G # {}
    <3>1. first = Max({j \in S : j < Min(G)}) + 1
      BY <2>2 DEF firstMissingSequence
    <3> DEFINE p == Max({j \in S : j < Min(G)})
    <3>2. p \in Nat
      BY <1>a, <1>5, <2>2, Zenon
    <3> HIDE DEF p
    <3>3. first # 0
      BY <3>1, <3>2 DEF p
    <3> QED BY <2>2, <3>3, <1>7
  <2>3. CASE 1 \in S /\ G = {}
    BY <1>a, <1>b, <2>3, <1>1, <1>6 DEF firstMissingSequence
  <2> QED BY <2>1, <2>2, <2>3
<1>9. ASSUME first # 0
      PROVE  /\ first \notin S /\ last \notin S
             /\ 1 <= first /\ first <= last /\ last <= IF Max(S) < seq THEN seq ELSE Max(S)
  <2>1. CASE 1 \notin S
    <3>1. first = 1
      BY <2>1 DEF firstMissingSequence
    <3>2. Min(S) \in 2..N /\ Max(S) \in 2..N
      BY <1>a, <1>b, <1>1, <2>1
    <3>3. CASE Max(S) < seq
      BY <1>a, <1>b, <1>1, <2>1, <3>1, <3>2, <3>3 DEF lastMissingSequence
    <3>4. CASE ~(Max(S) < seq) /\ G # {}
      <4>1. last = Max(G) - 1
        BY <3>4 DEF lastMissingSequence
      <4> QED BY <1>a, <1>b, <1>1, <1>2, <1>3, <2>1, <3>1, <3>4, <4>1
    <3>5. CASE ~(Max(S) < seq) /\ G = {}
      <4>1. last = 1
        BY <2>1, <3>5 DEF lastMissingSequence
      <4> QED BY <2>1, <3>1, <3>2, <3>5, <4>1
    <3> QED BY <3>3, <3>4, <3>5
  <2>2. CASE 1 \in S /\ G # {}
    <3> DEFINE p == Max({j \in S : j < Min(G)})
    <3>1. first = p + 1
      BY <2>2 DEF firstMissingSequence
    <3>2. p \in S /\ p + 1 < Min(G) /\ p + 1 \notin S
      BY <2>2, <1>5
    <3> HIDE DEF p
    <3>3. CASE Max(S) < seq
      <4>1. last = seq
        BY <3>3 DEF lastMissingSequence
      <4> QED BY <1>a, <1>b, <1>1, <1>2, <1>3, <2>2, <3>1, <3>2, <3>3, <4>1
    <3>4. CASE ~(Max(S) < seq)
      <4>1. last = Max(G) - 1
        BY <2>2, <3>4 DEF lastMissingSequence
      <4> QED BY <1>a, <1>b, <1>1, <1>2, <1>3, <2>2, <3>1, <3>2, <3>4, <4>1
    <3> QED BY <3>3, <3>4
  <2>3. CASE 1 \in S /\ G = {}
    <3>1. Max(S) < seq /\ first = seq
      BY <1>a, <1>b, <1>1, <1>9, <2>3 DEF firstMissingSequence
    <3>2. last = seq
      BY <3>1 DEF lastMissingSequence
    <3> QED BY <1>a, <1>b, <1>1, <3>1, <3>2
  <2> QED BY <2>1, <2>2, <2>3
<1> QED BY <1>4, <1>8, <1>9 DEF AnswerIsUseful, allFragmentsReceived

\* A receiver confirms a packet exactly when it holds every fragment up to the
\* announced one, and otherwise asks for a range it really misses, however the
\* fragments of the packet arrive (_handleControl, LTP_CONTROL_WINDOW_END).
THEOREM UsefulAnswers == ScanSpec => []UsefulAnswer
<1> DEFINE Typed == /\ buffered \in SUBSET (1..MaxFragments)
                    /\ buffered # {}
                    /\ announced \in 1..MaxFragments
<1>1. ScanInit => Typed
  BY DEF ScanInit
<1>2. Typed /\ [ScanNext]_scanVars => Typed'
  BY Zenon DEF ScanNext, Arrive, scanVars
<1>3. Typed => UsefulAnswer
  BY UsefulForAll, MaxFragmentsAssumption, Zenon DEF UsefulAnswer
<1> QED BY <1>1, <1>2, <1>3, PTL DEF ScanSpec
=============================================================================
