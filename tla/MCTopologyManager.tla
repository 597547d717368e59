-------------------------- MODULE MCTopologyManager --------------------------
(***************************************************************************)
(* A ring of four nodes with the TM at 1 and the RV opposite, at 3: there  *)
(* are two shortest paths between them, and a node is cut off when both    *)
(* its links fail.                                                         *)
(***************************************************************************)
EXTENDS TopologyManager

Ring == {<<1, 2>>, <<2, 3>>, <<3, 4>>, <<1, 4>>}
Edges == Ring \cup {<<e[2], e[1]>> : e \in Ring}

\* Bits are edges and nodes.  The LID of 4 -> 3 is in the FID of 1 -> 2 -> 3
\* by chance.
Bits == Edges \cup {<<n, n>> : n \in 1..4}
LinkIDs == [e \in Edges |-> IF e = <<4, 3>> THEN {<<1, 2>>, <<2, 3>>} ELSE {e}]
NodeIDs == [n \in 1..4 |-> {<<n, n>>}]

\* igraph takes the first or the last of the shortest paths.
Lower(p, q) == \/ p = q
               \/ \E i \in DOMAIN p : /\ p[i] < q[i]
                                      /\ \A j \in 1..(i - 1) : p[j] = q[j]
Igraph ==
    [t \in {"first", "last"} |-> [G \in Graph |-> [a \in 1..4 |-> [b \in 1..4 |->
       LET R == {p : p \in Routes(G, a, b)}
           S == {p : p \in {q \in R : \A r \in R : Len(q) <= Len(r)}}
       IN  IF S = {} THEN <<>>
           ELSE IF t = "first" THEN CHOOSE p \in S : \A q \in S : Lower(p, q)
                               ELSE CHOOSE p \in S : \A q \in S : Lower(q, p)]]]]

Confs == {[pm |-> TRUE, rs |-> FALSE, uc |-> FALSE],
          [pm |-> TRUE, rs |-> FALSE, uc |-> TRUE],
          [pm |-> FALSE, rs |-> TRUE, uc |-> FALSE]}

\* Link 1-2 is reported by both its ends, and in one direction only as well.
ReportOf(x, both, e) ==
    [remove |-> x, bidirectional |-> both, publisher |-> e[1], affected |-> e[2]]
AllReports == {ReportOf(x, TRUE, e) : x \in BOOLEAN, e \in Ring \cup {<<2, 1>>}}
                \cup {ReportOf(TRUE, FALSE, <<1, 2>>)}

Ask(type, uc, pubs, subs) == [type |-> type, unicast |-> uc, pubs |-> pubs, subs |-> subs]
SomeRequests == {Ask("MATCH_PUB_SUBS", FALSE, {1, 2}, {3, 4}),
                 Ask("UPDATE_FID", FALSE, {3}, {1, 2, 4}),
                 Ask("MATCH_PUB_SUBS", TRUE, {4}, {1, 2, 3}),
                 Ask("MATCH_PUB_iSUBS", TRUE, {2}, {3, 4}),
                 Ask("SCOPE", FALSE, {}, {2, 3}),
                 Ask("SCOPE", TRUE, {}, {2}),
                 Ask("SCOPE", TRUE, {}, {2, 3})}
=============================================================================
