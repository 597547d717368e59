------------------------- MODULE TrafficEngineering -------------------------
(***************************************************************************)
(* The traffic-engineering graph of the topology manager (TopologyManager/ *)
(* te_graph_mf.cpp): a thread of its own (te_loop) recomputes, from the    *)
(* demands measured since its last round, which paths share the traffic of *)
(* every pair of nodes, and replaces the map (demandMapApplied) that the   *)
(* listener thread answers path requests from.  te_mutex protects both     *)
(* maps; cacheValid is read and written without it.                        *)
(*                                                                         *)
(* The flow algorithm (tm_max_flow.cpp) computes with floating-point       *)
(* lengths: which paths get flow is a free choice of a nonempty set of     *)
(* paths of the pair, and a request draws one of them at random.           *)
(***************************************************************************)
EXTENDS Naturals, Sequences, FiniteSets, FiniteSetsExt, Functions

CONSTANTS
    TeNode,         \* the vertices
    TeEdges,        \* the directed edges, a set of pairs
    TeRequests,     \* path requests: records [publishers, subscribers]
    MaxRounds,      \* bound on the rounds of te_loop
    MaxCounted      \* bound on the demands counted when a request starts

VARIABLES
    demandMapMeasured,  \* pair -> requests counted since the last round
    taken,              \* demands the rounds so far took, in all
    maps,               \* the te_mf_demandMaps allocated, by number
    freed,              \* those deleted
    demandMapApplied,   \* number of the map in use, 0 before the first
    cacheValid,
    te,                 \* te_loop: [at, round]
    tm,                 \* the listener: its request and where it is in it
    result,             \* the FIDs of the request being answered
    answersDone,        \* the answers of the requests done
    counted             \* demands the requests added, in all

teVars == <<demandMapMeasured, taken, maps, freed, demandMapApplied, cacheValid,
            te, tm, result, answersDone, counted>>

pairs == {p \in TeNode \X TeNode : p[1] # p[2]}

\* Simple paths as sequences of vertices, and the FID of one: the LIDs of its
\* edges (the edge itself) and the iLID of its last vertex
tePaths ==
    {v \in UNION {[1..n -> TeNode] : n \in 1..Cardinality(TeNode)} :
        IsInjective(v) /\ \A i \in 1..Len(v) - 1 : <<v[i], v[i + 1]>> \in TeEdges}

pathsOf(p) == {v \in tePaths : v[1] = p[1] /\ v[Len(v)] = p[2]}

fidOf(v) == {<<v[i], v[i + 1]>> : i \in 1..Len(v) - 1} \cup {<<v[Len(v)]>>}

\* uncachedCalculateFID: a shortest path
shortest(p) == {v \in pathsOf(p) : \A w \in pathsOf(p) : Len(v) <= Len(w)}

\* preCalculateFids: the length of the shortest path in vertices
distanceMap(p) == Len(CHOOSE v \in shortest(p) : TRUE)

\* readTopology ends with one demand for every pair
TeInit ==
    /\ demandMapMeasured = [p \in pairs |-> 1]
    /\ taken = 0 /\ counted = Cardinality(pairs)
    /\ maps = <<>> /\ freed = {} /\ demandMapApplied = 0
    /\ cacheValid = FALSE
    /\ te = [at |-> "sleep", round |-> 0]
    /\ tm = [at |-> "idle"]
    /\ result = <<>> /\ answersDone = {}

(***************************************************************************)
(* update_paths, between the points where the other thread can interfere.  *)
(***************************************************************************)
BadTakeDemands ==
    /\ te.at = "sleep" /\ te.round < MaxRounds
    /\ taken' = taken + MapThenSumSet(LAMBDA p : demandMapMeasured[p], pairs)
    /\ te' = [at |-> "flow", round |-> te.round + 1]
    /\ UNCHANGED <<demandMapMeasured, maps, freed, demandMapApplied, cacheValid, tm, result, answersDone, counted>>

\* Under te_mutex: the measured demands are copied and start again from 0
TakeDemands ==
    /\ te.at = "sleep" /\ te.round < MaxRounds
    /\ taken' = taken + MapThenSumSet(LAMBDA p : demandMapMeasured[p], pairs)
    /\ demandMapMeasured' = [p \in pairs |-> 0]
    /\ te' = [at |-> "flow", round |-> te.round + 1]
    /\ UNCHANGED <<maps, freed, demandMapApplied, cacheValid, tm, result, answersDone, counted>>

\* sp_concurrent_flow and min_congestion_flow leave the flow of every demand on
\* some paths; each becomes a FID (insert_demand)
ComputeFlows ==
    /\ te.at = "flow"
    /\ \E used \in SUBSET UNION {pathsOf(p) : p \in pairs} :
          /\ \A p \in pairs : used \cap pathsOf(p) # {}
          /\ maps' = Append(maps, [p \in pairs |->
                                     {fidOf(v) : v \in used \cap pathsOf(p)}])
    /\ te' = [te EXCEPT !.at = "swap"]
    /\ UNCHANGED <<demandMapMeasured, taken, freed, demandMapApplied, cacheValid, tm,
                   result, answersDone, counted>>

BadApply ==
    /\ te.at = "swap"
    /\ freed' = freed \cup {demandMapApplied}
    /\ te' = [te EXCEPT !.at = "valid"]
    /\ UNCHANGED <<demandMapMeasured, taken, maps, demandMapApplied, cacheValid, tm,
                   result, answersDone, counted>>

\* Under te_mutex: the old map is deleted once one was applied
Apply ==
    /\ te.at = "swap"
    /\ freed' = IF cacheValid THEN freed \cup {demandMapApplied} ELSE freed
    /\ demandMapApplied' = Len(maps)
    /\ te' = [te EXCEPT !.at = "valid"]
    /\ UNCHANGED <<demandMapMeasured, taken, maps, cacheValid, tm, result, answersDone, counted>>

\* After te_mutex is released; the thread then prints its map and sleeps
SetValid ==
    /\ te.at = "valid"
    /\ cacheValid' = TRUE
    /\ te' = [te EXCEPT !.at = "sleep"]
    /\ UNCHANGED <<demandMapMeasured, taken, maps, freed, demandMapApplied, tm, result,
                   answersDone, counted>>

(***************************************************************************)
(* calculateFID for sets of publishers and subscribers, on the listener.   *)
(***************************************************************************)
Unset == [hops |-> 1000, pub |-> {}, fid |-> {}]

StartRequest ==
    /\ tm.at = "idle" /\ counted < MaxCounted
    /\ \E r \in TeRequests :
          tm' = [at |-> "publisher", req |-> r, subs |-> r.subscribers,
                 pubs |-> r.publishers, best |-> Unset]
    /\ result' = <<>>
    /\ UNCHANGED <<demandMapMeasured, taken, maps, freed, demandMapApplied, cacheValid,
                   te, answersDone, counted>>

\* A candidate replaces the best one only when it has fewer hops
better(best, pub, hops, fid) ==
    IF best.hops > hops THEN [hops |-> hops, pub |-> {pub}, fid |-> fid] ELSE best

\* calculateFID(source, destination) reads cacheValid without the lock; without
\* a cache the shortest path answers
CheckCache ==
    /\ tm.at = "publisher" /\ tm.subs # <<>> /\ tm.pubs # <<>>
    /\ LET p == <<Head(tm.pubs), Head(tm.subs)>>
       IN  IF cacheValid THEN tm' = [tm EXCEPT !.at = "cached"]
           ELSE \E v \in shortest(p) :
                   tm' = [tm EXCEPT !.pubs = Tail(@),
                             !.best = better(@, p[1], distanceMap(p), fidOf(v))]
    /\ UNCHANGED <<demandMapMeasured, taken, maps, freed, demandMapApplied, cacheValid,
                   te, result, answersDone, counted>>

\* get_fid of the applied map, under te_mutex; a pair the map does not hold (a
\* node and itself) gets an empty FID
get_fid(p) ==
    IF demandMapApplied \in freed \cup {0} THEN {{<<"freed">>}}
    ELSE IF p \notin pairs THEN {{}} ELSE maps[demandMapApplied][p]

GetCached ==
    /\ tm.at = "cached"
    /\ LET p == <<Head(tm.pubs), Head(tm.subs)>>
       IN  \E f \in get_fid(p) :
              tm' = [tm EXCEPT !.at = "publisher", !.pubs = Tail(@),
                        !.best = better(@, p[1], distanceMap(p), f)]
    /\ UNCHANGED <<demandMapMeasured, taken, maps, freed, demandMapApplied, cacheValid,
                   te, result, answersDone, counted>>

\* The subscriber goes to the nearest publisher: its demand is counted under
\* te_mutex and its FID joins the publisher's
AssignPaths ==
    /\ tm.at = "publisher" /\ tm.subs # <<>> /\ tm.pubs = <<>>
    /\ LET pub == CHOOSE x \in tm.best.pub : TRUE
           p   == <<pub, Head(tm.subs)>>
       IN  /\ demandMapMeasured' = IF p \in pairs
                                   THEN [demandMapMeasured EXCEPT ![p] = @ + 1]
                                   ELSE demandMapMeasured
           /\ counted' = IF p \in pairs THEN counted + 1 ELSE counted
           /\ result' = [x \in DOMAIN result \cup {pub} |->
                 (IF x \in DOMAIN result THEN result[x] ELSE {})
                     \cup (IF x = pub THEN tm.best.fid ELSE {})]
    /\ tm' = [tm EXCEPT !.subs = Tail(@), !.pubs = tm.req.publishers, !.best = Unset]
    /\ UNCHANGED <<taken, maps, freed, demandMapApplied, cacheValid, te, answersDone>>

Answer ==
    /\ tm.at = "publisher" /\ tm.subs = <<>>
    /\ answersDone' = answersDone \cup {[req |-> tm.req, fids |-> result]}
    /\ tm' = [at |-> "idle"]
    /\ result' = <<>>
    /\ UNCHANGED <<demandMapMeasured, taken, maps, freed, demandMapApplied, cacheValid,
                   te, counted>>

TeNext ==
    \/ TakeDemands \/ ComputeFlows \/ Apply \/ SetValid
    \/ StartRequest \/ CheckCache \/ GetCached \/ AssignPaths \/ Answer

(***************************************************************************)
(* Properties.                                                             *)
(***************************************************************************)
\* Whatever the rounds of te_loop do meanwhile, every subscriber other than a
\* publisher's own node is reached: some publisher's FID holds the LIDs of a
\* path to it and its iLID, taken from a map that was alive when it was read
\* (update_paths swaps and deletes under te_mutex, calculateFID reads there).
TrafficReaches ==
    \A a \in answersDone : \A s \in Range(a.req.subscribers) \ Range(a.req.publishers) :
        \E pub \in DOMAIN a.fids : \E v \in pathsOf(<<pub, s>>) :
            fidOf(v) \subseteq a.fids[pub]

\* No measured demand is lost between the rounds: what the requests counted is
\* what the rounds took plus what waits for the next one (update_paths copies
\* and resets, calculateFID counts, both under te_mutex).
DemandsConserved ==
    counted = taken + MapThenSumSet(LAMBDA p : demandMapMeasured[p], pairs)

\* While te_loop (update_paths, apply) and the requests (calculateFID)
\* interleave, no measured demand is lost or counted twice, and the answers
\* lead to the subscribers.
DemandsRouted == TrafficReaches /\ DemandsConserved
=============================================================================
