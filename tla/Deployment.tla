----------------------------- MODULE Deployment -----------------------------
(***************************************************************************)
(* The deployment tool (deployment/): the configuration files of a domain  *)
(* are read, link identifiers (LIDs) are assigned, the LIPSIN identifiers  *)
(* (FIDs) to the rendezvous node (RV) and the topology manager (TM) are    *)
(* computed, the nodes are configured and started, and the graph is given  *)
(* to the TM.  With --dynamic the tool then serves requests that add a     *)
(* node to the domain or delete one.                                       *)
(*                                                                         *)
(* The network is what the nodes run: a Click configuration, or the flows  *)
(* of an OpenFlow switch.  A LID is a set of bits.  Labels and addresses   *)
(* are numbers of disjoint ranges.  Overlay mode mac is modelled; copying  *)
(* and starting over ssh is taken to succeed.                              *)
(***************************************************************************)
EXTENDS Naturals
LOCAL INSTANCE Sequences
LOCAL INSTANCE FiniteSets
LOCAL INSTANCE SequencesExt
LOCAL INSTANCE FiniteSetsExt
LOCAL INSTANCE Functions

CONSTANTS
    Bit,            \* the bits of an identifier, LIPSIN_ID_LENGTH * 8 of them
    IsLabel(_),     \* has BLACKADDER_ID_LENGTH characters
    IsAddress(_),   \* is an IPv4 address
    ADD, DELETE,    \* the labels "0000000x" and "xxxxxxxx"
    Networks,       \* what is deployed: sequences of files, more than one with --zones
    NodeRequests,   \* the nodes of the requests to the server
    MaxNodeRequests \* bound on the requests

VARIABLES
    dm,             \* the domain, the tool's own record of it
    running,        \* address -> what the machine with it runs
    tmGraph,        \* the graph the TM has loaded
    served,         \* requests served
    hung            \* the tool loops for ever

depVars == <<dm, running, tmGraph, served, hung>>

(***************************************************************************)
(* The parser.  A node is [label, ip, role, mode, os, sdn, conns] and a    *)
(* connection [to, src_if, src_pt, dst_if, dst_pt], a setting that the     *)
(* file lacks being the empty string.                                      *)
(***************************************************************************)
addConnection(c) ==
    /\ IsAddress(c.to) \/ IsLabel(c.to)
    /\ c.src_if # "" \/ c.src_pt # ""
    /\ c.dst_if # "" \/ c.dst_pt # ""

connectionOf(src, c) ==
    [from |-> src, to |-> c.to, LID |-> {},
     src_if |-> c.src_if, src_pt |-> IF c.src_if = "" THEN c.src_pt ELSE "",
     dst_if |-> c.dst_if, dst_pt |-> IF c.dst_if = "" THEN c.dst_pt ELSE ""]

emptyDomain == [nodes |-> <<>>, rv |-> {}, tm |-> {}, lids |-> {}]

\* Whether a node is accepted: one RV and one TM in the domain
addNode(d, n) ==
    /\ IsLabel(n.label)
    /\ n.sdn \in {"bridges", "tables", "ports"}
    /\ n.os \in {"Linux", "FreeBSD", "Darwin", "ovs"}
    /\ n.os = "Darwin" => n.mode = "user"
    /\ "RV" \in n.role => d.rv = {}
    /\ "TM" \in n.role => d.tm = {}
    /\ \A i \in 1..Len(n.conns) : addConnection(n.conns[i])

withNode(d, n) ==
    [d EXCEPT !.nodes = Append(@, [label |-> n.label, ip |-> n.ip, isRV |-> "RV" \in n.role,
                                   isTM |-> "TM" \in n.role, mode |-> n.mode, os |-> n.os, sdn |-> n.sdn,
                                   conns |-> [i \in 1..Len(n.conns) |-> connectionOf(n.label, n.conns[i])],
                                   iLid |-> {}, FID_to_RV |-> {}, FID_to_TM |-> {}]),
              !.rv = IF "RV" \in n.role THEN {n.label} ELSE @,
              !.tm = IF "TM" \in n.role THEN {n.label} ELSE @]

\* A file's nodes in turn; {} when one is refused
buildNetworkDomain(d, file) ==
    LET after[i \in 0..Len(file)] ==
            IF i = 0 THEN {d}
            ELSE {withNode(e, file[i]) : e \in {f \in after[i - 1] : addNode(f, file[i])}}
    IN  after[Len(file)]

\* The nodes of a further file are added up to the first that is refused
expandNetworkDomain(d, file) ==
    LET ok == {i \in 0..Len(file) : buildNetworkDomain(d, SubSeq(file, 1, i)) # {}}
    IN  CHOOSE e \in buildNetworkDomain(d, SubSeq(file, 1, Max(ok))) : TRUE

\* Nodes of several files with one label become one; the RV's twin becomes TM too
joinZones(d) ==
    LET ns == d.nodes
        twins(i) == {j \in 1..Len(ns) : j > i /\ ns[j].label = ns[i].label}
        rv(i) == \E j \in twins(i) : ns[j].isRV
        firsts == {i \in 1..Len(ns) : \A j \in 1..i - 1 : ns[j].label # ns[i].label}
        joined(i) == [ns[i] EXCEPT
            !.isRV = @ \/ rv(i), !.isTM = @ \/ rv(i),
            !.conns = @ \o FlattenSeq([k \in 1..Cardinality(twins(i)) |->
                                          ns[SetToSortSeq(twins(i), <)[k]].conns])]
    IN  [d EXCEPT !.nodes = [k \in 1..Cardinality(firsts) |-> joined(SetToSortSeq(firsts, <)[k])]]

(***************************************************************************)
(* Link identifiers.  rand() draws the bits; which unused identifier it    *)
(* finds first makes no difference here.                                   *)
(***************************************************************************)
calculateLIDs[index \in Nat] ==
    IF index = 0 THEN <<>>
    ELSE LET LIDs == calculateLIDs[index - 1]
             number_of_bits == (index - 1) \div Cardinality(Bit) + 1
         IN  Append(LIDs, CHOOSE LID \in SUBSET Bit :
                        /\ Cardinality(LID) = number_of_bits
                        /\ \A i \in 1..Len(LIDs) : LIDs[i] # LID)

assignLIDs(d) ==
    LET before(i) == SumFunctionOnSet([j \in 1..Len(d.nodes) |-> 1 + Len(d.nodes[j].conns)], 1..i - 1)
        LIDs == calculateLIDs[before(Len(d.nodes) + 1)]
    IN  [d EXCEPT
            !.nodes = [i \in 1..Len(@) |->
                [@[i] EXCEPT !.iLid = LIDs[before(i) + 1],
                             !.conns = [j \in 1..Len(@) |->
                                 [@[j] EXCEPT !.LID = LIDs[before(i) + 1 + j]]]]],
            !.lids = {LIDs[i] : i \in 1..Len(LIDs)}]

\* The server draws single bits only: none is left when each is some LID
freeLIDs(d) == {LID \in {{b} : b \in Bit} : LID \notin d.lids}
calculateLID(d) == CHOOSE LID \in freeLIDs(d) : TRUE

(***************************************************************************)
(* The graph and the identifiers to the RV and the TM.                     *)
(***************************************************************************)
labelExists(d, l) == \E i \in 1..Len(d.nodes) : d.nodes[i].label = l

connections(d) == UNION {{d.nodes[i].conns[j] : j \in 1..Len(d.nodes[i].conns)} : i \in 1..Len(d.nodes)}

buildIGraphTopology(d) == {[from |-> c.from, to |-> c.to, LID |-> c.LID] : c \in connections(d)}

\* Shortest paths as sequences of edges
pathsFrom(d, source, destination) ==
    LET edges == buildIGraphTopology(d)
        upTo[n \in Nat] ==
            IF n = 0 THEN {<<>>}
            ELSE UNION {{Append(p, e) : e \in {f \in edges :
                            f.from = IF p = <<>> THEN source ELSE p[Len(p)].to}} : p \in upTo[n - 1]}
        ends(p) == (IF p = <<>> THEN source ELSE p[Len(p)].to) = destination
        least == Min({n \in 0..Len(d.nodes) : \E p \in upTo[n] : ends(p)})
    IN  IF \E n \in 0..Len(d.nodes) : \E p \in upTo[n] : ends(p)
        THEN {p \in upTo[least] : ends(p)} ELSE {}

\* Mutant: the loop over the edges of the path ends one too early
BadcalculateFID(d, source, destination) ==
    IF ~ labelExists(d, destination) THEN {}
    ELSE LET paths == pathsFrom(d, source, destination)
             path == CHOOSE p \in paths : TRUE
             iLid == (CHOOSE i \in 1..Len(d.nodes) : d.nodes[i].label = destination)
         IN  d.nodes[iLid].iLid \cup
             IF paths = {} THEN {} ELSE UNION {path[k].LID : k \in 1..Len(path) - 1}

\* With no path only the destination's own identifier is set, and nothing at
\* all when the destination is not in the graph
calculateFID(d, source, destination) ==
    IF ~ labelExists(d, destination) THEN {}
    ELSE LET paths == pathsFrom(d, source, destination)
             path == CHOOSE p \in paths : TRUE
             iLid == (CHOOSE i \in 1..Len(d.nodes) : d.nodes[i].label = destination)
         IN  d.nodes[iLid].iLid \cup
             IF paths = {} THEN {} ELSE UNION {path[k].LID : k \in 1..Len(path)}

calculateRVFIDs(d) ==
    [d EXCEPT !.nodes = [i \in 1..Len(@) |->
        [@[i] EXCEPT !.FID_to_RV = calculateFID(d, d.nodes[i].label, CHOOSE l \in d.rv : TRUE)]]]

calculateTMFIDs(d) ==
    [d EXCEPT !.nodes = [i \in 1..Len(@) |->
        [@[i] EXCEPT !.FID_to_TM = calculateFID(d, d.nodes[i].label, CHOOSE l \in d.tm : TRUE)]]]

(***************************************************************************)
(* What the nodes are given.                                               *)
(***************************************************************************)
\* A Click forwarder: the links' ports number the interfaces in order of first
\* use, and port p is wired to the p-th device
uniqueIfaces(n) ==
    LET first(j) == \A k \in 1..j - 1 : n.conns[k].src_if # n.conns[j].src_if
    IN  SelectSeq([j \in 1..Len(n.conns) |-> IF first(j) THEN n.conns[j].src_if ELSE ""], LAMBDA f : f # "")

\* Where a connection leads: discoverMacAddresses asks the machine
machine(d, label) == d.nodes[CHOOSE i \in 1..Len(d.nodes) : d.nodes[i].label = label].ip

writeClickFile(d, n) ==
    LET ifaces == uniqueIfaces(n)
    IN  [iLid |-> n.iLid, toRV |-> n.FID_to_RV, toTM |-> n.FID_to_TM, flows |-> {},
         devices |-> ifaces,
         links |-> {[port |-> CHOOSE p \in 1..Len(ifaces) : ifaces[p] = c.src_if, to |-> machine(d, c.to),
                     cable |-> c.src_if, LID |-> c.LID] : c \in Range(n.conns)}]

\* One flow per set of a switch's links, those of more links first
bridgeFlows(d, n) ==
    LET size == Len(n.conns)
        subsets(k) == {S \in SUBSET (1..size) : Cardinality(S) = k}
        \* priority_counter: the numbers of smaller sets
        base[k \in Nat] == IF k <= 1 THEN 0 ELSE base[k - 1] + Cardinality(subsets(k - 1))
        number(S) == SumFunctionOnSet([k \in 1..size |-> 2 ^ (k - 1)], S)
        among(S) == Cardinality({T \in subsets(Cardinality(S)) : number(T) < number(S)})
    IN  {[table |-> 0, priority |-> 1000 + base[Cardinality(S)] + among(S), next |-> {},
          match |-> UNION {n.conns[k].LID : k \in S}, out |-> {machine(d, n.conns[k].to) : k \in S}] :
            S \in SUBSET (1..size) \ {{}}}
        \cup {[table |-> 0, priority |-> 500, next |-> {}, match |-> {}, out |-> {}]}

\* One table per link, which passes the packet on to the next in either case
tableFlows(d, n) ==
    LET next(j) == IF j = Len(n.conns) THEN {} ELSE {j}
    IN  UNION {{[table |-> j - 1, priority |-> 500, next |-> next(j), match |-> {}, out |-> {}],
                [table |-> j - 1, priority |-> 1000, next |-> next(j), match |-> n.conns[j].LID,
                 out |-> {machine(d, n.conns[j].to)}]} : j \in 1..Len(n.conns)}

writeOFlows(d, n) ==
    [iLid |-> {}, toRV |-> {}, toTM |-> {}, devices |-> <<>>, links |-> {},
     flows |-> CASE n.sdn = "bridges" -> bridgeFlows(d, n)
                 [] n.sdn = "tables" -> tableFlows(d, n)
                 [] OTHER -> {}]

configured(d, n) == IF n.os = "ovs" THEN writeOFlows(d, n) ELSE writeClickFile(d, n)

(***************************************************************************)
(* What a node does with a packet (the forwarder and OpenFlow switches).   *)
(***************************************************************************)
flowsOut(flows, fid) ==
    LET out[t \in Nat] ==
            LET matching == {f \in flows : f.table = t /\ f.match \subseteq fid}
                taken == CHOOSE f \in matching : \A g \in matching : g.priority <= f.priority
            IN  IF matching = {} THEN {} ELSE taken.out \cup UNION {out[u] : u \in taken.next}
    IN  out[0]

\* The neighbours a node sends a packet with this FID to
forwards(conf, fid) ==
    {l.to : l \in {k \in conf.links : k.LID \subseteq fid /\ conf.devices[k.port] = k.cable}}
        \cup flowsOut(conf.flows, fid)

\* The nodes a packet of this FID passes
passed(source, fid) ==
    LET upTo[n \in Nat] ==
            IF n = 0 THEN {source}
            ELSE upTo[n - 1] \cup UNION {forwards(running[a], fid) \cap DOMAIN running : a \in upTo[n - 1]}
    IN  upTo[Cardinality(DOMAIN running)]

(***************************************************************************)
(* Deployment.                                                             *)
(***************************************************************************)
started(d, ns) == [a \in {n.ip : n \in ns} |-> configured(d, CHOOSE n \in ns : n.ip = a)]

Undeployed == dm = emptyDomain

\* main: killClick comes first, so that what ran before plays no part
Deploy(files) ==
    /\ Undeployed /\ ~ hung
    /\ buildNetworkDomain(emptyDomain, files[1]) # {}
    /\ LET first == CHOOSE d \in buildNetworkDomain(emptyDomain, files[1]) : TRUE
           whole[i \in 1..Len(files)] == IF i = 1 THEN first ELSE expandNetworkDomain(whole[i - 1], files[i])
           parsed == IF Len(files) = 1 THEN first ELSE joinZones(whole[Len(files)])
           d == calculateTMFIDs(calculateRVFIDs(assignLIDs(parsed)))
       IN  /\ parsed.rv # {} /\ parsed.tm # {}
           /\ dm' = d
           /\ running' = started(d, Range(d.nodes))
           /\ tmGraph' = buildIGraphTopology(d)
    /\ UNCHANGED <<served, hung>>

\* startClick of the server, without killClick: a user-level Click cannot bind
\* the netlink socket of the one that still runs, a kernel one replaces it; the
\* script of a switch is the one copied at first
startClick(d, touched) ==
    LET starts(n) == /\ n.label \in touched
                     /\ n.os # "ovs"
                     /\ n.mode = "kernel" \/ n.ip \notin DOMAIN running
        new == started(d, {n \in Range(d.nodes) : starts(n)})
    IN  [a \in DOMAIN new \cup DOMAIN running |-> IF a \in DOMAIN new THEN new[a] ELSE running[a]]

generateLabel(d) == Min({l \in Len(d.nodes) + 1..2 * Len(d.nodes) + 1 : ~ labelExists(d, l)})

Served(d, touched) ==
    LET e == calculateTMFIDs(calculateRVFIDs(d))
    IN  /\ dm' = e
        /\ running' = startClick(e, touched)
        /\ tmGraph' = buildIGraphTopology(e)

\* Mutant: the attachment node is not among those to be configured anew
Badattach(d, label, c) ==
    LET at == {i \in 1..Len(d.nodes) : d.nodes[i].ip = c.to}
        i == Min(at)
        LID == calculateLID(d)
        d1 == [d EXCEPT !.lids = @ \cup {LID}]
        back == calculateLID(d1)
        to == d.nodes[i].label
    IN  IF at = {} THEN [d |-> d1, conns |-> <<>>, at |-> {}]
        ELSE [d |-> [d1 EXCEPT !.lids = @ \cup {back},
                               !.nodes[i].conns = Append(@,
                                   [from |-> to, to |-> label, src_if |-> c.dst_if, dst_if |-> c.src_if,
                                    src_pt |-> "", dst_pt |-> "", LID |-> back])],
              conns |-> <<[c EXCEPT !.from = label, !.to = to, !.LID = LID]>>,
              at |-> {}]

\* mergeDomains for a new node: each connection to a known address becomes a
\* pair of connections, each with a LID; the others are dropped, their LID spent
attach(d, label, c) ==
    LET at == {i \in 1..Len(d.nodes) : d.nodes[i].ip = c.to}
        i == Min(at)
        LID == calculateLID(d)
        d1 == [d EXCEPT !.lids = @ \cup {LID}]
        back == calculateLID(d1)
        to == d.nodes[i].label
    IN  IF at = {} THEN [d |-> d1, conns |-> <<>>, at |-> {}]
        ELSE [d |-> [d1 EXCEPT !.lids = @ \cup {back},
                               !.nodes[i].conns = Append(@,
                                   [from |-> to, to |-> label, src_if |-> c.dst_if, dst_if |-> c.src_if,
                                    src_pt |-> "", dst_pt |-> "", LID |-> back])],
              conns |-> <<[c EXCEPT !.from = label, !.to = to, !.LID = LID]>>,
              at |-> {to}]

merged(d, label, conns) ==
    LET after[j \in 0..Len(conns)] ==
            IF j = 0 THEN [d |-> d, conns |-> <<>>, at |-> {}]
            ELSE LET r == attach(after[j - 1].d, label, conns[j])
                 IN  [d |-> r.d, conns |-> after[j - 1].conns \o r.conns, at |-> after[j - 1].at \cup r.at]
    IN  after[Len(conns)]

requestAccepted(n) == ~ Undeployed /\ ~ hung /\ served < MaxNodeRequests /\ addNode(emptyDomain, n)

ServeAddNode(n) ==
    /\ requestAccepted(n) /\ n.label = ADD
    /\ LET label == generateLabel(dm)
           node == withNode(emptyDomain, n).nodes[1]
           needed == SumFunctionOnSet([j \in 1..Len(n.conns) |->
                         IF \E i \in 1..Len(dm.nodes) : dm.nodes[i].ip = n.conns[j].to THEN 2 ELSE 1],
                         1..Len(n.conns))
           found == \E i \in 1..Len(dm.nodes), j \in 1..Len(n.conns) : dm.nodes[i].ip = n.conns[j].to
           m == merged(dm, label, node.conns)
           d == [m.d EXCEPT !.nodes = Append(@, [node EXCEPT !.label = label, !.conns = m.conns,
                                                             !.iLid = calculateLID(m.d)]),
                            !.lids = @ \cup {calculateLID(m.d)}]
           drawn == needed + IF found THEN 1 ELSE 0
       IN  \/ /\ drawn > Cardinality(freeLIDs(dm))
              /\ hung' = TRUE
              /\ UNCHANGED <<dm, running, tmGraph>>
           \/ /\ drawn <= Cardinality(freeLIDs(dm)) /\ found
              /\ Served(d, m.at \cup {label})
              /\ UNCHANGED hung
           \/ /\ drawn <= Cardinality(freeLIDs(dm)) /\ ~ found
              /\ dm' = calculateTMFIDs(calculateRVFIDs(m.d))
              /\ UNCHANGED <<running, tmGraph, hung>>
    /\ served' = served + 1

\* mergeDomains for a node to delete, which is not stopped; without the RV or the
\* TM the FIDs to it become empty
ServeDeleteNode(n) ==
    /\ requestAccepted(n) /\ n.label = DELETE
    /\ LET gone == {dm.nodes[i].label : i \in {j \in 1..Len(dm.nodes) : dm.nodes[j].ip = n.ip}}
           rest == SelectSeq(dm.nodes, LAMBDA m : m.label \notin gone)
           d == [dm EXCEPT !.nodes = [i \in 1..Len(rest) |->
                   [rest[i] EXCEPT !.conns = SelectSeq(@, LAMBDA c : c.to \notin gone /\ c.from \notin gone)]]]
       IN  Served(d, {rest[i].label : i \in 1..Len(rest)})
    /\ served' = served + 1
    /\ UNCHANGED hung

\* The machine of a deleted node is switched off
SwitchOff(a) ==
    /\ a \in DOMAIN running /\ \A n \in Range(dm.nodes) : n.ip # a
    /\ running' = [b \in DOMAIN running \ {a} |-> running[b]]
    /\ UNCHANGED <<dm, tmGraph, served, hung>>

DepInit ==
    /\ dm = emptyDomain /\ running = <<>> /\ tmGraph = {}
    /\ served = 0 /\ hung = FALSE

DepNext ==
    \/ \E files \in Networks : Deploy(files)
    \/ \E n \in NodeRequests : ServeAddNode(n) \/ ServeDeleteNode(n)
    \/ \E a \in DOMAIN running : SwitchOff(a)

(***************************************************************************)
(* Properties.                                                             *)
(***************************************************************************)
\* The neighbours a machine can send to at all
runsLinks(conf) == {l.to : l \in conf.links} \cup UNION {f.out : f \in conf.flows}

hasLinks(n) == {machine(dm, c.to) : c \in Range(n.conns)}

\* As long as all nodes run with the links they have in the domain, the FID to
\* the RV in a running Click configuration takes a packet to the RV, across
\* forwarders and switches with the flows they were given, and the RV takes it
\* for its own (calculateFID, writeClickFiles, writeOFlows, mergeDomains).
RVLedTo ==
    (\A n \in Range(dm.nodes) : runsLinks(running[n.ip]) = hasLinks(n)) =>
        \A n, rv \in Range(dm.nodes) :
            (n.os # "ovs" /\ rv.label \in dm.rv /\ pathsFrom(dm, n.label, rv.label) # {}) =>
                /\ rv.ip \in passed(n.ip, running[n.ip].toRV)
                /\ running[rv.ip].iLid \subseteq running[n.ip].toRV

\* The graph the TM computes with is the one the kernel-level forwarders run:
\* the server configures anew every node whose links a request has changed
\* (session::handle_read, mergeDomains).
TMKnowsLinks ==
    \A n \in Range(dm.nodes) :
        (n.os # "ovs" /\ n.mode = "kernel") =>
            {<<k.to, k.LID>> : k \in running[n.ip].links}
                = {<<machine(dm, e.to), e.LID>> : e \in {f \in tmGraph : f.from = n.label}}

\* What runs leads every node to the RV, and the TM's graph is that of the
\* running forwarders (calculateFID, writeClickFiles, session::handle_read).
DeployedConsistently == RVLedTo /\ TMKnowsLinks
=============================================================================
