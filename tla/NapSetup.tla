------------------------------ MODULE NapSetup ------------------------------
(***************************************************************************)
(* How NAPs are set up and what that makes of the traffic between them:    *)
(* the configuration file (configuration.cc), start and shutdown (main.cc, *)
(* namespaces.cc and the initialise methods), the filter of the            *)
(* demultiplexer (demux.cc), which also sees what the NAP itself writes,   *)
(* and the surrogates, announced through the item DNSlocal (napsa.cc,      *)
(* dnslocal.cc, Http::handleDnsLocal).                                     *)
(*                                                                         *)
(* Addresses and routing prefixes are those of NapIp; the buffering of     *)
(* packets until START_PUBLISH is there, here a packet reaches the         *)
(* subscribed NAPs at once.  Tuning values of the file (sizes, intervals,  *)
(* multipliers) are left out.  An FQDN is its 32-bit hash, shortened.      *)
(***************************************************************************)
EXTENDS NapIp

CONSTANTS
    SetupNap,      \* NAPs
    Deployments,   \* sets of configuration files: functions from NAPs
    Captured,      \* IP packets of end points: [dst, web]
    SurrogateOf,   \* commands of surrogate agents: [nap, fqdn, activate]
    WebOf,         \* requests of end points: [nap, fqdn]
    HASH           \* 2^32, shortened

VARIABLES
    files,         \* the configuration files
    setup,         \* NAP -> "start", "constructed", "running", "failed", "stopped"
    conf,          \* NAP -> what parse made of its file, {} before
    napSubs,       \* subscriptions: [nap, id]
    trip,          \* the IP packet under way, if any
    agents,        \* commands still to come
    cached,        \* NAP -> keys of _cIds that are forwarding
    dnsLocal       \* DNSlocal messages under way: [nap, fqdn]

setupVars == <<files, setup, conf, napSubs, trip, agents, cached, dnsLocal>>

----------------------------------------------------------------------------
(* Identifiers. *)

\* RootNamespaces
NAMESPACE_HTTP == 1

\* The 16 decimal digits of a number, as character codes (setw, setfill)
digits(n) == [i \in 1..16 |-> 48 + (IF i < 12 THEN 0 ELSE (n \div (10 ^ (16 - i))) % 10)]

\* IcnId::_hashIcnId
hashIcnId(string) == FoldLeft(LAMBDA h, c : (h * 31 + c) % HASH, 0, string)

\* IcnId(string fqdn) and IcnId(uint32_t hashedFqdn), as its uint()
cIdUint(fqdn) == hashIcnId(digits(NAMESPACE_HTTP) \o digits(fqdn))

----------------------------------------------------------------------------
(* The configuration file; a setting that may be missing is a set of at    *)
(* most one value.                                                         *)

\* Configuration::parse: the ways in which it returns false
accepted(f) ==
    /\ f.interface /\ f.network # {}
    /\ \E id \in f.nodeId : id <= 99999999
    /\ 0 \notin f.dropRate

\* Configuration::parse, fqdns: only read by the HTTP handler
fqdnsOf(f) == IF f.http THEN f.fqdns ELSE {}

\* Configuration::parse, routingPrefixes: the first of a network number stays
prefixTable(list) ==
    LET p(i) == routingPrefix(list[i])
    IN {p(i) : i \in {i \in DOMAIN list : \A j \in 1..(i - 1) : Uint(p(j).bits) # Uint(p(i).bits)}}

parsed(f) ==
    LET own == routingPrefix(CHOOSE net \in f.network : TRUE) IN
    [own |-> own,
     icnGateway |-> own.mask = {},
     gw |-> {routingPrefix(net) : net \in f.gw},
     endpoint |-> f.endpoint,
     table |-> prefixTable(f.prefixes),
     http |-> f.http,
     surrogacy |-> f.http /\ f.surrogacy,
     fqdns |-> fqdnsOf(f),
     cNap |-> ~(f.http /\ f.surrogacy) /\ fqdnsOf(f) = {}]

config(n) == CHOOSE c \in conf[n] : TRUE
hostBased(c) == c.endpoint # {}

----------------------------------------------------------------------------
(* Start and shutdown. *)

SetupInit ==
    /\ files \in Deployments
    /\ setup = [n \in SetupNap |-> "start"]
    /\ conf = [n \in SetupNap |-> {}]
    /\ napSubs = {}
    /\ trip = {}
    /\ agents = SurrogateOf
    /\ cached = [n \in SetupNap |-> {}]
    /\ dnsLocal = {}

\* main: parse, or exit; then the Namespaces constructor, in which a
\* client-side NAP subscribes to DNSlocal (DnsLocal::DnsLocal)
Construct(n) ==
    /\ setup[n] = "start"
    /\ \/ /\ ~accepted(files[n])
          /\ setup' = [setup EXCEPT ![n] = "failed"]
          /\ UNCHANGED <<conf, napSubs>>
       \/ /\ accepted(files[n])
          /\ setup' = [setup EXCEPT ![n] = "constructed"]
          /\ conf' = [conf EXCEPT ![n] = {parsed(files[n])}]
          /\ napSubs' = napSubs \cup
               IF parsed(files[n]).cNap THEN {[nap |-> n, id |-> <<"dns">>]} ELSE {}
    /\ UNCHANGED <<files, trip, agents, cached, dnsLocal>>

\* Ip::initialise: the scope of the NAP's prefix, or of its one end point
ipScope(c) ==
    <<"ip", c.own.bits>> \o (IF hostBased(c) THEN <<CHOOSE a \in c.endpoint : TRUE>> ELSE <<>>)

\* Http::initialise
httpItems(c) == IF c.http THEN {<<"http", q>> : q \in c.fqdns} ELSE {}

\* Namespaces::initialise, and the threads of main
Initialise(n) ==
    LET c == config(n) IN
    /\ setup[n] = "constructed"
    /\ setup' = [setup EXCEPT ![n] = "running"]
    /\ napSubs' = napSubs \cup {[nap |-> n, id |-> i] : i \in {ipScope(c)} \cup httpItems(c)}
    /\ UNCHANGED <<files, conf, trip, agents, cached, dnsLocal>>

\* sigproc: Ip::uninitialise (of a host-based NAP it unsubscribes from an item
\* it never subscribed to), then disconnect
Shutdown(n) ==
    /\ setup[n] = "running"
    /\ setup' = [setup EXCEPT ![n] = "stopped"]
    /\ napSubs' = {s \in napSubs : s.nap # n}
    /\ dnsLocal' = {m \in dnsLocal : m.nap # n}
    /\ UNCHANGED <<files, conf, trip, agents, cached>>

----------------------------------------------------------------------------
(* IP packets. *)

inNet(a, p) == a \cap p.mask = p.bits

\* Ip::_routingPrefix over a table
prefixFor(table, a) ==
    {p \in table : inNet(a, p) /\ \A q \in table : inNet(a, q) => Uint(q.bits) <= Uint(p.bits)}

Badcaptures(c, k) ==
    /\ ~(c.http /\ k.web)
    /\ \/ hostBased(c) /\ k.dst \notin c.endpoint
       \/ ~hostBased(c) /\ ~c.icnGateway
       \/ ~hostBased(c) /\ c.icnGateway /\ \E p \in c.gw : inNet(k.dst, p)

\* The filter of Demux::operator().  Without the prefix of the ICN gateway it
\* does not compile, and the demultiplexer ends.
captures(c, k) ==
    /\ ~(c.http /\ k.web)
    /\ \/ hostBased(c) /\ k.dst \notin c.endpoint
       \/ ~hostBased(c) /\ ~c.icnGateway /\ ~inNet(k.dst, c.own)
       \/ ~hostBased(c) /\ c.icnGateway /\ \E p \in c.gw : inNet(k.dst, p)

\* NAPs subscribed to the scope a packet is published in, the sender apart.  A
\* host-based NAP is subscribed to the address as a scope, not as the item that
\* is published, and gets nothing.
receivers(n, p) == {s.nap : s \in {s \in napSubs : s.id = <<"ip", p.bits>>}} \ {n}

\* An end point of NAP n sends a packet
Sent(n, k) ==
    /\ trip = {} /\ setup[n] = "running"
    /\ trip' = {[packet |-> k, at |-> {n}, sent |-> <<>>, wrote |-> {},
                 up |-> {m \in SetupNap : setup[m] = "running"}]}
    /\ UNCHANGED <<files, setup, conf, napSubs, agents, cached, dnsLocal>>

\* Demux::_processPacket and Ip::handle for what is on the interface of n, an
\* end point's packet or one n wrote there; the receivers write it to theirs
ProcessPacket(n) ==
    \E t \in trip :
        LET route == IF setup[n] = "running" /\ captures(config(n), t.packet)
                     THEN prefixFor(config(n).table, t.packet.dst) ELSE {}
            to == UNION {receivers(n, p) : p \in route} IN
        /\ n \in t.at
        /\ trip' = {[t EXCEPT !.at = (@ \ {n}) \cup to,
                              !.sent = IF route = {} THEN @ ELSE Append(@, n),
                              !.wrote = @ \cup to]}
        /\ UNCHANGED <<files, setup, conf, napSubs, agents, cached, dnsLocal>>

----------------------------------------------------------------------------
(* Surrogates. *)

\* NapSa::operator() and Namespaces::surrogacy: announced, then (un)subscribed
Surrogacy(s) ==
    LET item == [nap |-> s.nap, id |-> <<"http", s.fqdn>>] IN
    /\ s \in agents
    /\ setup[s.nap] = "running" /\ config(s.nap).surrogacy
    /\ agents' = agents \ {s}
    /\ dnsLocal' = dnsLocal \cup {[nap |-> r.nap, fqdn |-> s.fqdn] :
                                  r \in {r \in napSubs : r.id = <<"dns">> /\ setup[r.nap] = "running"}}
    /\ napSubs' = IF s.activate THEN napSubs \cup {item} ELSE napSubs \ {item}
    /\ UNCHANGED <<files, setup, conf, trip, cached>>

\* A request of an end point makes the CID known and forwarding (NapHttp has
\* the buffering in between)
WebRequest(n, fqdn) ==
    /\ setup[n] = "running" /\ config(n).http
    /\ \E s \in napSubs : s.id = <<"http", fqdn>>
    /\ cached' = [cached EXCEPT ![n] = @ \cup {cIdUint(fqdn)}]
    /\ UNCHANGED <<files, setup, conf, napSubs, trip, agents, dnsLocal>>

\* Namespaces::handlePublishedData and Http::handleDnsLocal: the message holds
\* the hash of the FQDN, the table is searched for it as it is
handleDnsLocal(m) ==
    /\ cached' = [cached EXCEPT ![m.nap] = @ \ {m.fqdn}]
    /\ dnsLocal' = dnsLocal \ {m}
    /\ UNCHANGED <<files, setup, conf, napSubs, trip, agents>>

SetupNext ==
    \/ \E n \in SetupNap : Construct(n) \/ Initialise(n) \/ Shutdown(n) \/ ProcessPacket(n)
    \/ \E n \in SetupNap, k \in Captured : Sent(n, k)
    \/ \E s \in SurrogateOf : Surrogacy(s)
    \/ \E w \in WebOf : WebRequest(w.nap, w.fqdn)
    \/ \E m \in dnsLocal : handleDnsLocal(m)

SetupSpec == SetupInit /\ [][SetupNext]_setupVars

----------------------------------------------------------------------------
(* Properties. *)

\* The NAPs of a packet's network, gateways apart
homes(k) == {n \in SetupNap : conf[n] # {} /\ ~config(n).icnGateway /\ ~hostBased(config(n))
                              /\ inNet(k.dst, config(n).own)}

\* Although the demultiplexer also sees the packets its NAP writes, no NAP
\* publishes a packet twice, a NAP never publishes what is for its own network,
\* and a packet is written only by NAPs of its network or by a gateway; if no NAP
\* stops meanwhile and the first sender has the network in its table, the
\* network's NAP has written it (demux.cc filter, ip.cc handle
\* and initialise, configuration.cc).
PacketsGoHome ==
    \A t \in trip :
        /\ \A i, j \in DOMAIN t.sent : t.sent[i] = t.sent[j] => i = j
        /\ \A i \in DOMAIN t.sent : t.sent[i] \notin homes(t.packet)
        /\ t.wrote \subseteq homes(t.packet) \cup {n \in SetupNap : conf[n] # {} /\ config(n).icnGateway}
        /\ (t.at = {} /\ t.sent # <<>> /\ \A n \in t.up : setup[n] = "running") =>
              \A h \in homes(t.packet) \cap t.up :
                  config(h).own \in config(t.sent[1]).table => h \in t.wrote
=============================================================================
