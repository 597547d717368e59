------------------------------- MODULE Coap --------------------------------
(***************************************************************************)
(* The CoAP proxy (apps/coapproxy/): a loop that reads a request from a    *)
(* client, asks the server and sends the answer back.  A request with a    *)
(* Proxy-Uri option is built anew from that URI; another one is passed on  *)
(* to the host of the command line as it is.                               *)
(*                                                                         *)
(* Packets, tokens and URIs are sequences of bytes.  The server and the    *)
(* clients are external; an answer carries the token of its request.       *)
(***************************************************************************)
EXTENDS Naturals
LOCAL INSTANCE Sequences
LOCAL INSTANCE FiniteSets
LOCAL INSTANCE SequencesExt
LOCAL INSTANCE FiniteSetsExt
LOCAL INSTANCE Functions

CONSTANTS
    CoapRequests,   \* [from, token, mid, options, payload]: what clients send;
                    \* options are [number, value] in ascending order, numbers
                    \* below 270
    MaxCoapRequests \* bound on the requests

VARIABLES
    clients_list,   \* the clients known, the latest first: [addr, token]
    asking,         \* the request the proxy waits for, or {}
    answers,        \* the answers sent: [to, request]
    coapCrashed,    \* the request after which the proxy failed, or {}
    coapServed      \* the number of requests read

coapVars == <<clients_list, asking, answers, coapCrashed, coapServed>>

COAP_HDR_SIZE == 4
COAP_PAYLOAD_START == 255
URI_HOST == 3
URI_PORT == 7
URI_PATH == 11
URI_QUERY == 15
PROXY_URI == 35

(***************************************************************************)
(* Packets.                                                                *)
(***************************************************************************)
\* A byte, 0-based as in the code; what lies beyond the packet is taken as 0
byteAt(pkt, i) == IF i < Len(pkt) THEN pkt[i + 1] ELSE 0

getTKL(pkt) == byteAt(pkt, 0) % 16
getType(pkt) == (byteAt(pkt, 0) \div 16 % 4) * 16
getCode(pkt) == byteAt(pkt, 1)
getMessageID(pkt) == byteAt(pkt, 2) * 256 + byteAt(pkt, 3)
getToken(pkt) == SubSeq(pkt, COAP_HDR_SIZE + 1, COAP_HDR_SIZE + getTKL(pkt))

\* The length of a field of the option header, 13 and 14 announcing one or
\* two more bytes at i; the second of them is read at j
extended(pkt, nibble, i, j) ==
    CASE nibble = 13 -> [bytes |-> 1, value |-> byteAt(pkt, i) + 13]
      [] nibble = 14 -> [bytes |-> 2, value |-> byteAt(pkt, i) * 256 + byteAt(pkt, j) + 269]
      [] OTHER -> [bytes |-> 0, value |-> nibble]

\* One option at pos, the number of the previous one being known
optionAt(pkt, pos, number) ==
    LET head == byteAt(pkt, pos)
        delta == extended(pkt, head \div 16, pos + 1, pos + 2)
        length == extended(pkt, head % 16, pos + 1 + delta.bytes, pos + 2)
        total == 1 + delta.bytes + length.bytes + length.value
    IN  [number |-> (number + delta.value) % 65536,
         value |-> [k \in 1..length.value |-> byteAt(pkt, pos + total - length.value + k - 1)],
         next |-> pos + total]

\* The options of a packet, the first n of them
optionsOf(pkt, n) ==
    LET read[i \in 0..n] ==
            IF i = 0 THEN [pos |-> COAP_HDR_SIZE + getTKL(pkt), options |-> <<>>]
            ELSE LET before == read[i - 1]
                     last == IF i = 1 THEN 0 ELSE Last(before.options).number
                     o == optionAt(pkt, before.pos, last)
                 IN  [pos |-> o.next,
                      options |-> Append(before.options, [number |-> o.number, value |-> o.value])]
    IN  read[n]

\* A payload makes the count 1, however many options precede it
getOptionCountFromRecv(pkt) ==
    LET ends == {n \in 0..Len(pkt) :
                    /\ \A k \in 0..(n - 1) : optionsOf(pkt, k).pos < Len(pkt)
                    /\ LET pos == optionsOf(pkt, n).pos
                       IN  pos >= Len(pkt) \/ byteAt(pkt, pos) = COAP_PAYLOAD_START}
        n == Min(ends)
    IN  IF optionsOf(pkt, n).pos >= Len(pkt) THEN n ELSE 1

parseOptionsFromRcv(pkt) == optionsOf(pkt, getOptionCountFromRecv(pkt)).options

hasProxyURI(options) == \E i \in DOMAIN options : options[i].number = PROXY_URI

\* Without that option __isProxy is what the memory held
isProxy(options) == IF hasProxyURI(options) THEN {TRUE} ELSE BOOLEAN

\* The last one of that number
getProxyURI(options) ==
    options[SelectLastInSeq(options, LAMBDA o : o.number = PROXY_URI)].value

\* The header of an option; the length is taken modulo 256
Badcoap_option_encode(delta, length) ==
    LET len == length % 256 IN
    <<(IF delta < 13 THEN delta ELSE 13) * 16 + (IF len < 14 THEN len ELSE 13)>>
    \o (IF delta < 13 THEN <<>> ELSE <<(delta - 13) % 256>>)
    \o (IF len < 14 THEN <<>> ELSE <<(len - 13) % 256>>)
coap_option_encode(delta, length) ==
    LET len == length % 256 IN
    <<(IF delta < 13 THEN delta ELSE 13) * 16 + (IF len < 13 THEN len ELSE 13)>>
    \o (IF delta < 13 THEN <<>> ELSE <<(delta - 13) % 256>>)
    \o (IF len < 13 THEN <<>> ELSE <<(len - 13) % 256>>)

\* insertOption: options come in ascending order, a smaller one is dropped
insertOption(p, number, value) ==
    IF number < p.maxDelta THEN p
    ELSE [pkt |-> p.pkt \o coap_option_encode(number - p.maxDelta, Len(value)) \o value,
          maxDelta |-> number]

\* The port as bytes: written one place too far, so that the first byte of
\* the option is uninitialised and the low byte is left out
coap_encode_var_bytes(port, garbage) ==
    CASE port = 0 -> <<>>
      [] port \in 1..255 -> <<garbage>>
      [] OTHER -> <<garbage, port \div 256>>

\* setVersion, setType, setTKL, setMethodCode, setMessageID, setTokenValue
newRequest(type, code, mid, token) ==
    [pkt |-> <<64 + type + Len(token), code, mid \div 256, mid % 256>> \o token, maxDelta |-> 0]

(***************************************************************************)
(* parse: scheme ":" "/"... host [":" port] "/" path ["?" query]           *)
(***************************************************************************)
firstOf(s, i, chars) ==    \* the first position from i on with one of chars, or the end
    LET at == {k \in i..Len(s) : s[k] \in chars}
    IN  IF at = {} THEN Len(s) + 1 ELSE Min(at)

parse(uri) ==
    LET colon == 58  slash == 47  question == 63  hash == 35
        afterScheme == IF firstOf(uri, 1, {colon}) <= Len(uri) THEN firstOf(uri, 1, {colon}) + 1 ELSE 1
        start == Min({k \in afterScheme..Len(uri) : uri[k] # slash})
        hostEnd == firstOf(uri, start, {colon, slash})
        hasPort == uri[hostEnd] = colon
        portEnd == IF hasPort THEN firstOf(uri, hostEnd + 1, {slash}) ELSE hostEnd
        pathEnd == firstOf(uri, portEnd + 1, {hash, question})
        hasQuery == pathEnd <= Len(uri) /\ uri[pathEnd] = question
    IN  [host |-> SubSeq(uri, start, hostEnd - 1),
         port |-> IF hasPort THEN SubSeq(uri, hostEnd + 1, portEnd - 1) ELSE <<>>,
         path |-> SubSeq(uri, portEnd + 1, pathEnd - 1),
         query |-> IF hasQuery THEN SubSeq(uri, pathEnd + 1, firstOf(uri, pathEnd + 1, {hash}) - 1)
                   ELSE <<>>]

\* A token as a string of C: up to the first zero byte
cstr(token) == SubSeq(token, 1, firstOf(token, 1, {0}) - 1)

strtol(digits) == FoldLeft(LAMBDA n, d : 10 * n + (d - 48), 0, digits)

(***************************************************************************)
(* The proxy.                                                              *)
(***************************************************************************)
\* What a client sends (RFC 7252): type 0, code 1, its options, a payload
clientPacket(r) ==
    LET enc[i \in 0..Len(r.options)] ==
            IF i = 0 THEN newRequest(0, 1, r.mid, r.token)
            ELSE insertOption(enc[i - 1], r.options[i].number, r.options[i].value)
    IN  enc[Len(r.options)].pkt \o
        (IF r.payload = <<>> THEN <<>> ELSE <<COAP_PAYLOAD_START>> \o r.payload)

\* on_client_msg, a request with a Proxy-Uri: the requests it can send
proxyRequests(pkt, uri) ==
    LET base == newRequest(getType(pkt), getCode(pkt), getMessageID(pkt), getToken(pkt))
        host == insertOption(base, URI_HOST, uri.host)
        ported == IF uri.port = <<>> THEN {host}
                  ELSE {insertOption(host, URI_PORT, coap_encode_var_bytes(strtol(uri.port), g)) :
                           g \in {0, 255}}
        path(p) == insertOption(p, URI_PATH, uri.path)
        query(p) == IF uri.query = <<>> THEN p ELSE insertOption(p, URI_QUERY, uri.query)
    IN  {query(path(p)).pkt : p \in ported}

\* A client is known by its address, with the token of its first request
knows(addr) == \E i \in DOMAIN clients_list : clients_list[i].addr = addr
add_client(addr, token) == <<[addr |-> addr, token |-> token]>> \o clients_list

CoapInit ==
    /\ clients_list = <<>>
    /\ asking = {}
    /\ answers = {}
    /\ coapCrashed = {}
    /\ coapServed = 0

\* The client of a request, added when its address is new
read_client(r, pkt) ==
    clients_list' = IF knows(r.from) THEN clients_list ELSE add_client(r.from, getToken(pkt))

\* on_client_msg and the sending of get_resource, which then waits for the
\* answer.  A request taken for one with a Proxy-Uri that has none makes
\* parse read uninitialised memory: the proxy fails.
on_client_msg(r, pkt, options) ==
    \E proxy \in isProxy(options) :
        \/ /\ proxy /\ hasProxyURI(options)
           /\ \E uri \in {parse(getProxyURI(options))} : \E sent \in proxyRequests(pkt, uri) :
                  asking' = {[request |-> r, sent |-> sent]}
           /\ UNCHANGED coapCrashed
        \/ ~proxy /\ asking' = {[request |-> r, sent |-> pkt]} /\ UNCHANGED coapCrashed
        \/ /\ proxy /\ ~hasProxyURI(options)
           /\ coapCrashed' = {r}
           /\ UNCHANGED asking

server_loop(r) ==
    /\ asking = {} /\ coapCrashed = {}
    /\ coapServed < MaxCoapRequests
    /\ coapServed' = coapServed + 1
    /\ \E pkt \in {clientPacket(r)} :
          read_client(r, pkt) /\ on_client_msg(r, pkt, parseOptionsFromRcv(pkt))
    /\ UNCHANGED answers

\* The answer of the server, for the client with the token: the first in
\* the list; when there is none, a null pointer is followed
forward_response(a, token) ==
    LET matches == {i \in DOMAIN clients_list : cstr(clients_list[i].token) = cstr(token)} IN
    \/ /\ matches # {}
       /\ answers' = answers \cup {[to |-> clients_list[Min(matches)].addr, request |-> a.request]}
       /\ UNCHANGED coapCrashed
    \/ /\ matches = {}
       /\ coapCrashed' = {a.request}
       /\ UNCHANGED answers

\* get_resource, the answer received; when a datagram to or from the server
\* is lost, it waits for ever
get_resource ==
    \E a \in asking :
        /\ asking' = {}
        /\ forward_response(a, getToken(a.sent))
        /\ UNCHANGED <<clients_list, coapServed>>

CoapNext == (\E r \in CoapRequests : server_loop(r)) \/ get_resource

CoapSpec == CoapInit /\ [][CoapNext]_coapVars

(***************************************************************************)
(* Properties.                                                             *)
(***************************************************************************)
valuesOf(options, number) ==
    {options[i].value : i \in {i \in DOMAIN options : options[i].number = number}}
optionsOfRequest(r) == parseOptionsFromRcv(clientPacket(r))

\* A request with a Proxy-Uri reaches the server as it was meant and is
\* answered to the client that sent it, as long as every client keeps to one
\* token that no other uses: the request on_client_msg builds (insertOption,
\* coap_option_encode) is read by the receiver's parser
\* (parseOptionsFromRcv) with the host, path and query of the URI, whatever
\* their lengths, and forward_response finds the client by its first token.
CoapServed ==
    /\ \A a \in asking :
          \A asked \in {optionsOfRequest(a.request)}, got \in {parseOptionsFromRcv(a.sent)} :
          hasProxyURI(asked) =>
              /\ getToken(a.sent) = a.request.token
              /\ \A uri \in {parse(getProxyURI(asked))} :
                    /\ valuesOf(got, URI_HOST) = {uri.host}
                    /\ valuesOf(got, URI_PATH) = {uri.path}
                    /\ uri.query # <<>> => valuesOf(got, URI_QUERY) = {uri.query}
    /\ LET seen == {a.request : a \in answers \cup asking} \cup coapCrashed
           ownTokens == \A r, s \in seen : r.from = s.from <=> cstr(r.token) = cstr(s.token)
       IN  ownTokens => /\ \A a \in answers : a.to = a.request.from
                        /\ \A r \in coapCrashed : ~hasProxyURI(optionsOfRequest(r))

=============================================================================
