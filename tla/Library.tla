------------------------------ MODULE Library ------------------------------
(****************************************************************************)
(* The service model library of an application (lib/nb_blackadder.cpp and   *)
(* lib/blackadder.cpp): how a call becomes a datagram for the node and how  *)
(* a datagram of the node becomes an Event. A Blackadder object writes to   *)
(* its socket in the calling thread. An NB_Blackadder object queues the     *)
(* request for its selector thread, which a byte in a pipe wakes, and hands *)
(* events to a worker thread, which calls the application back. A datagram  *)
(* is a sequence of cells: one per byte-sized field, one per fragment of an *)
(* identifier, one per node, one per strategy option and one of payload.    *)
(****************************************************************************)
EXTENDS Naturals, Sequences, SequencesExt

CONSTANTS
    Caller,           \* the application's threads
    Plans,            \* bound: [calls: per thread, the calls it makes,
                      \* events: the events the node sends]
    OVERFLOW          \* 1000 in push and publish_data

\* Types of requests and events, and the strategies whose options carry a
\* forwarding identifier.
PUBLISH_DATA == 8
PUBLISH_DATA_iSUB == 9
PUBLISHED_DATA == 104
PUBLISHED_DATA_iSUB == 109
PUBLISH_DATA_iMULTICAST == 111
LINK_LOCAL == 1
IMPLICIT_RENDEZVOUS == 3
Worker == "worker"

VARIABLES
    plan,             \* the plan of this behaviour
    lib,              \* [kind: Blackadder or NB_Blackadder, socket: its family]
    calls,            \* per thread: the calls made
    blocked,          \* threads in pthread_cond_wait(&queue_overflow_cond)
    output_queue, pipe_fds, write_set, selector, event_queue, worker,
    toNode, toApp,    \* the datagrams in the socket
    made, heard,      \* requests queued or sent, and understood by the node
    notified, handled \* events sent, and given to the application
nbVars == <<output_queue, pipe_fds, write_set, selector, event_queue, worker, blocked>>
libVars == <<plan, lib, calls, nbVars, toNode, toApp, made, heard, notified, handled>>

LibInit(kinds) ==
    /\ lib \in kinds /\ plan \in Plans
    /\ calls = [c \in Caller |-> 0] /\ blocked = <<>>
    /\ output_queue = <<>> /\ pipe_fds = 0 /\ write_set = FALSE /\ event_queue = <<>>
    /\ selector = [at |-> "select", pipe |-> FALSE, read |-> FALSE]
    /\ worker = [at |-> "top", event |-> {}]
    /\ toNode = <<>> /\ toApp = <<>> /\ made = <<>> /\ heard = <<>>
    /\ notified = <<>> /\ handled = <<>>

-----------------------------------------------------------------------------
(* What is sent. *)

\* publish_info checks the prefix twice and the identifier never; the calls
\* that remove or subscribe take an identifier of one fragment only.
nbAccepts(c) ==
    \/ c.api \in {"publish_data", "publish_data_list", "publish_data_isub"}
    \/ c.api = "publish_scope" /\ c.id # <<>>
    \/ c.api = "publish_info" /\ c.prefix # <<>>
    \/ c.api \in {"unpublish_scope", "subscribe_scope", "unsubscribe_scope"} /\ Len(c.id) = 1
    \/ c.api \in {"unpublish_info", "subscribe_info", "unsubscribe_info"}
       /\ Len(c.id) = 1 /\ c.prefix # <<>>
\* Blackadder's methods make the same checks in the same order.
accepts(c) == nbAccepts(c)

push(c) ==
    <<c.type, Len(c.id)>> \o c.id \o <<Len(c.prefix)>> \o c.prefix \o <<c.strategy>> \o c.str_opt
publish_data(c) ==
    <<PUBLISH_DATA, Len(c.id)>> \o c.id \o <<c.strategy>> \o c.str_opt \o c.data
publish_data_list(c) ==
    <<PUBLISH_DATA_iMULTICAST, Len(c.id)>> \o c.id \o <<c.strategy>> \o c.str_opt
        \o <<Len(c.nodeIds)>> \o c.nodeIds \o c.data
Badpublish_data_isub(c) == \* the length of the item's ID before the iSub's
    <<PUBLISH_DATA_iSUB, Len(c.id)>> \o c.id \o <<c.strategy>> \o c.str_opt
        \o <<Len(c.id)>> \o c.isubID \o c.data
publish_data_isub(c) ==
    <<PUBLISH_DATA_iSUB, Len(c.id)>> \o c.id \o <<c.strategy>> \o c.str_opt
        \o <<Len(c.isubID)>> \o c.isubID \o c.data
nbMessage(c) ==
    CASE c.api = "publish_data" -> publish_data(c)
      [] c.api = "publish_data_list" -> publish_data_list(c)
      [] c.api = "publish_data_isub" -> publish_data_isub(c)
      [] OTHER -> push(c)

\* Blackadder gathers the same fields with an array of iovecs.
create_and_send_buffers(c) ==
    FlattenSeq(<< <<c.type>>, <<Len(c.id)>>, c.id, <<Len(c.prefix)>>, c.prefix,
                  <<c.strategy>>, c.str_opt >>)
sendData(c) ==
    FlattenSeq(<< <<PUBLISH_DATA>>, <<Len(c.id)>>, c.id, <<c.strategy>>, c.str_opt, c.data >>)
sendDataList(c) ==
    FlattenSeq(<< <<PUBLISH_DATA_iMULTICAST>>, <<Len(c.id)>>, c.id, <<c.strategy>>, c.str_opt,
                  <<Len(c.nodeIds)>>, c.nodeIds, c.data >>)
sendDataIsub(c) ==
    FlattenSeq(<< <<PUBLISH_DATA_iSUB>>, <<Len(c.id)>>, c.id, <<c.strategy>>, c.str_opt,
                  <<Len(c.isubID)>>, c.isubID, c.data >>)
message(c) ==
    CASE c.api = "publish_data" -> sendData(c)
      [] c.api = "publish_data_list" -> sendDataList(c)
      [] c.api = "publish_data_isub" -> sendDataIsub(c)
      [] OTHER -> create_and_send_buffers(c)

\* LocalProxy::push: the fields it finds in a request. Only these strategies
\* have options, one FID, and no option is expected before a list of nodes.
options(strategy) == IF strategy \in {LINK_LOCAL, IMPLICIT_RENDEZVOUS} THEN 1 ELSE 0
understood(m) ==
    LET IDLength == m[2]
        ID == SubSeq(m, 3, 2 + IDLength)
        next == 3 + IDLength
        Rest(i) == SubSeq(m, i, Len(m))
    IN  IF m[1] = PUBLISH_DATA
        THEN LET o == options(m[next])
             IN  [type |-> m[1], ID |-> ID, strategy |-> m[next],
                  opt |-> SubSeq(m, next + 1, next + o), list |-> <<>>, data |-> Rest(next + 1 + o)]
        ELSE IF m[1] \in {PUBLISH_DATA_iMULTICAST, PUBLISH_DATA_iSUB}
        THEN LET n == m[next + 1]
             IN  [type |-> m[1], ID |-> ID, strategy |-> m[next], opt |-> <<>>,
                  list |-> SubSeq(m, next + 2, next + 1 + n), data |-> Rest(next + 2 + n)]
        ELSE LET p == m[next]
             IN  [type |-> m[1], ID |-> ID, list |-> SubSeq(m, next + 1, next + p),
                  strategy |-> m[next + 1 + p],
                  opt |-> Rest(next + 2 + p), data |-> <<>>]

\* What a call means.
meant(c) ==
    [type |-> c.type, ID |-> c.id, strategy |-> c.strategy, opt |-> c.str_opt,
     list |-> CASE c.api = "publish_data" -> <<>>
                [] c.api = "publish_data_list" -> c.nodeIds
                [] c.api = "publish_data_isub" -> c.isubID
                [] OTHER -> c.prefix,
     data |-> IF c.api \in {"publish_data", "publish_data_list", "publish_data_isub"}
              THEN c.data ELSE <<>>]
-----------------------------------------------------------------------------
(* Events: LocalProxy::sendNotificationLocally and the datagrams it makes of *)
(* publications, and what getEventIntoBuf and the selector read of them.     *)

datagram(e) ==
    <<e.type, Len(e.id)>> \o e.id \o
    (IF e.type = PUBLISHED_DATA_iSUB THEN e.nodeId \o <<Len(e.isubID)>> \o e.isubID ELSE <<>>)
    \o e.data
getEventIntoBuf(m) ==
    LET id_len == m[2]
        ptr == 3 + id_len
        Rest(i) == SubSeq(m, i, Len(m))
        E(node, isub, data) ==
            [type |-> m[1], id |-> SubSeq(m, 3, 2 + id_len), nodeId |-> node, isubID |-> isub,
             data |-> data]
    IN  IF m[1] = PUBLISHED_DATA THEN E(<<>>, <<>>, Rest(ptr))
        ELSE IF m[1] = PUBLISHED_DATA_iSUB
        THEN LET n == m[ptr + 1]
             IN  E(<<m[ptr]>>, SubSeq(m, ptr + 2, ptr + 1 + n), Rest(ptr + 2 + n))
        ELSE E(<<>>, <<>>, <<>>)
\* The selector takes the fields in the same order.
received(m) == getEventIntoBuf(m)
-----------------------------------------------------------------------------
(* Blackadder: the caller sends and receives itself. *)

\* sendmsg fails when the node is not there; the request is then lost.
Request(c) ==
    /\ lib.kind = "Blackadder" /\ calls[c] < Len(plan.calls[c])
    /\ LET call == plan.calls[c][calls[c] + 1]
       IN  \/ accepts(call) /\ toNode' = Append(toNode, message(call)) /\ made' = Append(made, call)
           \/ UNCHANGED <<toNode, made>>
    /\ calls' = [calls EXCEPT ![c] = @ + 1]
    /\ UNCHANGED <<plan, lib, nbVars, toApp, heard, notified, handled>>

\* Peeking and reading are two system calls on one socket: two threads
\* that peek the same datagram each read one, of the length they peeked;
\* one thread at a time calls getEvent. UNDEF_EVENT changes nothing.
getEvent ==
    /\ lib.kind = "Blackadder" /\ toApp # <<>>
    /\ handled' = Append(handled, getEventIntoBuf(Head(toApp))) /\ toApp' = Tail(toApp)
    /\ UNCHANGED <<plan, lib, calls, nbVars, toNode, made, heard, notified>>
-----------------------------------------------------------------------------
(* NB_Blackadder. *)

\* The request is queued under selector_mutex. The caller whose request makes
\* the queue OVERFLOW long waits; the next ones do not.
Push(c) ==
    /\ lib.kind = "NB_Blackadder" /\ calls[c] < Len(plan.calls[c])
    /\ ~Contains(blocked, c) /\ (c = Worker => worker.at = "cf")
    /\ LET call == plan.calls[c][calls[c] + 1]
       IN  IF nbAccepts(call)
           THEN /\ output_queue' = Append(output_queue, nbMessage(call))
                /\ made' = Append(made, call)
                /\ pipe_fds' = IF Len(output_queue') = 1 THEN pipe_fds + 1 ELSE pipe_fds
                /\ blocked' = IF Len(output_queue') = OVERFLOW THEN Append(blocked, c) ELSE blocked
           ELSE UNCHANGED <<output_queue, made, pipe_fds, blocked>>
    /\ calls' = [calls EXCEPT ![c] = @ + 1]
    /\ UNCHANGED <<plan, lib, write_set, selector, event_queue, worker, toNode, toApp, heard, notified,
                   handled>>

\* select() returns the descriptors that are ready and clears the others in
\* both sets. A netlink socket always takes a datagram; a UNIX one has to have
\* room. An interrupted select leaves the sets and changes nothing.
Select ==
    /\ lib.kind = "NB_Blackadder" /\ selector.at = "select"
    /\ \E room \in IF lib.socket = "netlink" THEN {TRUE} ELSE BOOLEAN :
         /\ write_set' = (write_set /\ room)
         /\ selector' = [at |-> "selected", pipe |-> pipe_fds > 0, read |-> toApp # <<>>]
         /\ write_set' \/ selector'.pipe \/ selector'.read
    /\ UNCHANGED <<plan, lib, calls, blocked, output_queue, pipe_fds, event_queue, worker, toNode, toApp,
                   made, heard, notified, handled>>

\* The byte of the pipe asks for the socket's write side.
ReadPipe ==
    /\ selector.at = "selected"
    /\ selector' = [selector EXCEPT !.at = "piped"]
    /\ IF selector.pipe THEN pipe_fds' = pipe_fds - 1 /\ write_set' = TRUE
       ELSE UNCHANGED <<pipe_fds, write_set>>
    /\ UNCHANGED <<plan, lib, calls, blocked, output_queue, event_queue, worker, toNode, toApp, made,
                   heard, notified, handled>>

\* An event is queued and worker_cond signalled under worker_mutex.
ReadSocket ==
    /\ selector.at = "piped"
    /\ selector' = [selector EXCEPT !.at = "read"]
    /\ IF selector.read
       THEN /\ event_queue' = Append(event_queue, received(Head(toApp)))
            /\ toApp' = Tail(toApp)
            /\ worker' = IF worker.at = "wait" THEN [worker EXCEPT !.at = "loop"] ELSE worker
       ELSE UNCHANGED <<event_queue, toApp, worker>>
    /\ UNCHANGED <<plan, lib, calls, blocked, output_queue, pipe_fds, write_set, toNode, made, heard,
                   notified, handled>>

BadWriteSocket ==
    /\ selector.at = "read"
    /\ selector' = [at |-> "select", pipe |-> FALSE, read |-> FALSE]
    /\ IF write_set
       THEN \/ /\ toNode' = Append(toNode, Head(output_queue)) /\ output_queue' = Tail(output_queue)
               /\ UNCHANGED <<write_set, blocked>>
            \/ UNCHANGED <<toNode, output_queue, write_set, blocked>>
       ELSE UNCHANGED <<toNode, output_queue, write_set, blocked>>
    /\ UNCHANGED <<plan, lib, calls, pipe_fds, event_queue, worker, toApp, made, heard, notified, handled>>

\* Under selector_mutex; a failed sendmsg keeps the request. The signal at
\* an empty queue wakes one thread.
WriteSocket ==
    /\ selector.at = "read"
    /\ selector' = [at |-> "select", pipe |-> FALSE, read |-> FALSE]
    /\ IF write_set
       THEN /\ \/ toNode' = Append(toNode, Head(output_queue)) /\ output_queue' = Tail(output_queue)
               \/ UNCHANGED <<toNode, output_queue>>
            /\ write_set' = (output_queue' # <<>>)
            /\ IF ~write_set' /\ blocked # <<>>
               THEN \E i \in 1..Len(blocked) : blocked' = RemoveAt(blocked, i)
               ELSE UNCHANGED blocked
       ELSE UNCHANGED <<toNode, output_queue, write_set, blocked>>
    /\ UNCHANGED <<plan, lib, calls, pipe_fds, event_queue, worker, toApp, made, heard, notified, handled>>

\* The worker waits before it looks at the queue: an event that comes between
\* its last look and its wait stays there until the next one.
WorkerStep ==
    /\ lib.kind = "NB_Blackadder"
    /\ \/ worker.at = "top" /\ worker' = [worker EXCEPT !.at = "wait"]
          /\ UNCHANGED <<event_queue, handled>>
       \/ worker.at = "loop" /\ event_queue = <<>> /\ worker' = [worker EXCEPT !.at = "top"]
          /\ UNCHANGED <<event_queue, handled>>
       \/ worker.at = "loop" /\ event_queue # <<>>
          /\ worker' = [at |-> "cf", event |-> {Head(event_queue)}]
          /\ event_queue' = Tail(event_queue) /\ UNCHANGED handled
       \/ worker.at = "cf" /\ ~Contains(blocked, Worker)
          /\ worker' = [at |-> "loop", event |-> {}]
          /\ handled' = Append(handled, CHOOSE e \in worker.event : TRUE)
          /\ UNCHANGED event_queue
    /\ UNCHANGED <<plan, lib, calls, blocked, output_queue, pipe_fds, write_set, selector, toNode, toApp,
                   made, heard, notified>>

\* disconnect() writes to the socket itself, past what is queued, and closes
\* it; the object is of no use after that.
disconnect ==
    /\ lib.kind # "closed"
    /\ lib' = [lib EXCEPT !.kind = "closed"]
    /\ UNCHANGED <<plan, calls, nbVars, toNode, toApp, made, heard, notified, handled>>
-----------------------------------------------------------------------------
(* The node. *)

Hear ==
    /\ toNode # <<>>
    /\ heard' = Append(heard, understood(Head(toNode))) /\ toNode' = Tail(toNode)
    /\ UNCHANGED <<plan, lib, calls, nbVars, toApp, made, notified, handled>>

Notify ==
    /\ lib.kind # "closed" /\ Len(notified) < Len(plan.events)
    /\ LET e == plan.events[Len(notified) + 1]
       IN  notified' = Append(notified, e) /\ toApp' = Append(toApp, datagram(e))
    /\ UNCHANGED <<plan, lib, calls, nbVars, toNode, made, heard, handled>>

LibNext ==
    \/ \E c \in Caller : Request(c) \/ Push(c)
    \/ getEvent
    \/ Select \/ (lib.kind = "NB_Blackadder" /\ (ReadPipe \/ ReadSocket \/ WriteSocket))
    \/ WorkerStep \/ disconnect \/ Hear \/ Notify
-----------------------------------------------------------------------------
(* Properties. *)

\* The requests the node understands are the calls the application made, in
\* the order it made them, and the events the application gets are the ones
\* the node sent: no thread, failed write or layout of the fields loses,
\* repeats, swaps or changes one.
AsMade ==
    /\ IsPrefix(heard, [i \in 1..Len(made) |-> meant(made[i])])
    /\ IsPrefix(handled, notified)

\* Whenever the selector goes to sleep in select(), the byte in the pipe or
\* its interest in writing stands for a request in the queue, so that it
\* never takes the front of an empty queue; and with a netlink socket a
\* queued request is never left without either of them. (A UNIX socket
\* without room loses the interest when something else is ready: select()
\* cleared it and only the next request on an empty queue sets it again.)
SelectorAwake ==
    selector.at = "select" =>
        /\ (pipe_fds > 0 \/ write_set) => output_queue # <<>>
        /\ lib.socket = "netlink" /\ output_queue # <<>> => pipe_fds > 0 \/ write_set
=============================================================================
