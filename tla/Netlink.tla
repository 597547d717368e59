------------------------------ MODULE Netlink ------------------------------
(****************************************************************************)
(* The Click elements between the sockets of the applications and           *)
(* LocalProxy (src/fromnetlink.cc, tonetlink.cc, their copies for the       *)
(* management interface and netlink.cc), in the kernel build, where the     *)
(* sending process puts a packet on down_queue while the Click thread may   *)
(* be emptying it, and in the user-level build, where the elements are      *)
(* called when select() finds the socket ready. LocalProxy is represented   *)
(* by an answer to the process that sent the request.                       *)
(****************************************************************************)
EXTENDS Naturals, Sequences, SequencesExt

CONSTANTS
    Port,        \* "api" and "mgm": the two pairs of elements
    Process,     \* local processes
    MaxSent      \* bound: per port and process, the datagrams it sends

ASSUME PortAssumption == {"api", "mgm"} \subseteq Port

VARIABLES
    build,       \* "kernel" or "user"
    wire,        \* per port: datagrams in the user-level socket
    down_queue,  \* per port: FromNetlink's queue
    fromTask,    \* per port: [scheduled, bit, running, drained]
    up_queue,    \* per port: ToNetlink's queue (out_buf_queue in the user-level build)
    toTask,      \* per port: [scheduled, bit], scheduled also for SELECT_WRITE
    sentDown,    \* per process: datagrams sent, per port
    input,       \* per port: what LocalProxy got
    returned     \* per port and process: answers that reached it
netlinkVars == <<build, wire, down_queue, fromTask, up_queue, toTask, sentDown, input, returned>>

Idle == [scheduled |-> FALSE, bit |-> FALSE, running |-> FALSE, drained |-> FALSE]

\* A packet carries the port identifier of its process in an annotation.
packet(p, n) == [pid |-> p, seq |-> n]

\* Netlink opens and binds a socket for each port; the elements make their
\* queues and tasks, which are not scheduled before the first packet.
NetlinkInit ==
    /\ build \in {"kernel", "user"}
    /\ wire = [e \in Port |-> <<>>]
    /\ down_queue = [e \in Port |-> <<>>] /\ up_queue = [e \in Port |-> <<>>]
    /\ fromTask = [e \in Port |-> Idle] /\ toTask = [e \in Port |-> Idle]
    /\ sentDown = [e \in Port |-> [p \in Process |-> 0]]
    /\ input = [e \in Port |-> <<>>]
    /\ returned = [e \in Port |-> [p \in Process |-> <<>>]]

Badnl_callback(e, p) ==
    /\ build = "kernel" /\ sentDown[e][p] < MaxSent[e][p] /\ ~fromTask[e].drained
    /\ sentDown' = [sentDown EXCEPT ![e][p] = @ + 1]
    /\ down_queue' = [down_queue EXCEPT ![e] = <<packet(p, sentDown[e][p] + 1)>> \o @]
    /\ fromTask' = [fromTask EXCEPT ![e].bit = TRUE]
    /\ UNCHANGED <<build, wire, up_queue, toTask, input, returned>>

\* nl_callback, in the context of the sending process: push_front under
\* down_mutex, which the task holds while it empties the queue. The task
\* becomes scheduled, even one that is running.
nl_callback(e, p) ==
    /\ build = "kernel" /\ sentDown[e][p] < MaxSent[e][p] /\ ~fromTask[e].drained
    /\ sentDown' = [sentDown EXCEPT ![e][p] = @ + 1]
    /\ down_queue' = [down_queue EXCEPT ![e] = <<packet(p, sentDown[e][p] + 1)>> \o @]
    /\ fromTask' = [fromTask EXCEPT ![e] = [@ EXCEPT !.scheduled = TRUE, !.bit = TRUE]]
    /\ UNCHANGED <<build, wire, up_queue, toTask, input, returned>>
nl_callback_api(p) == nl_callback("api", p)
nl_callback_mgm(p) == nl_callback("mgm", p)

\* ToNetlink::push, called by LocalProxy in the Click thread: what a packet
\* of process p on port e leads to.
answered(queue, pkts) == Reverse(pkts) \o queue
outBuf(queue, pkts) == queue \o pkts

\* FromNetlink::run_task: the bit is cleared before down_mutex is taken, and
\* tested again before it is released.
StartTask(e) ==
    /\ fromTask[e].scheduled /\ \A x \in Port : ~fromTask[x].running
    /\ fromTask' = [fromTask EXCEPT ![e] = [@ EXCEPT !.scheduled = FALSE, !.bit = FALSE,
                                                     !.running = TRUE]]
    /\ UNCHANGED <<build, wire, down_queue, up_queue, toTask, sentDown, input, returned>>
Drain(e) ==
    /\ fromTask[e].running /\ ~fromTask[e].drained
    /\ LET packets == Reverse(down_queue[e])
       IN  /\ input' = [input EXCEPT ![e] = @ \o packets]
           /\ up_queue' = [up_queue EXCEPT ![e] = answered(@, packets)]
           /\ toTask' = [toTask EXCEPT ![e] = [@ EXCEPT
                            !.scheduled = toTask[e].scheduled \/ packets # <<>>,
                            !.bit = toTask[e].bit \/ packets # <<>>]]
    /\ down_queue' = [down_queue EXCEPT ![e] = <<>>]
    /\ fromTask' = [fromTask EXCEPT ![e].drained = TRUE]
    /\ UNCHANGED <<build, wire, sentDown, returned>>
EndTask(e) ==
    /\ fromTask[e].drained
    /\ fromTask' = [fromTask EXCEPT ![e] = [@ EXCEPT
                        !.scheduled = fromTask[e].scheduled \/ fromTask[e].bit,
                        !.running = FALSE, !.drained = FALSE]]
    /\ UNCHANGED <<build, wire, down_queue, up_queue, toTask, sentDown, input, returned>>
run_task(e) == StartTask(e) \/ Drain(e) \/ EndTask(e)
run_task_mgm == run_task("mgm")

\* ToNetlink::run_task: the last packet of up_queue first; netlink_unicast
\* loses it when the process has gone.
deliver(e, pkts, lost) ==
    returned' = [returned EXCEPT ![e] = [p \in Process |->
        @[p] \o SelectSeq(pkts, LAMBDA x : x.pid = p /\ x.pid \notin lost)]]
to_run_task(e) ==
    /\ build = "kernel" /\ toTask[e].scheduled /\ \A x \in Port : ~fromTask[x].running
    /\ \E lost \in SUBSET Process : deliver(e, Reverse(up_queue[e]), lost)
    /\ up_queue' = [up_queue EXCEPT ![e] = <<>>]
    /\ toTask' = [toTask EXCEPT ![e] = Idle]
    /\ UNCHANGED <<build, wire, down_queue, fromTask, sentDown, input>>
to_run_task_mgm == to_run_task("mgm")

\* The user-level build: datagrams wait in the socket, and the Click thread
\* reads one whenever SELECT_READ says so.
SendDown(e, p) ==
    /\ build = "user" /\ sentDown[e][p] < MaxSent[e][p]
    /\ sentDown' = [sentDown EXCEPT ![e][p] = @ + 1]
    /\ wire' = [wire EXCEPT ![e] = Append(@, packet(p, sentDown[e][p] + 1))]
    /\ UNCHANGED <<build, down_queue, fromTask, up_queue, toTask, input, returned>>
from_selected(e) ==
    /\ build = "user" /\ wire[e] # <<>>
    /\ wire' = [wire EXCEPT ![e] = Tail(@)]
    /\ input' = [input EXCEPT ![e] = Append(@, Head(wire[e]))]
    /\ up_queue' = [up_queue EXCEPT ![e] = outBuf(@, <<Head(wire[e])>>)]
    /\ toTask' = [toTask EXCEPT ![e].scheduled = TRUE]
    /\ UNCHANGED <<build, down_queue, fromTask, sentDown, returned>>
from_selected_mgm == from_selected("mgm")
\* One packet for each time the socket is ready; it is popped whatever
\* sendmsg returned, and the interest goes with the last one.
to_selected(e) ==
    /\ build = "user" /\ toTask[e].scheduled /\ up_queue[e] # <<>>
    /\ \E lost \in SUBSET Process : deliver(e, <<Head(up_queue[e])>>, lost)
    /\ up_queue' = [up_queue EXCEPT ![e] = Tail(@)]
    /\ toTask' = [toTask EXCEPT ![e].scheduled = up_queue'[e] # <<>>]
    /\ UNCHANGED <<build, wire, down_queue, fromTask, sentDown, input>>
to_selected_mgm == to_selected("mgm")

NetlinkNext ==
    \/ \E p \in Process : nl_callback_api(p) \/ nl_callback_mgm(p)
    \/ \E e \in Port, p \in Process : SendDown(e, p)
    \/ run_task("api") \/ run_task_mgm \/ to_run_task("api") \/ to_run_task_mgm
    \/ from_selected("api") \/ from_selected_mgm \/ to_selected("api") \/ to_selected_mgm

NetlinkSpec == NetlinkInit /\ [][NetlinkNext]_netlinkVars
-----------------------------------------------------------------------------
(* Property. *)

\* The packets of each process, from its first one on, none twice and none
\* left out.
InOrder(s) ==
    \A i \in 1..Len(s) :
        /\ \A j \in 1..(i - 1) : s[j].pid = s[i].pid => s[j].seq < s[i].seq
        /\ \A n \in 1..s[i].seq : \E j \in 1..i : s[j] = packet(s[i].pid, n)

\* A packet in a queue always has a task that will take it: one that is
\* scheduled or one that has not emptied the queue yet, whichever way the
\* sending process and the Click thread interleave (nl_callback, run_task);
\* and each process finds its packets passed on in the order it sent them.
NothingStranded ==
    \A e \in Port :
        /\ down_queue[e] # <<>> =>
               fromTask[e].scheduled \/ (fromTask[e].running /\ ~fromTask[e].drained)
        /\ up_queue[e] # <<>> => toTask[e].scheduled
        /\ InOrder(input[e])
=============================================================================
