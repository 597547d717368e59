--------------------------- MODULE Netlink_proofs ---------------------------
(***************************************************************************)
(* For every set of processes and any number of datagrams, in both builds: *)
(* no packet is left in a queue that nobody will empty, and LocalProxy     *)
(* gets the packets of each process in the order they were sent, whichever *)
(* way the senders and the Click thread interleave.                        *)
(***************************************************************************)
EXTENDS Netlink, SequenceTheorems, TLAPS

Packets == [pid : Process, seq : Nat]
FromTask == [scheduled : BOOLEAN, bit : BOOLEAN, running : BOOLEAN, drained : BOOLEAN]

TypeInv ==
    /\ build \in {"kernel", "user"}
    /\ wire \in [Port -> Seq(Packets)] /\ down_queue \in [Port -> Seq(Packets)]
    /\ up_queue \in [Port -> Seq(Packets)] /\ input \in [Port -> Seq(Packets)]
    /\ fromTask \in [Port -> FromTask] /\ toTask \in [Port -> FromTask]
    /\ sentDown \in [Port -> [Process -> Nat]]

\* The packets on the way down, the oldest first: what LocalProxy got and what
\* still waits for it in the queue or the socket.
waiting(e) == IF build = "kernel" THEN Reverse(down_queue[e]) ELSE wire[e]
flow(e) == input[e] \o waiting(e)

\* All that process p sent on port e is in s, and nothing else of p.
AllSent(s, p, n) ==
    /\ \A i \in 1..Len(s) : s[i].pid = p => s[i].seq <= n
    /\ \A k \in 1..n : \E i \in 1..Len(s) : s[i] = packet(p, k)

\* The lock: a task that has emptied the queue keeps it empty until it ends.
\* The user-level build uses no queue downwards.
TaskInv ==
    \A e \in Port :
        /\ fromTask[e].drained => fromTask[e].running /\ down_queue[e] = <<>>
        /\ build = "user" => down_queue[e] = <<>>
        /\ down_queue[e] # <<>> =>
               fromTask[e].scheduled \/ (fromTask[e].running /\ ~fromTask[e].drained)
        /\ up_queue[e] # <<>> => toTask[e].scheduled

FlowInv ==
    \A e \in Port :
        /\ InOrder(flow(e))
        /\ \A p \in Process : AllSent(flow(e), p, sentDown[e][p])

IInv == TypeInv /\ TaskInv /\ FlowInv

-----------------------------------------------------------------------------
(* Sequences. *)

\* Reverse turns a packet put in front into one at the end.
LEMMA ReversePush ==
    ASSUME NEW q \in Seq(Packets), NEW x \in Packets
    PROVE  Reverse(<<x>> \o q) = Append(Reverse(q), x)
<1> DEFINE r == <<x>> \o q
           a == Append(Reverse(q), x)
<1>1. <<x>> \in Seq(Packets) /\ Len(<<x>>) = 1 /\ <<x>>[1] = x /\ Len(q) \in Nat
  OBVIOUS
<1>2. /\ r \in Seq(Packets) /\ Len(r) = Len(q) + 1
      /\ \A i \in 1..(Len(q) + 1) : r[i] = IF i = 1 THEN x ELSE q[i - 1]
  BY <1>1, ConcatProperties
<1>3. /\ Reverse(q) \in Seq(Packets) /\ Len(Reverse(q)) = Len(q)
      /\ \A i \in 1..Len(q) : Reverse(q)[i] = q[Len(q) - i + 1]
  BY DEF Reverse
<1>4. /\ a \in Seq(Packets) /\ Len(a) = Len(q) + 1
      /\ \A i \in 1..Len(q) : a[i] = Reverse(q)[i]
      /\ a[Len(q) + 1] = x
  BY <1>3, AppendProperties
<1> HIDE DEF r, a
<1>5. /\ Reverse(r) \in Seq(Packets) /\ Len(Reverse(r)) = Len(q) + 1
      /\ \A i \in 1..(Len(q) + 1) : Reverse(r)[i] = r[Len(q) + 1 - i + 1]
  BY <1>2 DEF Reverse
<1>6. ASSUME NEW i \in 1..(Len(q) + 1) PROVE Reverse(r)[i] = a[i]
  <2> DEFINE k == Len(q) + 1 - i + 1
  <2>1. k \in 1..(Len(q) + 1) /\ Reverse(r)[i] = r[k]
    BY <1>1, <1>5
  <2>2. CASE i = Len(q) + 1
    BY <1>1, <1>2, <1>4, <2>1, <2>2
  <2>3. CASE i \in 1..Len(q)
    <3>1. k # 1 /\ k - 1 = Len(q) - i + 1
      BY <1>1, <2>3
    <3>2. r[k] = q[Len(q) - i + 1]
      BY <1>2, <2>1, <3>1
    <3>3. QED BY <1>3, <1>4, <2>1, <2>3, <3>2
  <2>4. QED BY <1>1, <2>2, <2>3
<1>7. Reverse(r) = a
  BY <1>4, <1>5, <1>6, SeqEqual
<1>8. QED BY <1>7 DEF r, a

LEMMA ReverseType ==
    ASSUME NEW q \in Seq(Packets)
    PROVE  /\ Reverse(q) \in Seq(Packets) /\ Len(Reverse(q)) = Len(q)
           /\ Reverse(<<>>) = <<>>
BY DEF Reverse

LEMMA Joining ==
    ASSUME NEW S, NEW s \in Seq(S), NEW t \in Seq(S), NEW x \in S
    PROVE  /\ s \o Append(t, x) = Append(s \o t, x)
           /\ s \o <<>> = s
           /\ s \o t \in Seq(S)
           /\ t # <<>> => Append(s, Head(t)) \o Tail(t) = s \o t
<1>1. s \o Append(t, x) = Append(s \o t, x)
  <2>1. s \o t \in Seq(S) /\ <<x>> \in Seq(S)
    BY ConcatProperties
  <2>2. QED BY <2>1, AppendIsConcat, ConcatAssociative
<1>2. s \o <<>> = s /\ s \o t \in Seq(S)
  BY ConcatEmptySeq, ConcatProperties
<1>3. ASSUME t # <<>> PROVE Append(s, Head(t)) \o Tail(t) = s \o t
  <2>1. Head(t) \in S /\ Tail(t) \in Seq(S) /\ <<Head(t)>> \in Seq(S)
    BY <1>3, HeadTailProperties
  <2>2. <<Head(t)>> \o Tail(t) = t
    BY <1>3
  <2>3. Append(s, Head(t)) = s \o <<Head(t)>>
    BY <2>1, AppendIsConcat
  <2>4. (s \o <<Head(t)>>) \o Tail(t) = s \o (<<Head(t)>> \o Tail(t))
    BY <2>1, ConcatAssociative
  <2>5. QED BY <2>2, <2>3, <2>4, Zenon
<1>4. QED BY <1>1, <1>2, <1>3, Zenon

LEMMA JoinAppend ==
    \A s, t \in Seq(Packets) : \A x \in Packets : s \o Append(t, x) = Append(s \o t, x)
BY Joining

LEMMA JoinHead ==
    \A s, t \in Seq(Packets) : t # <<>> => Append(s, Head(t)) \o Tail(t) = s \o t
BY Joining, HeadTailProperties

LEMMA OrderedPrefix ==
    ASSUME NEW s \in Seq(Packets), NEW t \in Seq(Packets), InOrder(s \o t)
    PROVE  InOrder(s)
<1>1. /\ Len(s) \in Nat /\ Len(t) \in Nat /\ Len(s \o t) = Len(s) + Len(t)
      /\ \A i \in 1..Len(s) : (s \o t)[i] = s[i]
  BY ConcatProperties
<1> SUFFICES ASSUME NEW i \in 1..Len(s)
             PROVE  /\ \A j \in 1..(i - 1) : s[j].pid = s[i].pid => s[j].seq < s[i].seq
                    /\ \A n \in 1..s[i].seq : \E j \in 1..i : s[j] = packet(s[i].pid, n)
  BY DEF InOrder
<1>2. i \in 1..Len(s \o t) /\ \A j \in 1..i : j \in 1..Len(s) /\ (s \o t)[j] = s[j]
  BY <1>1
<1>3. /\ \A j \in 1..(i - 1) :
             (s \o t)[j].pid = (s \o t)[i].pid => (s \o t)[j].seq < (s \o t)[i].seq
      /\ \A n \in 1..(s \o t)[i].seq : \E j \in 1..i : (s \o t)[j] = packet((s \o t)[i].pid, n)
  BY <1>2, Zenon DEF InOrder
<1>4. (s \o t)[i] = s[i] /\ \A j \in 1..(i - 1) : (s \o t)[j] = s[j]
  BY <1>2
<1>5. QED BY <1>2, <1>3, <1>4, Zenon

\* The next packet of a process keeps the order.
LEMMA OrderedAppend ==
    ASSUME NEW s \in Seq(Packets), NEW p \in Process, NEW n \in Nat,
           InOrder(s), \A q \in Process : q = p => AllSent(s, q, n)
    PROVE  /\ InOrder(Append(s, packet(p, n + 1)))
           /\ AllSent(Append(s, packet(p, n + 1)), p, n + 1)
           /\ \A q \in Process, m \in Nat :
                  q # p /\ AllSent(s, q, m) => AllSent(Append(s, packet(p, n + 1)), q, m)
<1> DEFINE x == packet(p, n + 1)
           t == Append(s, x)
<1>1. x \in Packets /\ x.pid = p /\ x.seq = n + 1
  BY DEF packet, Packets
<1> HIDE DEF x
<1>2. /\ t \in Seq(Packets) /\ Len(t) = Len(s) + 1 /\ t[Len(s) + 1] = x
      /\ \A i \in 1..Len(s) : t[i] = s[i] /\ t[i] \in Packets
      /\ Len(s) \in Nat
  BY <1>1
<1> HIDE DEF t
<1>3. AllSent(s, p, n)
  OBVIOUS
<1>4. AllSent(t, p, n + 1)
  <2>1. \A i \in 1..Len(t) : t[i].pid = p => t[i].seq <= n + 1
    <3>1. \A i \in 1..Len(s) : s[i].pid = p => s[i].seq <= n
      BY <1>3 DEF AllSent
    <3>2. \A i \in 1..Len(s) : s[i].seq \in Nat
      BY <1>2 DEF Packets
    <3>3. QED BY <1>1, <1>2, <3>1, <3>2
  <2>2. ASSUME NEW k \in 1..(n + 1) PROVE \E i \in 1..Len(t) : t[i] = packet(p, k)
    <3>1. CASE k = n + 1
      BY <1>2, <3>1 DEF x
    <3>2. CASE k \in 1..n
      BY <1>2, <1>3, <3>2 DEF AllSent
    <3>3. QED BY <3>1, <3>2
  <2>3. QED BY <2>1, <2>2 DEF AllSent
<1>5. ASSUME NEW q \in Process, NEW m \in Nat, q # p, AllSent(s, q, m)
      PROVE  AllSent(t, q, m)
  <2>1. \A i \in 1..Len(t) : t[i].pid = q => t[i].seq <= m
    BY <1>1, <1>2, <1>5 DEF AllSent
  <2>2. \A k \in 1..m : \E i \in 1..Len(t) : t[i] = packet(q, k)
    BY <1>2, <1>5 DEF AllSent
  <2>3. QED BY <2>1, <2>2 DEF AllSent
<1>6. InOrder(t)
  <2> SUFFICES ASSUME NEW i \in 1..Len(t)
               PROVE  /\ \A j \in 1..(i - 1) : t[j].pid = t[i].pid => t[j].seq < t[i].seq
                      /\ \A k \in 1..t[i].seq : \E j \in 1..i : t[j] = packet(t[i].pid, k)
    BY DEF InOrder
  <2>1. CASE i \in 1..Len(s)
    <3>1. /\ \A j \in 1..(i - 1) : s[j].pid = s[i].pid => s[j].seq < s[i].seq
          /\ \A k \in 1..s[i].seq : \E j \in 1..i : s[j] = packet(s[i].pid, k)
      BY <2>1 DEF InOrder
    <3>2. i \in Nat /\ i <= Len(s) /\ \A j \in 1..i : t[j] = s[j]
      BY <1>2, <2>1
    <3>3. t[i] = s[i] /\ \A j \in 1..(i - 1) : t[j] = s[j]
      BY <3>2
    <3>4. QED BY <3>1, <3>2, <3>3, Zenon
  <2>2. CASE i = Len(s) + 1
    <3>1. \A j \in 1..(i - 1) : t[j].pid = p => t[j].seq < n + 1
      <4>1. \A j \in 1..Len(s) : s[j].pid = p => s[j].seq <= n
        BY <1>3 DEF AllSent
      <4>2. \A j \in 1..Len(s) : s[j].seq \in Nat
        BY <1>2 DEF Packets
      <4>3. QED BY <1>2, <2>2, <4>1, <4>2
    <3>2. \A k \in 1..(n + 1) : \E j \in 1..i : t[j] = packet(p, k)
      BY <1>2, <1>4, <2>2 DEF AllSent
    <3>3. QED BY <1>1, <1>2, <2>2, <3>1, <3>2
  <2>3. QED BY <1>2, <2>1, <2>2
<1>7. QED BY <1>4, <1>5, <1>6 DEF t, x
-----------------------------------------------------------------------------
(* The flow of packets. *)

LEMMA FlowType ==
    ASSUME TypeInv, NEW e \in Port
    PROVE  input[e] \in Seq(Packets) /\ waiting(e) \in Seq(Packets) /\ flow(e) \in Seq(Packets)
<1>1. input[e] \in Seq(Packets) /\ down_queue[e] \in Seq(Packets) /\ wire[e] \in Seq(Packets)
  BY DEF TypeInv
<1>2. waiting(e) \in Seq(Packets)
  BY <1>1, ReverseType DEF waiting
<1>3. QED BY <1>1, <1>2, ConcatProperties DEF flow

\* A step that moves packets along and sends none.
LEMMA FlowKept ==
    ASSUME FlowInv, sentDown' = sentDown, \A e \in Port : flow(e)' = flow(e)
    PROVE  FlowInv'
BY DEF FlowInv

\* A step that moves nothing.
LEMMA FlowStill ==
    ASSUME FlowInv, UNCHANGED <<build, wire, down_queue, input, sentDown>>
    PROVE  FlowInv'
BY DEF FlowInv, flow, waiting

\* Process p sends its next packet on port e.
LEMMA FlowGrows ==
    ASSUME TypeInv, FlowInv, NEW e \in Port, NEW p \in Process,
           sentDown' = [sentDown EXCEPT ![e][p] = @ + 1],
           flow(e)' = Append(flow(e), packet(p, sentDown[e][p] + 1)),
           \A x \in Port : x # e => flow(x)' = flow(x)
    PROVE  FlowInv'
<1>1. flow(e) \in Seq(Packets)
  BY FlowType
<1>2. sentDown[e] \in [Process -> Nat] /\ sentDown[e][p] \in Nat
  BY DEF TypeInv
<1>3. InOrder(flow(e)) /\ \A q \in Process : AllSent(flow(e), q, sentDown[e][q])
  BY DEF FlowInv
<1>4. /\ InOrder(flow(e)') /\ AllSent(flow(e)', p, sentDown[e][p] + 1)
      /\ \A q \in Process, m \in Nat : q # p /\ AllSent(flow(e), q, m) => AllSent(flow(e)', q, m)
  BY <1>1, <1>2, <1>3, OrderedAppend
<1>5. \A q \in Process : sentDown'[e][q] = IF q = p THEN sentDown[e][q] + 1 ELSE sentDown[e][q]
  BY <1>2 DEF TypeInv
<1>6. \A q \in Process : AllSent(flow(e)', q, sentDown'[e][q])
  BY <1>2, <1>3, <1>4, <1>5
<1>7. ASSUME NEW x \in Port, x # e
      PROVE  InOrder(flow(x)') /\ \A q \in Process : AllSent(flow(x)', q, sentDown'[x][q])
  <2>1. sentDown'[x] = sentDown[x] /\ flow(x)' = flow(x)
    BY <1>7 DEF TypeInv
  <2>2. QED BY <2>1 DEF FlowInv
<1>8. QED BY <1>4, <1>6, <1>7, Zenon DEF FlowInv
-----------------------------------------------------------------------------
(* The actions. *)

\* Changing the task of one port.
LEMMA TaskSet ==
    ASSUME NEW f \in [Port -> FromTask], NEW e \in Port, NEW r \in FromTask
    PROVE  /\ [f EXCEPT ![e] = r] \in [Port -> FromTask] /\ [f EXCEPT ![e] = r][e] = r
           /\ \A y \in Port : y # e => [f EXCEPT ![e] = r][y] = f[y]
OBVIOUS

\* A process sends to the kernel: the queue grows in front, the flow at its end.
LEMMA CallbackKeeps ==
    ASSUME IInv, NEW e \in Port, NEW p \in Process, nl_callback(e, p)
    PROVE  IInv'
<1> DEFINE x == packet(p, sentDown[e][p] + 1)
<1>1. /\ TypeInv /\ TaskInv /\ FlowInv /\ build = "kernel" /\ ~fromTask[e].drained
      /\ sentDown' = [sentDown EXCEPT ![e][p] = @ + 1]
      /\ down_queue' = [down_queue EXCEPT ![e] = <<x>> \o @]
      /\ fromTask' = [fromTask EXCEPT ![e] = [@ EXCEPT !.scheduled = TRUE, !.bit = TRUE]]
      /\ UNCHANGED <<build, wire, up_queue, toTask, input>>
  BY Zenon DEF IInv, nl_callback
<1>2. x \in Packets
  BY <1>1 DEF TypeInv, packet, Packets
<1> HIDE DEF x
<1>3. <<x>> \o down_queue[e] \in Seq(Packets) /\ <<x>> \o down_queue[e] # <<>>
  BY <1>1, <1>2 DEF TypeInv
<1>4. /\ down_queue'[e] = <<x>> \o down_queue[e]
      /\ \A y \in Port : y # e => down_queue'[y] = down_queue[y]
  BY <1>1 DEF TypeInv
<1>5. TypeInv'
  <2>1. down_queue' \in [Port -> Seq(Packets)]
    BY <1>1, <1>3 DEF TypeInv
  <2>2. sentDown' \in [Port -> [Process -> Nat]]
    BY <1>1 DEF TypeInv
  <2>3. fromTask[e] \in FromTask /\ fromTask \in [Port -> FromTask]
    BY <1>1 DEF TypeInv
  <2>4. [fromTask[e] EXCEPT !.scheduled = TRUE, !.bit = TRUE] \in FromTask
    BY <2>3, Zenon DEF FromTask
  <2>5. fromTask' \in [Port -> FromTask]
    BY <1>1, <2>3, <2>4, TaskSet
  <2>6. QED BY <1>1, <2>1, <2>2, <2>5, Zenon DEF TypeInv
<1>6. TaskInv'
  <2>1. ASSUME NEW y \in Port, y # e
        PROVE  fromTask'[y] = fromTask[y] /\ down_queue'[y] = down_queue[y]
    BY <1>1, <2>1 DEF TypeInv
  <2>2. fromTask'[e].scheduled /\ ~fromTask'[e].drained
    BY <1>1 DEF TypeInv, FromTask
  <2>3. build' # "user" /\ up_queue' = up_queue /\ toTask' = toTask
    BY <1>1
  <2>4. QED BY <1>1, <2>1, <2>2, <2>3, Zenon DEF TaskInv
<1>7. FlowInv'
  <2>1. Reverse(down_queue'[e]) = Append(Reverse(down_queue[e]), x)
    BY <1>1, <1>2, <1>4, ReversePush DEF TypeInv
  <2>2. Reverse(down_queue[e]) \in Seq(Packets) /\ input[e] \in Seq(Packets)
    BY <1>1, ReverseType DEF TypeInv
  <2>3. \A y \in Port : /\ flow(y)' = input[y] \o Reverse(down_queue'[y])
                        /\ flow(y) = input[y] \o Reverse(down_queue[y])
    BY <1>1, Zenon DEF flow, waiting
  <2>4. input[e] \o Append(Reverse(down_queue[e]), x)
            = Append(input[e] \o Reverse(down_queue[e]), x)
    BY <1>2, <2>2, JoinAppend, Zenon
  <2>5. flow(e)' = Append(flow(e), x)
    BY <2>1, <2>3, <2>4, Zenon
  <2>6. \A y \in Port : y # e => flow(y)' = flow(y)
    BY <1>4, <2>3, Zenon
  <2>7. QED BY <1>1, <2>5, <2>6, FlowGrows, Zenon DEF x
<1>8. QED BY <1>5, <1>6, <1>7 DEF IInv

LEMMA StartTaskKeeps ==
    ASSUME IInv, NEW e \in Port, StartTask(e)
    PROVE  IInv'
<1>1. /\ TypeInv /\ TaskInv /\ FlowInv /\ ~fromTask[e].running
      /\ fromTask' = [fromTask EXCEPT ![e] = [@ EXCEPT !.scheduled = FALSE, !.bit = FALSE,
                                                       !.running = TRUE]]
      /\ UNCHANGED <<build, wire, down_queue, up_queue, toTask, sentDown, input>>
  BY Zenon DEF IInv, StartTask
<1>2. TypeInv'
  <2>1. fromTask[e] \in FromTask /\ fromTask \in [Port -> FromTask]
    BY <1>1 DEF TypeInv
  <2>2. [fromTask[e] EXCEPT !.scheduled = FALSE, !.bit = FALSE, !.running = TRUE] \in FromTask
    BY <2>1, Zenon DEF FromTask
  <2>3. fromTask' \in [Port -> FromTask]
    BY <1>1, <2>1, <2>2, TaskSet
  <2>4. QED BY <1>1, <2>3, Zenon DEF TypeInv
<1>3. TaskInv'
  <2>1. \A y \in Port : y # e => fromTask'[y] = fromTask[y]
    BY <1>1 DEF TypeInv
  <2>2. fromTask'[e].running /\ fromTask'[e].drained = fromTask[e].drained
    BY <1>1 DEF TypeInv, FromTask
  <2>3. ~fromTask[e].drained
    BY <1>1 DEF TaskInv
  <2>4. QED BY <1>1, <2>1, <2>2, <2>3, Zenon DEF TaskInv
<1>4. FlowInv'
  BY <1>1, FlowStill
<1>5. QED BY <1>2, <1>3, <1>4 DEF IInv

LEMMA EndTaskKeeps ==
    ASSUME IInv, NEW e \in Port, EndTask(e)
    PROVE  IInv'
<1>1. /\ TypeInv /\ TaskInv /\ FlowInv /\ fromTask[e].drained
      /\ fromTask' = [fromTask EXCEPT ![e] = [@ EXCEPT
                          !.scheduled = fromTask[e].scheduled \/ fromTask[e].bit,
                          !.running = FALSE, !.drained = FALSE]]
      /\ UNCHANGED <<build, wire, down_queue, up_queue, toTask, sentDown, input>>
  BY Zenon DEF IInv, EndTask
<1>2. TypeInv'
  <2>1. fromTask[e] \in FromTask /\ fromTask \in [Port -> FromTask]
    BY <1>1 DEF TypeInv
  <2> DEFINE r == [fromTask[e] EXCEPT !.scheduled = fromTask[e].scheduled \/ fromTask[e].bit,
                                      !.running = FALSE, !.drained = FALSE]
  <2>2. r \in FromTask
    BY <2>1, Zenon DEF FromTask
  <2>3. fromTask' = [fromTask EXCEPT ![e] = r]
    BY <1>1, Zenon
  <2> HIDE DEF r
  <2>4. fromTask' \in [Port -> FromTask]
    BY <2>1, <2>2, <2>3, TaskSet
  <2>5. QED BY <1>1, <2>4, Zenon DEF TypeInv
<1>3. TaskInv'
  <2>1. \A y \in Port : y # e => fromTask'[y] = fromTask[y]
    BY <1>1 DEF TypeInv
  <2>2. ~fromTask'[e].drained
    BY <1>1 DEF TypeInv, FromTask
  <2>3. down_queue[e] = <<>>
    BY <1>1 DEF TaskInv
  <2>4. QED BY <1>1, <2>1, <2>2, <2>3, Zenon DEF TaskInv
<1>4. FlowInv'
  BY <1>1, FlowStill
<1>5. QED BY <1>2, <1>3, <1>4 DEF IInv

\* The task passes the packets of the queue on, the oldest one first.
LEMMA DrainKeeps ==
    ASSUME IInv, NEW e \in Port, Drain(e)
    PROVE  IInv'
<1> DEFINE pkts == Reverse(down_queue[e])
           u == Reverse(pkts) \o up_queue[e]
           r == [toTask[e] EXCEPT !.scheduled = toTask[e].scheduled \/ pkts # <<>>,
                                  !.bit = toTask[e].bit \/ pkts # <<>>]
           f == [fromTask[e] EXCEPT !.drained = TRUE]
<1>1. /\ TypeInv /\ TaskInv /\ FlowInv /\ fromTask[e].running
      /\ input' = [input EXCEPT ![e] = input[e] \o pkts]
      /\ up_queue' = [up_queue EXCEPT ![e] = u]
      /\ toTask' = [toTask EXCEPT ![e] = r]
      /\ down_queue' = [down_queue EXCEPT ![e] = <<>>]
      /\ fromTask' = [fromTask EXCEPT ![e] = f]
      /\ UNCHANGED <<build, wire, sentDown>>
  BY Zenon DEF IInv, Drain, answered
<1>2. /\ down_queue[e] \in Seq(Packets) /\ up_queue[e] \in Seq(Packets) /\ input[e] \in Seq(Packets)
      /\ toTask[e] \in FromTask /\ fromTask[e] \in FromTask
      /\ toTask \in [Port -> FromTask] /\ fromTask \in [Port -> FromTask]
  BY <1>1 DEF TypeInv
<1>3. pkts \in Seq(Packets) /\ Reverse(pkts) \in Seq(Packets)
  BY <1>2, ReverseType
<1>4. input[e] \o pkts \in Seq(Packets) /\ u \in Seq(Packets)
  BY <1>2, <1>3, ConcatProperties
<1>5. r \in FromTask /\ (pkts # <<>> => r.scheduled) /\ (toTask[e].scheduled => r.scheduled)
  BY <1>2, Zenon DEF FromTask
<1>6. f \in FromTask /\ f.running = fromTask[e].running /\ f.drained
  BY <1>2, Zenon DEF FromTask
<1>7. Reverse(<<>>) = <<>> /\ <<>> \o up_queue[e] = up_queue[e]
  BY <1>2, ReverseType, ConcatEmptySeq
<1>8. pkts = <<>> => u = up_queue[e]
  BY <1>7, Zenon
<1> HIDE DEF r, f, u, pkts
<1>9. TypeInv'
  <2>1. toTask' \in [Port -> FromTask] /\ fromTask' \in [Port -> FromTask]
    BY <1>1, <1>2, <1>5, <1>6, TaskSet
  <2>2. /\ input' \in [Port -> Seq(Packets)] /\ up_queue' \in [Port -> Seq(Packets)]
        /\ down_queue' \in [Port -> Seq(Packets)]
    BY <1>1, <1>4 DEF TypeInv
  <2>3. QED BY <1>1, <2>1, <2>2, Zenon DEF TypeInv
<1>10. /\ input'[e] = input[e] \o pkts /\ up_queue'[e] = u /\ down_queue'[e] = <<>>
       /\ \A y \in Port : y # e => /\ input'[y] = input[y] /\ up_queue'[y] = up_queue[y]
                                   /\ down_queue'[y] = down_queue[y]
  BY <1>1 DEF TypeInv
<1>11. /\ toTask'[e] = r /\ fromTask'[e] = f
       /\ \A y \in Port : y # e => toTask'[y] = toTask[y] /\ fromTask'[y] = fromTask[y]
  BY <1>1, <1>2, <1>5, <1>6, TaskSet
<1>12. TaskInv'
  <2>1. up_queue'[e] # <<>> => toTask'[e].scheduled
    BY <1>1, <1>5, <1>8, <1>10, <1>11, Zenon DEF TaskInv
  <2>2. build' = build
    BY <1>1
  <2>3. fromTask'[e].running
    BY <1>1, <1>6, <1>11, Zenon
  <2> SUFFICES ASSUME NEW y \in Port
               PROVE  /\ fromTask'[y].drained => fromTask'[y].running /\ down_queue'[y] = <<>>
                      /\ build' = "user" => down_queue'[y] = <<>>
                      /\ down_queue'[y] # <<>> => \/ fromTask'[y].scheduled
                                                  \/ fromTask'[y].running /\ ~fromTask'[y].drained
                      /\ up_queue'[y] # <<>> => toTask'[y].scheduled
    BY Zenon DEF TaskInv
  <2>4. CASE y = e
    BY <1>10, <2>1, <2>3, <2>4, Zenon
  <2>5. CASE y # e
    <3>1. /\ fromTask[y].drained => fromTask[y].running /\ down_queue[y] = <<>>
          /\ build = "user" => down_queue[y] = <<>>
          /\ down_queue[y] # <<>> => \/ fromTask[y].scheduled
                                     \/ fromTask[y].running /\ ~fromTask[y].drained
          /\ up_queue[y] # <<>> => toTask[y].scheduled
      BY <1>1, Zenon DEF TaskInv
    <3>2. /\ fromTask'[y] = fromTask[y] /\ toTask'[y] = toTask[y]
          /\ down_queue'[y] = down_queue[y] /\ up_queue'[y] = up_queue[y]
      BY <1>10, <1>11, <2>5, Zenon
    <3>3. QED BY <2>2, <3>1, <3>2, Zenon
  <2>6. QED BY <2>4, <2>5
<1>13. FlowInv'
  <2>1. ASSUME NEW y \in Port, y # e PROVE flow(y)' = flow(y)
    <3>1. build' = build /\ wire' = wire /\ input'[y] = input[y] /\ down_queue'[y] = down_queue[y]
      BY <1>1, <1>10, <2>1
    <3>2. QED BY <3>1 DEF flow, waiting
  <2>2. CASE build = "kernel"
    <3>1. flow(e)' = (input[e] \o pkts) \o Reverse(<<>>) /\ flow(e) = input[e] \o pkts
      BY <1>1, <1>10, <2>2, Zenon DEF flow, waiting, pkts
    <3>2. (input[e] \o pkts) \o Reverse(<<>>) = input[e] \o pkts
      BY <1>2, <1>4, ReverseType, ConcatEmptySeq, Zenon
    <3>3. QED BY <1>1, <2>1, <3>1, <3>2, FlowKept, Zenon
  <2>3. CASE build # "kernel"
    <3>1. flow(e)' = (input[e] \o pkts) \o wire[e] /\ flow(e) = input[e] \o wire[e]
      BY <1>1, <1>10, <2>3, Zenon DEF flow, waiting
    <3>2. down_queue[e] = <<>>
      BY <1>1, <2>3 DEF TaskInv, TypeInv
    <3>3. pkts = <<>>
      BY <1>2, <3>2, ReverseType DEF pkts
    <3>4. input[e] \o pkts = input[e]
      BY <1>2, <3>3, ConcatEmptySeq
    <3>5. QED BY <1>1, <2>1, <3>1, <3>4, FlowKept, Zenon
  <2>4. QED BY <2>2, <2>3
<1>14. QED BY <1>9, <1>12, <1>13 DEF IInv

\* The answers leave in the kernel build.
LEMMA ToRunTaskKeeps ==
    ASSUME IInv, NEW e \in Port, to_run_task(e)
    PROVE  IInv'
<1>1. /\ TypeInv /\ TaskInv /\ FlowInv
      /\ up_queue' = [up_queue EXCEPT ![e] = <<>>] /\ toTask' = [toTask EXCEPT ![e] = Idle]
      /\ UNCHANGED <<build, wire, down_queue, fromTask, sentDown, input>>
  BY Zenon DEF IInv, to_run_task
<1>2. Idle \in FromTask
  BY Zenon DEF Idle, FromTask
<1>3. toTask \in [Port -> FromTask]
  BY <1>1 DEF TypeInv
<1>4. toTask' \in [Port -> FromTask] /\ \A y \in Port : y # e => toTask'[y] = toTask[y]
  BY <1>1, <1>2, <1>3, TaskSet
<1>5. /\ up_queue' \in [Port -> Seq(Packets)] /\ up_queue'[e] = <<>>
      /\ \A y \in Port : y # e => up_queue'[y] = up_queue[y]
  BY <1>1 DEF TypeInv
<1>6. TypeInv'
  BY <1>1, <1>4, <1>5, Zenon DEF TypeInv
<1>7. TaskInv'
  BY <1>1, <1>4, <1>5, Zenon DEF TaskInv
<1>8. FlowInv'
  BY <1>1, FlowStill
<1>9. QED BY <1>6, <1>7, <1>8 DEF IInv

\* A process sends to the socket of the user-level build.
LEMMA SendDownKeeps ==
    ASSUME IInv, NEW e \in Port, NEW p \in Process, SendDown(e, p)
    PROVE  IInv'
<1> DEFINE x == packet(p, sentDown[e][p] + 1)
<1>1. /\ TypeInv /\ TaskInv /\ FlowInv /\ build = "user"
      /\ sentDown' = [sentDown EXCEPT ![e][p] = @ + 1]
      /\ wire' = [wire EXCEPT ![e] = Append(@, x)]
      /\ UNCHANGED <<build, down_queue, fromTask, up_queue, toTask, input>>
  BY Zenon DEF IInv, SendDown
<1>2. x \in Packets
  BY <1>1 DEF TypeInv, packet, Packets
<1> HIDE DEF x
<1>3. wire[e] \in Seq(Packets) /\ input[e] \in Seq(Packets)
  BY <1>1 DEF TypeInv
<1>4. /\ wire' \in [Port -> Seq(Packets)] /\ wire'[e] = Append(wire[e], x)
      /\ \A y \in Port : y # e => wire'[y] = wire[y]
  BY <1>1, <1>2, <1>3 DEF TypeInv
<1>5. sentDown' \in [Port -> [Process -> Nat]]
  BY <1>1 DEF TypeInv
<1>6. TypeInv'
  BY <1>1, <1>4, <1>5, Zenon DEF TypeInv
<1>7. TaskInv'
  BY <1>1, Zenon DEF TaskInv
<1>8. FlowInv'
  <2>1. \A y \in Port : flow(y)' = input[y] \o wire'[y] /\ flow(y) = input[y] \o wire[y]
    BY <1>1, Zenon DEF flow, waiting
  <2>2. input[e] \o Append(wire[e], x) = Append(input[e] \o wire[e], x)
    BY <1>2, <1>3, JoinAppend, Zenon
  <2>3. flow(e)' = Append(flow(e), x)
    BY <1>4, <2>1, <2>2, Zenon
  <2>4. \A y \in Port : y # e => flow(y)' = flow(y)
    BY <1>4, <2>1, Zenon
  <2>5. QED BY <1>1, <2>3, <2>4, FlowGrows, Zenon DEF x
<1>9. QED BY <1>6, <1>7, <1>8 DEF IInv

\* The Click thread reads one datagram in the user-level build.
LEMMA FromSelectedKeeps ==
    ASSUME IInv, NEW e \in Port, from_selected(e)
    PROVE  IInv'
<1> DEFINE x == Head(wire[e])
           r == [toTask[e] EXCEPT !.scheduled = TRUE]
<1>1. /\ TypeInv /\ TaskInv /\ FlowInv /\ build = "user" /\ wire[e] # <<>>
      /\ wire' = [wire EXCEPT ![e] = Tail(wire[e])]
      /\ input' = [input EXCEPT ![e] = Append(input[e], x)]
      /\ up_queue' = [up_queue EXCEPT ![e] = up_queue[e] \o <<x>>]
      /\ toTask' = [toTask EXCEPT ![e] = r]
      /\ UNCHANGED <<build, down_queue, fromTask, sentDown>>
  BY Zenon DEF IInv, from_selected, outBuf
<1>2. /\ wire[e] \in Seq(Packets) /\ input[e] \in Seq(Packets) /\ up_queue[e] \in Seq(Packets)
      /\ toTask[e] \in FromTask /\ toTask \in [Port -> FromTask]
  BY <1>1 DEF TypeInv
<1>3. x \in Packets /\ Tail(wire[e]) \in Seq(Packets) /\ Append(input[e], x) \in Seq(Packets)
      /\ up_queue[e] \o <<x>> \in Seq(Packets)
  BY <1>1, <1>2
<1>4. r \in FromTask /\ r.scheduled
  BY <1>2, Zenon DEF FromTask
<1>5. Append(input[e], x) \o Tail(wire[e]) = input[e] \o wire[e]
  BY <1>1, <1>2, <1>3, JoinHead, Zenon
<1> HIDE DEF x, r
<1>6. /\ wire' \in [Port -> Seq(Packets)] /\ input' \in [Port -> Seq(Packets)]
      /\ up_queue' \in [Port -> Seq(Packets)]
      /\ wire'[e] = Tail(wire[e]) /\ input'[e] = Append(input[e], x)
      /\ \A y \in Port : y # e => /\ wire'[y] = wire[y] /\ input'[y] = input[y]
                                  /\ up_queue'[y] = up_queue[y]
  BY <1>1, <1>3 DEF TypeInv
<1>7. /\ toTask' \in [Port -> FromTask] /\ toTask'[e].scheduled
      /\ \A y \in Port : y # e => toTask'[y] = toTask[y]
  BY <1>1, <1>2, <1>4, TaskSet
<1>8. TypeInv'
  BY <1>1, <1>6, <1>7, Zenon DEF TypeInv
<1>9. TaskInv'
  BY <1>1, <1>6, <1>7, Zenon DEF TaskInv
<1>10. FlowInv'
  <2>1. \A y \in Port : flow(y)' = input'[y] \o wire'[y] /\ flow(y) = input[y] \o wire[y]
    BY <1>1, Zenon DEF flow, waiting
  <2>2. \A y \in Port : flow(y)' = flow(y)
    BY <1>5, <1>6, <2>1, Zenon
  <2>3. QED BY <1>1, <2>2, FlowKept, Zenon
<1>11. QED BY <1>8, <1>9, <1>10 DEF IInv

\* One answer leaves in the user-level build.
LEMMA ToSelectedKeeps ==
    ASSUME IInv, NEW e \in Port, to_selected(e)
    PROVE  IInv'
<1> DEFINE r == [toTask[e] EXCEPT !.scheduled = up_queue'[e] # <<>>]
<1>1. /\ TypeInv /\ TaskInv /\ FlowInv /\ up_queue[e] # <<>>
      /\ up_queue' = [up_queue EXCEPT ![e] = Tail(up_queue[e])]
      /\ toTask' = [toTask EXCEPT ![e] = r]
      /\ UNCHANGED <<build, wire, down_queue, fromTask, sentDown, input>>
  BY Zenon DEF IInv, to_selected
<1>2. toTask[e] \in FromTask /\ toTask \in [Port -> FromTask] /\ up_queue[e] \in Seq(Packets)
  BY <1>1 DEF TypeInv
<1>3. r \in FromTask /\ (up_queue'[e] # <<>> => r.scheduled)
  BY <1>2, Zenon DEF FromTask
<1> HIDE DEF r
<1>4. /\ up_queue' \in [Port -> Seq(Packets)]
      /\ \A y \in Port : y # e => up_queue'[y] = up_queue[y]
  BY <1>1, <1>2 DEF TypeInv
<1>5. /\ toTask' \in [Port -> FromTask] /\ toTask'[e] = r
      /\ \A y \in Port : y # e => toTask'[y] = toTask[y]
  BY <1>1, <1>2, <1>3, TaskSet
<1>6. TypeInv'
  BY <1>1, <1>4, <1>5, Zenon DEF TypeInv
<1>7. TaskInv'
  BY <1>1, <1>3, <1>4, <1>5, Zenon DEF TaskInv
<1>8. FlowInv'
  BY <1>1, FlowStill
<1>9. QED BY <1>6, <1>7, <1>8 DEF IInv
-----------------------------------------------------------------------------
(* The theorem. *)

LEMMA InitEstablishes == NetlinkInit => IInv
<1> SUFFICES ASSUME NetlinkInit PROVE IInv
  OBVIOUS
<1>1. Idle \in FromTask /\ ~Idle.drained
  BY Zenon DEF Idle, FromTask
<1>2. TypeInv
  BY <1>1 DEF NetlinkInit, TypeInv
<1>3. TaskInv
  BY <1>1 DEF NetlinkInit, TaskInv
<1>4. ASSUME NEW e \in Port PROVE flow(e) = <<>>
  <2>1. down_queue[e] = <<>> /\ wire[e] = <<>> /\ input[e] = <<>>
    BY DEF NetlinkInit
  <2>2. Reverse(<<>>) = <<>>
    BY DEF Reverse
  <2>3. waiting(e) = <<>>
    BY <2>1, <2>2, Zenon DEF waiting
  <2>4. QED BY <2>1, <2>3 DEF flow
<1>5. InOrder(<<>>)
  BY DEF InOrder
<1>6. \A p \in Process : AllSent(<<>>, p, 0)
  BY DEF AllSent
<1>7. FlowInv
  BY <1>4, <1>5, <1>6 DEF FlowInv, NetlinkInit
<1>8. QED BY <1>2, <1>3, <1>7 DEF IInv

LEMMA StepKeeps == IInv /\ [NetlinkNext]_netlinkVars => IInv'
<1> SUFFICES ASSUME IInv, [NetlinkNext]_netlinkVars PROVE IInv'
  OBVIOUS
<1>1. "api" \in Port /\ "mgm" \in Port
  BY PortAssumption
<1>2. CASE \E p \in Process : nl_callback_api(p) \/ nl_callback_mgm(p)
  BY <1>1, <1>2, CallbackKeeps DEF nl_callback_api, nl_callback_mgm
<1>3. CASE \E e \in Port, p \in Process : SendDown(e, p)
  BY <1>3, SendDownKeeps
<1>4. ASSUME NEW e \in Port, run_task(e) PROVE IInv'
  BY <1>4, StartTaskKeeps, DrainKeeps, EndTaskKeeps DEF run_task
<1>5. CASE run_task("api") \/ run_task_mgm
  BY <1>1, <1>4, <1>5 DEF run_task_mgm
<1>6. CASE to_run_task("api") \/ to_run_task_mgm
  BY <1>1, <1>6, ToRunTaskKeeps DEF to_run_task_mgm
<1>7. CASE from_selected("api") \/ from_selected_mgm
  BY <1>1, <1>7, FromSelectedKeeps DEF from_selected_mgm
<1>8. CASE to_selected("api") \/ to_selected_mgm
  BY <1>1, <1>8, ToSelectedKeeps DEF to_selected_mgm
<1>9. CASE UNCHANGED netlinkVars
  <2>1. TypeInv' /\ TaskInv'
    BY <1>9, Zenon DEF IInv, TypeInv, TaskInv, netlinkVars
  <2>2. FlowInv'
    BY <1>9, FlowStill DEF IInv, netlinkVars
  <2>3. QED BY <2>1, <2>2 DEF IInv
<1>10. QED BY <1>2, <1>3, <1>5, <1>6, <1>7, <1>8, <1>9, Zenon DEF NetlinkNext

\* Between the sockets and LocalProxy, for any processes sending any number of
\* datagrams on both ports, in both builds: a packet in a queue always has a task
\* that will take it (nl_callback against run_task under down_mutex), and
\* LocalProxy gets the packets of each process in order, none twice, none lost.
THEOREM NeverStranded == NetlinkSpec => []NothingStranded
<1>1. IInv => NothingStranded
  <2> SUFFICES ASSUME IInv, NEW e \in Port
               PROVE  /\ down_queue[e] # <<>> =>
                             \/ fromTask[e].scheduled
                             \/ fromTask[e].running /\ ~fromTask[e].drained
                      /\ up_queue[e] # <<>> => toTask[e].scheduled
                      /\ InOrder(input[e])
    BY Zenon DEF NothingStranded
  <2>1. input[e] \in Seq(Packets) /\ waiting(e) \in Seq(Packets)
    BY FlowType DEF IInv
  <2>2. InOrder(input[e] \o waiting(e))
    BY Zenon DEF IInv, FlowInv, flow
  <2>3. InOrder(input[e])
    BY <2>1, <2>2, OrderedPrefix
  <2>4. QED BY <2>3, Zenon DEF IInv, TaskInv
<1>2. QED BY <1>1, InitEstablishes, StepKeeps, PTL DEF NetlinkSpec
=============================================================================
