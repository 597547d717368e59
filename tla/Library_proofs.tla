--------------------------- MODULE Library_proofs ---------------------------
(***************************************************************************)
(* For every number of application threads, every sequence of calls and    *)
(* events and every limit of the queue: the selector of NB_Blackadder      *)
(* never sleeps over a queued request on a netlink socket, and never takes *)
(* the front of an empty queue.                                            *)
(***************************************************************************)
EXTENDS Library, TLAPS

\* Both libraries, over both families of sockets.
Kinds == [kind : {"Blackadder", "NB_Blackadder"}, socket : {"netlink", "unix"}]
LibSpec == LibInit(Kinds) /\ [][LibNext]_libVars

\* The requests that the plans can put into the queue.
Requests == {nbMessage(p.calls[c][i]) : p \in Plans, c \in Caller, i \in Nat}

TypeInv ==
    /\ plan \in Plans /\ calls \in [Caller -> Nat]
    /\ output_queue \in Seq(Requests) /\ write_set \in BOOLEAN
    /\ selector \in [at : {"select", "selected", "piped", "read"}, pipe : BOOLEAN, read : BOOLEAN]

\* A queue that is not empty has one token: the byte in the pipe, or the
\* interest in writing that reading the byte turns it into. It has never two,
\* an empty queue has none, and only a full UNIX socket loses it. What select()
\* said about the pipe is still true when the byte is read.
OneToken ==
    /\ pipe_fds \in {0, 1}
    /\ pipe_fds = 1 => ~write_set
    /\ output_queue = <<>> => pipe_fds = 0 /\ ~write_set
    /\ selector.at = "selected" /\ selector.pipe => pipe_fds = 1
    /\ lib.socket = "netlink" /\ output_queue # <<>> => pipe_fds = 1 \/ write_set

IInv == TypeInv /\ OneToken

\* What appending and taking a request do to the queue.
LEMMA Queue ==
    ASSUME NEW S, NEW q \in Seq(S), NEW x \in S
    PROVE  /\ Append(q, x) \in Seq(S) /\ Append(q, x) # <<>>
           /\ Len(Append(q, x)) = 1 <=> q = <<>>
OBVIOUS
LEMMA TailKept == ASSUME NEW S, NEW q \in Seq(S), q # <<>> PROVE Tail(q) \in Seq(S)
OBVIOUS

LEMMA PushKeeps == ASSUME IInv, NEW c \in Caller, Push(c) PROVE IInv'
<1> DEFINE call == plan.calls[c][calls[c] + 1]
<1>1. call = plan.calls[c][calls[c] + 1] /\ calls[c] \in Nat /\ plan \in Plans
  BY DEF IInv, TypeInv
<1>2. nbMessage(call) \in Requests
  <2>1. calls[c] + 1 \in Nat
    BY <1>1
  <2>2. QED BY <1>1, <2>1 DEF Requests
<1>3. /\ plan' = plan /\ calls' \in [Caller -> Nat]
      /\ write_set' = write_set /\ selector' = selector /\ lib' = lib
  BY DEF Push, IInv, TypeInv
<1>4. CASE nbAccepts(call)
  <2>1. /\ output_queue' = Append(output_queue, nbMessage(call))
        /\ pipe_fds' = IF Len(output_queue') = 1 THEN pipe_fds + 1 ELSE pipe_fds
    BY <1>4, Zenon DEF Push
  <2> HIDE DEF call
  <2>2. /\ output_queue' \in Seq(Requests) /\ output_queue' # <<>>
        /\ Len(output_queue') = 1 <=> output_queue = <<>>
    BY <1>2, <2>1, Queue DEF IInv, TypeInv
  <2>3. TypeInv'
    BY <1>3, <2>2 DEF IInv, TypeInv
  <2>4. OneToken'
    BY <1>3, <2>1, <2>2 DEF IInv, TypeInv, OneToken
  <2>5. QED BY <2>3, <2>4 DEF IInv
<1>5. CASE ~nbAccepts(call)
  <2>1. output_queue' = output_queue /\ pipe_fds' = pipe_fds
    BY <1>5, Zenon DEF Push
  <2>2. QED BY <1>3, <2>1 DEF IInv, TypeInv, OneToken
<1>6. QED BY <1>4, <1>5

LEMMA SelectKeeps == ASSUME IInv, Select PROVE IInv'
<1>1. PICK room \in IF lib.socket = "netlink" THEN {TRUE} ELSE BOOLEAN :
        /\ write_set' = (write_set /\ room)
        /\ selector' = [at |-> "selected", pipe |-> pipe_fds > 0, read |-> toApp # <<>>]
  BY Zenon DEF Select
<1>2. plan' = plan /\ calls' = calls /\ lib' = lib /\ output_queue' = output_queue /\ pipe_fds' = pipe_fds
  BY Zenon DEF Select
<1>3. write_set' \in BOOLEAN /\ (write_set' => write_set) /\ (lib.socket = "netlink" => write_set' = write_set)
  BY <1>1, Zenon DEF IInv, TypeInv
<1>4. selector'.at = "selected" /\ (selector'.pipe => pipe_fds > 0)
  BY <1>1, Zenon
<1>5. pipe_fds \in {0, 1} /\ (pipe_fds > 0 => pipe_fds = 1)
  BY DEF IInv, OneToken
<1>6. TypeInv'
  <2>1. selector' \in [at : {"select", "selected", "piped", "read"}, pipe : BOOLEAN, read : BOOLEAN]
    BY <1>1
  <2>2. QED BY <1>2, <1>3, <2>1, Zenon DEF IInv, TypeInv
<1>7. OneToken'
  <2>1. pipe_fds' \in {0, 1} /\ (pipe_fds' = 1 => ~write_set')
    BY <1>2, <1>3, <1>5, Zenon DEF IInv, OneToken
  <2>2. output_queue' = <<>> => pipe_fds' = 0 /\ ~write_set'
    BY <1>2, <1>3, Zenon DEF IInv, OneToken
  <2>3. selector'.at = "selected" /\ selector'.pipe => pipe_fds' = 1
    BY <1>2, <1>4, <1>5, Zenon
  <2>4. ASSUME lib'.socket = "netlink", output_queue' # <<>> PROVE pipe_fds' = 1 \/ write_set'
    <3>1. lib.socket = "netlink" /\ output_queue # <<>> /\ write_set' = write_set
      BY <1>2, <1>3, <2>4, Zenon
    <3>2. pipe_fds = 1 \/ write_set
      BY <3>1, Zenon DEF IInv, OneToken
    <3>3. QED BY <1>2, <3>1, <3>2, Zenon
  <2>5. QED BY <2>1, <2>2, <2>3, <2>4, Zenon DEF OneToken
<1>8. QED BY <1>6, <1>7 DEF IInv

LEMMA ReadPipeKeeps == ASSUME IInv, ReadPipe PROVE IInv'
<1>1. /\ selector' = [selector EXCEPT !.at = "piped"]
      /\ plan' = plan /\ calls' = calls /\ lib' = lib /\ output_queue' = output_queue
  BY Zenon DEF ReadPipe
<1>2. selector' \in [at : {"select", "selected", "piped", "read"}, pipe : BOOLEAN, read : BOOLEAN]
      /\ selector'.at = "piped"
  BY <1>1 DEF IInv, TypeInv
<1>3. CASE selector.pipe
  <2>1. pipe_fds = 1 /\ pipe_fds' = pipe_fds - 1 /\ write_set' = TRUE
    BY <1>3, Zenon DEF ReadPipe, IInv, OneToken
  <2>2. pipe_fds' = 0 /\ pipe_fds' # 1
    BY <2>1
  <2>3. output_queue # <<>>
    BY <2>1, <2>2 DEF IInv, OneToken
  <2>4. QED BY <1>1, <1>2, <2>1, <2>2, <2>3, Zenon DEF IInv, TypeInv, OneToken
<1>4. CASE ~selector.pipe
  <2>1. pipe_fds' = pipe_fds /\ write_set' = write_set
    BY <1>4, Zenon DEF ReadPipe
  <2>2. QED BY <1>1, <1>2, <2>1 DEF IInv, TypeInv, OneToken
<1>5. QED BY <1>3, <1>4

LEMMA WriteSocketKeeps == ASSUME IInv, WriteSocket PROVE IInv'
<1>1. /\ selector' = [at |-> "select", pipe |-> FALSE, read |-> FALSE]
      /\ plan' = plan /\ calls' = calls /\ lib' = lib /\ pipe_fds' = pipe_fds
  BY DEF WriteSocket
<1>2. CASE write_set
  <2>1. output_queue # <<>> /\ pipe_fds = 0
    BY <1>2 DEF IInv, OneToken
  <2>2. output_queue' = Tail(output_queue) \/ output_queue' = output_queue
    BY <1>2, Zenon DEF WriteSocket
  <2>3. output_queue' \in Seq(Requests)
    <3>1. output_queue \in Seq(Requests)
      BY DEF IInv, TypeInv
    <3>2. QED BY <2>1, <2>2, <3>1, TailKept
  <2>4. write_set' = (output_queue' # <<>>)
    BY <1>2, Zenon DEF WriteSocket
  <2>5. selector' \in [at : {"select", "selected", "piped", "read"}, pipe : BOOLEAN, read : BOOLEAN]
    BY <1>1, Zenon
  <2>6. TypeInv'
    BY <1>1, <2>3, <2>4, <2>5, Zenon DEF IInv, TypeInv
  <2>7. pipe_fds' \in {0, 1} /\ pipe_fds' = 0 /\ pipe_fds' # 1
    BY <1>1, <2>1
  <2>8. OneToken'
    BY <1>1, <2>4, <2>7, Zenon DEF OneToken
  <2>9. QED BY <2>6, <2>8 DEF IInv
<1>3. CASE ~write_set
  BY <1>1, <1>3 DEF WriteSocket, IInv, TypeInv, OneToken
<1>4. QED BY <1>2, <1>3

\* The other actions leave the queue, the pipe and the interest alone.
LEMMA Others ==
    ASSUME IInv, \/ \E c \in Caller : Request(c)
                 \/ getEvent \/ ReadSocket \/ WorkerStep \/ disconnect \/ Hear \/ Notify
                 \/ UNCHANGED libVars
    PROVE  IInv'
<1>1. output_queue' = output_queue /\ pipe_fds' = pipe_fds /\ write_set' = write_set /\ plan' = plan
  BY Zenon DEF Request, getEvent, ReadSocket, WorkerStep, disconnect, Hear, Notify, libVars, nbVars
<1>2. lib'.socket = lib.socket
  <2>1. CASE disconnect
    BY <2>1 DEF disconnect
  <2>2. CASE lib' = lib
    BY <2>2
  <2>3. QED
    BY <2>1, <2>2, Zenon DEF Request, getEvent, ReadSocket, WorkerStep, Hear, Notify, libVars
<1>3. calls' \in [Caller -> Nat]
  <2>1. CASE \E c \in Caller : Request(c)
    BY <2>1 DEF Request, IInv, TypeInv
  <2>2. CASE calls' = calls
    BY <2>2 DEF IInv, TypeInv
  <2>3. QED
    BY <2>1, <2>2, Zenon DEF getEvent, ReadSocket, WorkerStep, disconnect, Hear, Notify, libVars
<1>4. selector' = selector \/ (selector.at = "piped" /\ selector' = [selector EXCEPT !.at = "read"])
  BY Zenon DEF Request, getEvent, ReadSocket, WorkerStep, disconnect, Hear, Notify, libVars, nbVars
<1>5. selector' \in [at : {"select", "selected", "piped", "read"}, pipe : BOOLEAN, read : BOOLEAN]
      /\ (selector'.at = "selected" /\ selector'.pipe => selector.at = "selected" /\ selector.pipe)
  BY <1>4 DEF IInv, TypeInv
<1>6. QED BY <1>1, <1>2, <1>3, <1>5, Zenon DEF IInv, TypeInv, OneToken

\* In every behaviour of the library, an empty queue leaves no token behind and
\* a queued request on a netlink socket has one when the selector sleeps.
THEOREM NeverOverslept == LibSpec => []SelectorAwake
<1>1. LibInit(Kinds) => IInv
  <2> SUFFICES ASSUME LibInit(Kinds) PROVE IInv
    OBVIOUS
  <2>1. plan \in Plans /\ write_set \in BOOLEAN
    BY Zenon DEF LibInit
  <2>2. calls \in [Caller -> Nat]
    BY DEF LibInit
  <2>3. output_queue \in Seq(Requests)
    BY DEF LibInit
  <2>4. selector \in [at : {"select", "selected", "piped", "read"}, pipe : BOOLEAN, read : BOOLEAN]
    BY Zenon DEF LibInit
  <2>5. pipe_fds = 0 /\ pipe_fds \in {0, 1} /\ pipe_fds # 1 /\ output_queue = <<>> /\ ~write_set
    BY DEF LibInit
  <2>6. ~selector.pipe
    BY Zenon DEF LibInit
  <2>7. QED BY <2>1, <2>2, <2>3, <2>4, <2>5, <2>6, Zenon DEF IInv, TypeInv, OneToken
<1>2. IInv /\ [LibNext]_libVars => IInv'
  BY PushKeeps, SelectKeeps, ReadPipeKeeps, WriteSocketKeeps, Others, Zenon DEF LibNext
<1>3. IInv => SelectorAwake
  BY DEF IInv, OneToken, SelectorAwake
<1>4. QED BY <1>1, <1>2, <1>3, PTL DEF LibSpec
=============================================================================
