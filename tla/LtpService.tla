----------------------------- MODULE LtpService -----------------------------
(***************************************************************************)
(* What LTP promises for the responses of a co-incidental multicast (CMC)  *)
(* group: every NAP of the group hands each session's packets to its       *)
(* client in the order they were published, each at most once and never    *)
(* mixed with another packet.  A publisher that gives up on a packet, or   *)
(* whose timer fires while messages of the session are still under way,    *)
(* ends the promise (broken): LTP reuses the session key and restarts the  *)
(* sequence numbers for every packet, and cannot tell late messages apart. *)
(***************************************************************************)
EXTENDS Integers, Sequences

CONSTANTS Nid, Sk

VARIABLES published,  \* published[sk]: packets published in the session
          received,   \* received[nid][sk]: the packets handed to the client
          broken

vars == <<published, received, broken>>

Init == /\ published = [s \in Sk |-> 0]
        /\ received = [n \in Nid |-> [s \in Sk |-> <<>>]]
        /\ broken = FALSE

Publish(s) == /\ published' = [published EXCEPT ![s] = @ + 1]
              /\ UNCHANGED <<received, broken>>

\* A node may miss a packet, but never receives an older one after a newer one.
Receive(n, s) ==
    LET got  == received[n][s]
        last == IF got = <<>> THEN 0 ELSE got[Len(got)]
    IN /\ \E p \in last + 1 .. published[s] :
              received' = [received EXCEPT ![n][s] = Append(@, p)]
       /\ UNCHANGED <<published, broken>>

Break == broken' = TRUE

Next == \/ \E s \in Sk : Publish(s)
        \/ \E n \in Nid, s \in Sk : Receive(n, s)
        \/ Break

Spec == Init /\ [][Next]_vars
=============================================================================
