------------------------------ MODULE LtpScan ------------------------------
(***************************************************************************)
(* The loop with which an LTP receiver looks for gaps in what it has       *)
(* buffered when a WINDOW_END arrives (_handleControl of                   *)
(* apps/nap/transport/lightweight.cc), while the fragments of a packet     *)
(* arrive in any order, some of them more than once.                       *)
(***************************************************************************)
EXTENDS LtpCore, SequencesExt

CONSTANT MaxFragments

ASSUME MaxFragmentsAssumption == MaxFragments \in Nat

VARIABLES buffered, \* sequence numbers buffered for the session
          announced  \* sequence number of the WINDOW_END

scanVars == <<buffered, announced>>

ScanInit == /\ buffered \in {{k} : k \in 1..MaxFragments}
            /\ announced \in 1..MaxFragments

Arrive(k) == /\ buffered' = buffered \cup {k}
             /\ UNCHANGED announced

ScanNext == \E k \in 1..MaxFragments : Arrive(k)

ScanSpec == ScanInit /\ [][ScanNext]_scanVars

-----------------------------------------------------------------------------
\* Mutant: the range ends with the fragment after the gap.
BadRound(acc, k) ==
    LET gap == acc.previous + 1 < k
    IN IF acc.previous = 0 /\ k # 1
       THEN [first |-> 1, last |-> 1, previous |-> k, all |-> FALSE]
       ELSE [first |-> IF gap /\ acc.first = 0 THEN acc.previous + 1 ELSE acc.first,
             last |-> IF gap THEN k ELSE acc.last, previous |-> k, all |-> acc.all /\ ~gap]

\* One round of the loop; acc = [first, last, previous, all].
Round(acc, k) ==
    LET gap == acc.previous + 1 < k
    IN IF acc.previous = 0 /\ k # 1
       THEN [first |-> 1, last |-> 1, previous |-> k, all |-> FALSE]
       ELSE [first |-> IF gap /\ acc.first = 0 THEN acc.previous + 1 ELSE acc.first,
             last |-> IF gap THEN k - 1 ELSE acc.last,
             previous |-> k,
             all |-> acc.all /\ ~gap]

\* The loop over the map in ascending order, and the check of the last entry.
Scan(S, seq) ==
    LET acc == FoldLeft(Round, [first |-> 0, last |-> 0, previous |-> 0, all |-> TRUE],
                        SetToSortSeq(S, LAMBDA a, b : a < b))
    IN IF Max(S) < seq
       THEN [acc EXCEPT !.first = IF @ = 0 THEN seq ELSE @, !.last = seq, !.all = FALSE]
       ELSE acc

\* Whatever has arrived, in whatever order, the loop computes the range that
\* LtpCore defines, and declares the packet complete exactly when it is.
ScanFindsRange ==
    LET result == Scan(buffered, announced)
    IN /\ result.all = allFragmentsReceived(buffered, announced)
       /\ result.first = firstMissingSequence(buffered, announced)
       /\ result.last = lastMissingSequence(buffered, announced)

\* The WINDOW_ENDED or NACK of _handleControl is useful to the publisher.
UsefulAnswer == AnswerIsUseful(buffered, announced)
=============================================================================
