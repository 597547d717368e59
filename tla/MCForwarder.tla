----------------------------- MODULE MCForwarder -----------------------------
(***************************************************************************)
(* A network for Forwarder: a triangle 1, 2, 3 with 4 behind 2 and 5       *)
(* behind 3.  Each link has an interface of its own at both ends; the      *)
(* links to 3 and 5 use the SDN type.                                      *)
(***************************************************************************)
EXTENDS Forwarder

Entry(a, b, bit, p) ==
    [from |-> a, to |-> b, src |-> <<a, b>>, dst |-> <<b, a>>, lid |-> {bit},
     proto |-> p]

Both(a, b, out, back, p) == {Entry(a, b, out, p), Entry(b, a, back, p)}

Net == Both(1, 2, "12", "21", "BA") \cup Both(2, 3, "23", "32", "SDN")
          \cup Both(1, 3, "13", "31", "SDN") \cup Both(2, 4, "24", "42", "BA")
          \cup Both(3, 5, "35", "53", "BA")

Bits == (UNION {l.lid : l \in Net}) \cup {"i1", "i3", "i4", "i5"}

\* The internal LID of 2 is contained in every FID for both 4 and 5.
Internal == [n \in 1..5 |-> CASE n = 1 -> {"i1"} [] n = 2 -> {"i4", "i5"}
                              [] n = 3 -> {"i3"} [] n = 4 -> {"i4"} [] n = 5 -> {"i5"}]

\* t: a tree from 1 to 4 and 5.  b: the same with both directions of its
\* links, and the source.  d: two ways to 3 and on to 5, and by chance to 4.
\* c: to everybody around 2.  n: no link of the source.
Packets == {"t", "b", "d", "c", "n"}
Sources == [p \in Packets |-> IF p = "c" THEN 2 ELSE 1]
FIDs == [p \in Packets |->
    CASE p = "t" -> {"12", "23", "24", "35", "i4", "i5"}
      [] p = "b" -> {"12", "21", "23", "32", "24", "42", "35", "53", "i1", "i4", "i5"}
      [] p = "d" -> {"12", "13", "23", "24", "35", "i3", "i5"}
      [] p = "c" -> Bits
      [] p = "n" -> {"24", "i4"}]
=============================================================================
