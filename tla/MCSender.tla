------------------------------ MODULE MCSender ------------------------------
(* Instantiates Sender for TLC: one or two producers, two or three buffers, *)
(* a leftover file from an earlier run.                                    *)
EXTENDS Sender

CONSTANTS p1, p2, b1, b2, b3, m1, m2, m3, m4, old1

MCScript1 == [p \in {p1} |-> <<m1, m2>>]
MCScript2 == [p \in {p1, p2} |-> IF p = p1 THEN <<m1>> ELSE <<m2>>]
MCScript3 == [p \in {p1, p2} |-> IF p = p1 THEN <<m1, m2>> ELSE <<m3>>]
MCLeftover == [n \in {old1} |-> m3]
NoLeftover == [n \in {} |-> m3]

\* Bound: a save_buffer() probe always finds a free name in 0..MaxName
\* (the code's counter is unbounded; states past the bound are not explored).
NamesSuffice ==
  \A t \in Threads :
    pc[t] = "sv_probe" => \E c \in sCnt[t]..MaxName : dir[c] = NoFile
=============================================================================
