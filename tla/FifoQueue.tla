----------------------------- MODULE FifoQueue ------------------------------
(***************************************************************************)
(* What net::buffers promises its callers: a FIFO of buffers that threads  *)
(* add to at either end, one buffer or a whole chain at a time, and take   *)
(* from the front one at a time or all at once.  A buffer is always in     *)
(* exactly one place: the queue, one thread's hands, or outside (free).    *)
(***************************************************************************)
EXTENDS Naturals, Sequences

CONSTANTS Buffers, Threads

VARIABLES q, hand, free

absVars == <<q, hand, free>>

Init ==
  /\ q = <<>>
  /\ hand = [t \in Threads |-> <<>>]
  /\ free = Buffers

Give(t, s) == hand' = [hand EXCEPT ![t] = s]

\* Add what t holds (one buffer or a chain) at the back or at the front.
PushBack(t) == hand[t] # <<>> /\ q' = q \o hand[t] /\ Give(t, <<>>) /\ UNCHANGED free
PushFront(t) == hand[t] # <<>> /\ q' = hand[t] \o q /\ Give(t, <<>>) /\ UNCHANGED free

\* Take the first buffer, or every buffer.
PopFront(t) ==
  /\ hand[t] = <<>> /\ q # <<>>
  /\ Give(t, <<Head(q)>>) /\ q' = Tail(q) /\ UNCHANGED free
PopAll(t) ==
  /\ hand[t] = <<>> /\ q # <<>>
  /\ Give(t, q) /\ q' = <<>> /\ UNCHANGED free

\* Buffers enter and leave the threads' hands from outside the queue.
Acquire(t) ==
  /\ hand[t] = <<>>
  /\ \E b \in free : Give(t, <<b>>) /\ free' = free \ {b}
  /\ UNCHANGED q
Release(t) ==
  /\ hand[t] # <<>>
  /\ free' = free \cup {Head(hand[t])} /\ Give(t, Tail(hand[t]))
  /\ UNCHANGED q

Next ==
  \E t \in Threads :
    PushBack(t) \/ PushFront(t) \/ PopFront(t) \/ PopAll(t) \/ Acquire(t) \/ Release(t)

Spec == Init /\ [][Next]_absVars
=============================================================================
