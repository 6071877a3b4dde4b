----------------------------- MODULE BufferList -----------------------------
(***************************************************************************)
(* net::buffers as the code builds it (src/net/buffers.h, buffers.cpp): a *)
(* circular doubly linked list through each buffer's _M_prev/_M_next with *)
(* a header node, a count, one mutex and one condition variable.  Every   *)
(* operation holds the mutex for its whole body and is one step, except   *)
(* the timed pops, which wait on the condition variable (releasing the    *)
(* mutex) and are split at the wait.  Threads hold buffers or chains      *)
(* between calls (`hand`); buffers outside are `free`.  The list refines  *)
(* FifoQueue with the queue read by walking _M_next from the header.      *)
(***************************************************************************)
EXTENDS Naturals, FiniteSets, Sequences

CONSTANTS Buffers, Threads, Header, Nil

VARIABLES
  next, prev,   \* buffer::_M_next, buffer::_M_prev of every node
  count,        \* buffers::_M_count
  hand,         \* per thread: the buffer or chain it holds, first to last
  free,         \* buffers held by no thread and not queued
  pc            \* per thread: "idle", waiting in, or woken from a timed pop

vars == <<next, prev, count, hand, free, pc>>

Nodes == Buffers \cup {Header}
Waiting == {"wait_front", "wait_all"}

\* The queue as a sequence: _M_next from header.next back to the header.
RECURSIVE WalkFrom(_, _)
WalkFrom(n, k) ==
  IF n \notin Buffers \/ k = 0 THEN <<>> ELSE <<n>> \o WalkFrom(next[n], k - 1)

ListSeq == WalkFrom(next[Header], Cardinality(Buffers) + 1)

\* buffers::distance: count nodes from first along _M_next until last.
RECURSIVE Distance(_, _, _)
Distance(first, last, k) ==
  IF first = last \/ first \notin Buffers \/ k = 0 THEN 1
  ELSE 1 + Distance(next[first], last, k - 1)

\* pthread_cond_signal: wake one thread blocked in a timed pop, if any.
Signal ==
  IF \E u \in Threads : pc[u] \in Waiting
  THEN \E u \in {v \in Threads : pc[v] \in Waiting} :
         pc' = [pc EXCEPT ![u] = IF pc[u] = "wait_front" THEN "woken_front" ELSE "woken_all"]
  ELSE UNCHANGED pc

Give(t, s) == hand' = [hand EXCEPT ![t] = s]

-----------------------------------------------------------------------------

\* push_back(buf).
PushBack(t) ==
  /\ pc[t] = "idle" /\ Len(hand[t]) = 1
  /\ LET buf == hand[t][1] IN
       /\ prev' = [prev EXCEPT ![buf] = prev[Header], ![Header] = buf]
       /\ next' = [next EXCEPT ![buf] = Header, ![prev[Header]] = buf]
  /\ count' = count + 1
  /\ Give(t, <<>>) /\ Signal
  /\ UNCHANGED free

\* push_front(buf).
PushFront(t) ==
  /\ pc[t] = "idle" /\ Len(hand[t]) = 1
  /\ LET buf == hand[t][1] IN
       /\ prev' = [prev EXCEPT ![buf] = Header, ![next[Header]] = buf]
       /\ next' = [next EXCEPT ![buf] = next[Header], ![Header] = buf]
  /\ count' = count + 1
  /\ Give(t, <<>>) /\ Signal
  /\ UNCHANGED free

\* Variant of PushBackChain: the old last buffer is not linked to first.
PushBackChainNoLink(t) ==
  /\ pc[t] = "idle" /\ hand[t] # <<>>
  /\ LET first == hand[t][1]
         last == hand[t][Len(hand[t])]
     IN /\ prev' = [prev EXCEPT ![first] = prev[Header], ![Header] = last]
        /\ next' = [next EXCEPT ![last] = Header]
        /\ count' = count + Distance(first, last, Cardinality(Buffers))
  /\ Give(t, <<>>) /\ Signal
  /\ UNCHANGED free

\* push_back(first, last): distance() outside the mutex, then splice.
PushBackChain(t) ==
  /\ pc[t] = "idle" /\ hand[t] # <<>>
  /\ LET first == hand[t][1]
         last == hand[t][Len(hand[t])]
     IN /\ prev' = [prev EXCEPT ![first] = prev[Header], ![Header] = last]
        /\ next' = [next EXCEPT ![last] = Header, ![prev[Header]] = first]
        /\ count' = count + Distance(first, last, Cardinality(Buffers))
  /\ Give(t, <<>>) /\ Signal
  /\ UNCHANGED free

\* push_front(first, last).
PushFrontChain(t) ==
  /\ pc[t] = "idle" /\ hand[t] # <<>>
  /\ LET first == hand[t][1]
         last == hand[t][Len(hand[t])]
     IN /\ prev' = [prev EXCEPT ![first] = Header, ![next[Header]] = last]
        /\ next' = [next EXCEPT ![last] = next[Header], ![Header] = first]
        /\ count' = count + Distance(first, last, Cardinality(Buffers))
  /\ Give(t, <<>>) /\ Signal
  /\ UNCHANGED free

\* Variants of TakeFront: the new head's _M_prev is not reset to the
\* header; the list is not checked for emptiness.
TakeFrontNoPrev(t) ==
  /\ next[Header] # Header
  /\ LET buf == next[Header] IN
       /\ next' = [next EXCEPT ![Header] = next[buf]]
       /\ Give(t, <<buf>>)
  /\ count' = count - 1
  /\ pc' = [pc EXCEPT ![t] = "idle"]
  /\ UNCHANGED <<prev, free>>

TakeFrontUnchecked(t) ==
  /\ LET buf == next[Header] IN
       /\ prev' = [prev EXCEPT ![next[buf]] = Header]
       /\ next' = [next EXCEPT ![Header] = next[buf]]
       /\ Give(t, <<buf>>)
  /\ count' = count - 1
  /\ pc' = [pc EXCEPT ![t] = "idle"]
  /\ UNCHANGED free

\* Unlink header.next (pop_front and pop_front(timeout) on a non-empty list).
TakeFront(t) ==
  /\ next[Header] # Header
  /\ LET buf == next[Header] IN
       /\ prev' = [prev EXCEPT ![next[buf]] = Header]
       /\ next' = [next EXCEPT ![Header] = next[buf]]
       /\ Give(t, <<buf>>)
  /\ count' = count - 1
  /\ pc' = [pc EXCEPT ![t] = "idle"]
  /\ UNCHANGED free

\* Detach the whole list (pop and pop(timeout) on a non-empty list).
TakeAll(t) ==
  /\ next[Header] # Header
  /\ Give(t, WalkFrom(next[Header], count))
  /\ prev' = [prev EXCEPT ![Header] = Header]
  /\ next' = [next EXCEPT ![Header] = Header]
  /\ count' = 0
  /\ pc' = [pc EXCEPT ![t] = "idle"]
  /\ UNCHANGED free

PopFront(t) == pc[t] = "idle" /\ hand[t] = <<>> /\ TakeFront(t)
PopAll(t) == pc[t] = "idle" /\ hand[t] = <<>> /\ TakeAll(t)

\* The timed pops on an empty list: pthread_cond_timedwait.
WaitFront(t) ==
  /\ pc[t] = "idle" /\ hand[t] = <<>> /\ next[Header] = Header
  /\ pc' = [pc EXCEPT ![t] = "wait_front"]
  /\ UNCHANGED <<next, prev, count, hand, free>>
WaitAll(t) ==
  /\ pc[t] = "idle" /\ hand[t] = <<>> /\ next[Header] = Header
  /\ pc' = [pc EXCEPT ![t] = "wait_all"]
  /\ UNCHANGED <<next, prev, count, hand, free>>

\* timedwait returned 0 without a signal (a spurious wake-up).
Spurious(t) ==
  /\ pc[t] \in Waiting
  /\ pc' = [pc EXCEPT ![t] = IF pc[t] = "wait_front" THEN "woken_front" ELSE "woken_all"]
  /\ UNCHANGED <<next, prev, count, hand, free>>

\* Woken with the mutex held again: take if the list is not empty, else
\* wait again.
WokenFront(t) == pc[t] = "woken_front" /\ TakeFront(t)
WokenAll(t) == pc[t] = "woken_all" /\ TakeAll(t)
WokenEmpty(t) ==
  /\ pc[t] \in {"woken_front", "woken_all"} /\ next[Header] = Header
  /\ pc' = [pc EXCEPT ![t] = IF pc[t] = "woken_front" THEN "wait_front" ELSE "wait_all"]
  /\ UNCHANGED <<next, prev, count, hand, free>>

\* timedwait returned ETIMEDOUT: return nullptr / 0.
TimedOut(t) ==
  /\ pc[t] \in Waiting
  /\ pc' = [pc EXCEPT ![t] = "idle"]
  /\ UNCHANGED <<next, prev, count, hand, free>>

\* A caller gets a buffer from outside (allocator::get), or lets go of the
\* first buffer it holds and keeps the rest of its chain (the sender's
\* walk: next = first->next(); put(first); first = next).
Acquire(t) ==
  /\ pc[t] = "idle" /\ hand[t] = <<>>
  /\ \E b \in free : Give(t, <<b>>) /\ free' = free \ {b}
  /\ UNCHANGED <<next, prev, count, pc>>
Release(t) ==
  /\ pc[t] = "idle" /\ hand[t] # <<>>
  /\ free' = free \cup {hand[t][1]}
  /\ Give(t, IF Len(hand[t]) = 1 THEN <<>> ELSE WalkFrom(next[hand[t][1]], Len(hand[t]) - 1))
  /\ UNCHANGED <<next, prev, count, pc>>

Init ==
  /\ next = [n \in Nodes |-> IF n = Header THEN Header ELSE Nil]
  /\ prev = [n \in Nodes |-> IF n = Header THEN Header ELSE Nil]
  /\ count = 0
  /\ hand = [t \in Threads |-> <<>>]
  /\ free = Buffers
  /\ pc = [t \in Threads |-> "idle"]

Next ==
  \E t \in Threads :
    \/ PushBack(t) \/ PushFront(t) \/ PushBackChain(t) \/ PushFrontChain(t)
    \/ PopFront(t) \/ PopAll(t) \/ WaitFront(t) \/ WaitAll(t) \/ Spurious(t)
    \/ WokenFront(t) \/ WokenAll(t) \/ WokenEmpty(t) \/ TimedOut(t)
    \/ Acquire(t) \/ Release(t)

Spec == Init /\ [][Next]_vars

-----------------------------------------------------------------------------

TypeOK ==
  /\ next \in [Nodes -> Nodes \cup {Nil}]
  /\ prev \in [Nodes -> Nodes \cup {Nil}]
  /\ count \in 0..Cardinality(Buffers)
  /\ hand \in [Threads -> Seq(Buffers)]
  /\ free \subseteq Buffers
  /\ pc \in [Threads -> {"idle", "wait_front", "wait_all", "woken_front", "woken_all"}]

\* The ring is intact: _M_next from the header comes back to it after
\* _M_count buffers, header.prev is the last of them, and every buffer's
\* _M_prev is the node before it.  It is about push_back reading
\* header.prev, which pop_front and pop must keep right when they empty
\* the list or unlink its head.
RingWellFormed ==
  LET s == ListSeq IN
    /\ Len(s) = count
    /\ IF count = 0 THEN next[Header] = Header /\ prev[Header] = Header
       ELSE /\ next[s[count]] = Header /\ prev[Header] = s[count]
            /\ prev[s[1]] = Header
            /\ \A i \in 2..count : prev[s[i]] = s[i - 1]

\* The list implements the FIFO: the queue is the walk along _M_next.
Abs == INSTANCE FifoQueue WITH q <- ListSeq
AbsSpec == Abs!Spec
=============================================================================
