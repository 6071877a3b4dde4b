----------------------------- MODULE BufferQueue ----------------------------
(***************************************************************************)
(* net::buffers (src/net/buffers.h, src/net/buffers.cpp): the FIFO of     *)
(* buffers waiting for the sender's worker.  It is a circular doubly      *)
(* linked list with a header node; every operation holds the mutex for    *)
(* its whole body, so each is one atomic step.  The list is represented   *)
(* here by the sequence `queue` from header.next to header.prev; the      *)
(* _M_next fields the operations write are kept in `link`, because the    *)
(* worker walks a popped chain through them after it left the queue.      *)
(***************************************************************************)
EXTENDS Naturals, FiniteSets, Sequences

CONSTANTS Buffers, Nil, Header

VARIABLES queue, link

\* buffers::distance walks _M_next from first until it meets last.  The
\* walk is bounded (the code would loop for ever on a broken chain).
RECURSIVE Chain(_, _, _)
Chain(first, last, k) ==
  IF first = last \/ k <= 1 \/ link[first] \notin Buffers
  THEN <<first>>
  ELSE <<first>> \o Chain(link[first], last, k - 1)

ChainOf(first, last) == Chain(first, last, Cardinality(Buffers))

\* buffers::push_back(buf): link buf after header.prev; returns the new count.
PushBack(buf) ==
  /\ queue' = Append(queue, buf)
  /\ link' = IF queue = <<>> THEN [link EXCEPT ![buf] = Header]
             ELSE [link EXCEPT ![buf] = Header, ![queue[Len(queue)]] = buf]

\* buffers::push_front(first, last): splice the chain first..last (counted
\* by distance()) in front of header.next.
PushFront(first, last) ==
  /\ queue' = ChainOf(first, last) \o queue
  /\ link' = [link EXCEPT ![last] = IF queue = <<>> THEN Header ELSE queue[1]]

\* Variant of Pop: the header is not reset, the list still holds the chain.
PopKeep(first, last) ==
  /\ queue # <<>>
  /\ first = queue[1]
  /\ last = queue[Len(queue)]
  /\ UNCHANGED <<queue, link>>

\* buffers::pop(first, last[, timeout]) when the list is not empty: detach
\* the whole list; the chain keeps its _M_next links (last's is the header).
Pop(first, last) ==
  /\ queue # <<>>
  /\ first = queue[1]
  /\ last = queue[Len(queue)]
  /\ queue' = <<>>
  /\ UNCHANGED link
=============================================================================
