----------------------------- MODULE BufferPool -----------------------------
(***************************************************************************)
(* buffer::allocator (src/net/buffer.h, src/net/buffer.cpp): a LIFO free  *)
(* list of idle buffers threaded through each buffer's own _M_next field. *)
(* get() and put() hold the allocator mutex for their whole body, so each *)
(* is one atomic step.  When the list is empty, get() first allocates a   *)
(* chunk of fresh buffers; `new (std::nothrow)` may fail part-way.        *)
(***************************************************************************)
EXTENDS Naturals, FiniteSets, SequencesExt

CONSTANTS Buffers,   \* every buffer object the process may ever create
          Nil,       \* nullptr
          Chunk      \* allocator::allocation (10000 in the code)

VARIABLES poolFirst,  \* allocator::_M_first
          link,       \* buffer::_M_next of every buffer (the queue writes it too)
          allocated   \* the buffers allocator::allocate has created so far

\* The buffers reachable from _M_first along _M_next.  The walk is bounded
\* because a buffer put twice makes the list cyclic.
RECURSIVE ListFrom(_, _)
ListFrom(b, k) ==
  IF b \notin Buffers \/ k = 0 THEN <<>> ELSE <<b>> \o ListFrom(link[b], k - 1)

FreeList == ListFrom(poolFirst, Cardinality(Buffers) + 1)

\* allocator::put: push buf on the free list.
Put(buf) ==
  /\ link' = [link EXCEPT ![buf] = poolFirst]
  /\ poolFirst' = buf

\* allocator::get when _M_first is not null: pop the top of the list.
GetTop(buf) ==
  /\ poolFirst # Nil
  /\ buf = poolFirst
  /\ poolFirst' = link[poolFirst]
  /\ UNCHANGED <<link, allocated>>

\* allocator::get on an empty list: allocate() pushes k >= 1 fresh buffers
\* (fewer than Chunk when `new` fails part-way), then get() pops the last
\* one pushed.  Below it the list runs back to the first fresh buffer,
\* whose _M_next is the old (null) _M_first.
GetAllocate(buf) ==
  /\ poolFirst = Nil
  /\ \E k \in 1..Chunk :
       /\ k <= Cardinality(Buffers \ allocated)
       /\ LET fresh == SetToSeq(CHOOSE S \in SUBSET (Buffers \ allocated) :
                                  Cardinality(S) = k)
              pos(b) == CHOOSE i \in 1..k : fresh[i] = b
          IN /\ buf = fresh[k]
             /\ link' = [b \in Buffers |->
                          IF b \notin Range(fresh) THEN link[b]
                          ELSE IF pos(b) = 1 THEN Nil ELSE fresh[pos(b) - 1]]
             /\ poolFirst' = IF k = 1 THEN Nil ELSE fresh[k - 1]
             /\ allocated' = allocated \cup Range(fresh)

\* allocator::get: nullptr only when the list is empty and allocate()
\* could not create a single buffer.
GetFails ==
  /\ poolFirst = Nil
  /\ UNCHANGED <<poolFirst, link, allocated>>

Get(buf) == GetTop(buf) \/ GetAllocate(buf)

\* The free list is a finite chain that ends in nullptr.
FreeListAcyclic ==
  poolFirst = Nil \/ link[FreeList[Len(FreeList)]] = Nil
=============================================================================
