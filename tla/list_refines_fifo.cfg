\* Two threads on net::buffers with three buffers: every operation, the
\* timed pops and spurious wake-ups.  The list refines FifoQueue.
CONSTANTS
  Buffers = {b1, b2, b3}
  Threads = {t1, t2}
  Header = Header
  Nil = Nil
  b1 = b1
  b2 = b2
  b3 = b3
  t1 = t1
  t2 = t2
  t3 = t3
SPECIFICATION Spec
INVARIANT TypeOK
INVARIANT RingWellFormed
PROPERTY AbsSpec
