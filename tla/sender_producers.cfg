\* Two producers and the worker share the allocator (a chunk of two, then
\* a second allocation) and the queue; no producer-side spill, no leftover
\* file.  The worker's requeue of an unsent chain meets the producers'
\* push_back.  The exit save_buffers() may fail to open or write a file.
CONSTANTS
  Producers = {p1, p2}
  Worker = w
  Buffers = {b1, b2, b3}
  Msgs = {m1, m2, m3}
  Script <- MCScript3
  Leftover <- NoLeftover
  MaxName = 2
  Chunk = 2
  MaxQueued = 3
  IdleTimeout = 2
  ReconnectionTime = 1
  SaveCanFail = TRUE
  OpenCanFail = FALSE
  Nil = Nil
  Header = Header
  NoMsg = NoMsg
  NoFile = NoFile
  EmptyFile = EmptyFile
  p1 = p1
  p2 = p2
  b1 = b1
  b2 = b2
  b3 = b3
  m1 = m1
  m2 = m2
  m3 = m3
  m4 = m4
  old1 = old1
SPECIFICATION Spec
INVARIANT NoDuplicateSend
INVARIANT FifoOrder
CONSTRAINT NamesSuffice
