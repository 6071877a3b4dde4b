\* Producer-side spill beside the worker's send_files().
CONSTANTS
  Producers = {p1}
  Worker = w
  Buffers = {b1, b2}
  Msgs = {m1, m2, m3}
  Script <- MCScript1
  Leftover <- MCLeftover
  MaxName = 2
  Chunk = 2
  MaxQueued = 1
  IdleTimeout = 2
  ReconnectionTime = 1
  SaveCanFail = FALSE
  OpenCanFail = FALSE
  Nil = Nil
  Header = Header
  NoMsg = NoMsg
  NoFile = NoFile
  EmptyFile = EmptyFile
  p1 = p1
  p2 = p2
  b1 = b1
  b2 = b2
  b3 = b3
  m1 = m1
  m2 = m2
  m3 = m3
  m4 = m4
  old1 = old1
SPECIFICATION Spec
INVARIANT NoLoss
CONSTRAINT NamesSuffice
