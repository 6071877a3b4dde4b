\* Two producers that both spill (every push passes MaxQueued = 0).
CONSTANTS
  Producers = {p1, p2}
  Worker = w
  Buffers = {b1, b2}
  Msgs = {m1, m2, m3}
  Script <- MCScript2
  Leftover <- NoLeftover
  MaxName = 2
  Chunk = 2
  MaxQueued = 0
  IdleTimeout = 2
  ReconnectionTime = 1
  SaveCanFail = FALSE
  OpenCanFail = FALSE
  Nil = Nil
  Header = Header
  NoMsg = NoMsg
  NoFile = NoFile
  EmptyFile = EmptyFile
  p1 = p1
  p2 = p2
  b1 = b1
  b2 = b2
  b3 = b3
  m1 = m1
  m2 = m2
  m3 = m3
  m4 = m4
  old1 = old1
SPECIFICATION Spec
INVARIANT SpillNamesDistinct
CONSTRAINT NamesSuffice
