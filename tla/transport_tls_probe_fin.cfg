\* The peer closes with a bare FIN before the probe (TLS shows it).
CONSTANTS
  m1 = m1
  m2 = m2
  Msgs <- MCMsgs
  Size = 1
  MaxConn = 3
  Addresses <- MCOneAddress
  IPv4Literals <- MCIPv4Literals
  IPv6Literals <- MCIPv6Literals
  InetNtop <- MCInetNtop
SPECIFICATION Spec
PROPERTY ProbeCatchesClose
