\* Plain or TLS: a send that fails part-way, then a reconnect.
CONSTANTS
  m1 = m1
  m2 = m2
  Msgs <- MCMsgs
  Size = 2
  MaxConn = 3
  Addresses <- MCOneAddress
  IPv4Literals <- MCIPv4Literals
  IPv6Literals <- MCIPv6Literals
  InetNtop <- MCInetNtop
SPECIFICATION Spec
INVARIANT NoUnitTwice
