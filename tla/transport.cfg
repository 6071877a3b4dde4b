\* Plain or TLS: two payloads of two units, three connection attempts.
CONSTANTS
  m1 = m1
  m2 = m2
  Msgs <- MCMsgs
  Size = 2
  MaxConn = 3
  Addresses <- MCAddresses
  IPv4Literals <- MCIPv4Literals
  IPv6Literals <- MCIPv6Literals
  InetNtop <- MCInetNtop
SPECIFICATION Spec
INVARIANT TypeOK
INVARIANT ConnectedMeansUsable
INVARIANT Framed
INVARIANT DoneMeansWhole
INVARIANT StartBuildsAddress
INVARIANT PrintParsesBack
PROPERTY AllEventuallySent
