---------------------------- MODULE MCTransport -----------------------------
(* Two payloads of two units each: enough for a payload cut short on one  *)
(* connection and a second payload behind it.  Address strings built from *)
(* hosts and ports that sit on each edge of the parser's checks.          *)
EXTENDS Transport

CONSTANTS m1, m2

MCMsgs == <<m1, m2>>

\* Strings as sequences of characters.
V4 == <<"1", ".", "2", ".", "3", ".", "4">>
V6 == <<":", ":", "1">>
V6z == <<"0", ":", ":", "1">>      \* the same address as V6, not in canonical form
Word(n) == [i \in 1..n |-> "a"]

MCIPv4Literals == {V4}
MCIPv6Literals == {V6, V6z}
MCInetNtop == [l \in {V4, V6, V6z} |-> IF l = V6z THEN V6 ELSE l]

\* Hosts: empty, a name, the literals bare and bracketed (IPv6 also in a
\* non-canonical form), broken brackets,
\* and names on both sides of INET6_ADDRSTRLEN.
Hosts ==
  { <<>>, <<"h">>, V4, V6, <<"[">> \o V6 \o <<"]">>, <<"[">> \o V4 \o <<"]">>,
    <<"[">> \o V6z \o <<"]">>,
    <<"[", "]">>, <<"[">> \o V6, Word(45), Word(46),
    <<"[">> \o Word(45) \o <<"]">> }

\* Ports: missing, zero, in range, the largest, one past it, not digits.
Ports ==
  { <<>>, <<"0">>, <<"8", "0">>, <<"0", "8", "0">>, <<"6", "5", "5", "3", "5">>,
    <<"6", "5", "5", "3", "6">>, <<"9", "9", "9", "9", "9">>, <<"8", "a">> }

\* host:port strings, bare hosts, and paths on both sides of sun_path.
MCAddresses ==
  { h \o <<":">> \o p : h \in Hosts, p \in Ports } \cup Hosts
    \cup { <<"/", "s">>, Word(107), Word(108) }

\* One address that builds, for the runs about the transport alone.
MCOneAddress == { V4 \o <<":", "8", "0">> }
=============================================================================
