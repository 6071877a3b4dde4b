------------------------------ MODULE Address -------------------------------
(***************************************************************************)
(* net::socket::address::build(): the parser that turns the address given *)
(* to sender::start() into a socket address.  A string is a sequence of    *)
(* one-character strings.  inet_pton() is the C library's: it is modelled *)
(* by the sets of literals it accepts among the model's strings, and      *)
(* inet_ntop() by the text it prints for the address a literal denotes.   *)
(*                                                                         *)
(* parse_port()'s loop is written as the code runs it (RECURSIVE, one     *)
(* digit per step); AddressSyntax states the whole rule with the ways of  *)
(* splitting the string at a colon, as the reference build() is checked  *)
(* against.                                                                *)
(***************************************************************************)
EXTENDS Integers, Sequences, SequencesExt

CONSTANTS
  IPv4Literals,  \* strings inet_pton(AF_INET, ., .) returns 1 for
  IPv6Literals,  \* strings inet_pton(AF_INET6, ., .) returns 1 for
  InetNtop       \* literal -> what inet_ntop() prints for the address it denotes

INET6_ADDRSTRLEN == 46
SUN_PATH_LEN == 108     \* sizeof(sockaddr_un::sun_path)
PORT_MAX == 65535

DigitValue ==
  "0" :> 0 @@ "1" :> 1 @@ "2" :> 2 @@ "3" :> 3 @@ "4" :> 4 @@
  "5" :> 5 @@ "6" :> 6 @@ "7" :> 7 @@ "8" :> 8 @@ "9" :> 9

\* The endpoint _M_sockaddr holds: its family and what build() stored (an
\* IP address is kept as its inet_ntop() text, one per binary address);
\* Unspec before any build() (the storage is left uninitialised).
Unspec == [family |-> "unspec"]
Inet(f, ip, port) == [family |-> f, ip |-> ip, port |-> port]
LocalPath(path) == [family |-> "unix", path |-> path]
\* build() returned false.
NoAddress == [family |-> "none"]

-----------------------------------------------------------------------------
(* The code.                                                              *)

\* parse_port()'s loop: a digit whose running value stays <= 65535 is
\* consumed, anything else returns false (-1 here).
RECURSIVE parse_port_loop(_, _)
parse_port_loop(s, n) ==
  IF s = <<>> THEN n
  ELSE IF Head(s) \in DOMAIN DigitValue /\ n * 10 + DigitValue[Head(s)] <= PORT_MAX
       THEN parse_port_loop(Tail(s), n * 10 + DigitValue[Head(s)])
       ELSE -1

\* Variant of parse_port: a port of 0 is accepted.
parse_port_zero(s) == LET n == parse_port_loop(s, 0) IN IF n >= 0 THEN n ELSE -1

\* parse_port(): the port, or -1 when it returns false (n > 0 is required).
parse_port(s) == LET n == parse_port_loop(s, 0) IN IF n > 0 THEN n ELSE -1

\* extract_ip_port()'s first loop: `colon` is set at every ':' until the
\* terminating NUL, so it ends as the index of the last one, 0 if none.
last_colon(s) ==
  LET colons == { i \in DOMAIN s : s[i] = ":" } IN
  IF colons = {} THEN 0 ELSE Max(colons)

\* extract_ip_port(): the text before the last ':' (without its brackets
\* when it starts with '[') and the port after it.
extract_ip_port(a) ==
  LET colon == last_colon(a)
      len == colon - 1
      bracketed == len > 0 /\ a[1] = "["
      ip == IF bracketed THEN SubSeq(a, 2, len - 1) ELSE SubSeq(a, 1, len)
  IN IF /\ colon > 0
        /\ len > 0
        /\ bracketed => len > 2 /\ a[colon - 1] = "]"
        /\ Len(ip) < INET6_ADDRSTRLEN
        /\ parse_port(SubSeq(a, colon + 1, Len(a))) # -1
     THEN [ok |-> TRUE, ip |-> ip, port |-> parse_port(SubSeq(a, colon + 1, Len(a)))]
     ELSE [ok |-> FALSE]

\* address::build(address, port): IPv4 if inet_pton(AF_INET) takes it,
\* else IPv6 if inet_pton(AF_INET6) does, else false.
build_ip_port(ip, port) ==
  IF ip \in IPv4Literals THEN Inet("inet", InetNtop[ip], port)
  ELSE IF ip \in IPv6Literals THEN Inet("inet6", InetNtop[ip], port)
  ELSE NoAddress

\* address::build(address): ip:port if extract_ip_port() succeeds (and
\* then only what build(ip, port) gives), else a local path of
\* 1 .. sizeof(sun_path) - 1 characters.
build(a) ==
  LET e == extract_ip_port(a) IN
  IF e.ok THEN build_ip_port(e.ip, e.port)
  ELSE IF Len(a) > 0 /\ Len(a) < SUN_PATH_LEN THEN LocalPath(a)
  ELSE NoAddress

-----------------------------------------------------------------------------
(* Printing: address::to_string(s, n).  The result is [ok |-> FALSE] for a *)
(* nullptr return (ENOSPC), else the text written into s.                  *)

Digit(d) == CHOOSE c \in DOMAIN DigitValue : DigitValue[c] = d

\* Variant of PortText: the digits come out least significant first.
RECURSIVE PortTextReversed(_)
PortTextReversed(n) ==
  IF n < 10 THEN <<Digit(n)>>
  ELSE <<Digit(n % 10)>> \o PortTextReversed(n \div 10)

\* snprintf("%u", ntohs(port)): the decimal digits, most significant first.
RECURSIVE PortText(_)
PortText(n) ==
  IF n < 10 THEN <<Digit(n)>>
  ELSE PortText(n \div 10) \o <<Digit(n % 10)>>

\* The text, if snprintf(s + len, left, fmt, ...) < left: it fits with its NUL.
Fits(text, left) == IF Len(text) < left THEN [ok |-> TRUE, text |-> text]
                    ELSE [ok |-> FALSE]

\* to_string(sockaddr_in): inet_ntop into n bytes, then ":%u" into the rest.
to_string_ipv4(e, n) ==
  IF Len(e.ip) < n
  THEN LET t == Fits(<<":">> \o PortText(e.port), n - Len(e.ip)) IN
       IF t.ok THEN [ok |-> TRUE, text |-> e.ip \o t.text] ELSE t
  ELSE [ok |-> FALSE]

\* to_string(sockaddr_in6): inet_ntop into s + 1, "]:%u" after it, then
\* s[0] = '['.
to_string_ipv6(e, n) ==
  IF n > 1 /\ Len(e.ip) < n - 1
  THEN LET t == Fits(<<"]", ":">> \o PortText(e.port), n - (1 + Len(e.ip))) IN
       IF t.ok THEN [ok |-> TRUE, text |-> <<"[">> \o e.ip \o t.text] ELSE t
  ELSE [ok |-> FALSE]

\* to_string(sockaddr_un): a named path if it is shorter than n; an
\* unnamed one (sun_path[0] == 0) is all of sun_path if that fits.
to_string_local(e, n) ==
  IF Len(e.path) > 0 THEN Fits(e.path, n)
  ELSE IF SUN_PATH_LEN <= n THEN [ok |-> TRUE, text |-> e.path]
  ELSE [ok |-> FALSE]

\* address::to_string(s, n): by family.  A path built by build() is named,
\* so _M_addrlen > sizeof(sa_family_t) holds for it.
to_string(e, n) ==
  CASE e.family = "inet"  -> to_string_ipv4(e, n)
    [] e.family = "inet6" -> to_string_ipv6(e, n)
    [] e.family = "unix"  -> to_string_local(e, n)
    [] OTHER              -> [ok |-> FALSE]

-----------------------------------------------------------------------------
(* The reference: the address syntax stated without scans.                 *)

\* A decimal port 1..65535 (the strings' value by a left fold).
IsPort(p) ==
  /\ p # <<>>
  /\ Range(p) \subseteq DOMAIN DigitValue
  /\ FoldLeft(LAMBDA n, c : n * 10 + DigitValue[c], 0, p) \in 1..PORT_MAX

\* `h` without one enclosing pair of brackets.
Unbracketed(h) == IF h[1] = "[" THEN SubSeq(h, 2, Len(h) - 1) ELSE h

\* `a` is host:port with a colon-free port, a host that is non-empty,
\* bracketed only as a whole, and short enough for an INET6 string.
IpPortSplits(a) ==
  { <<h, p>> \in { <<SubSeq(a, 1, i - 1), SubSeq(a, i + 1, Len(a))>> :
                     i \in { j \in DOMAIN a : a[j] = ":" } } :
      /\ ":" \notin Range(p)
      /\ IsPort(p)
      /\ h # <<>>
      /\ h[1] = "[" => Len(h) > 2 /\ Last(h) = "]"
      /\ Len(Unbracketed(h)) < INET6_ADDRSTRLEN }

AddressSyntax(a) ==
  IF IpPortSplits(a) # {}
  THEN LET s == CHOOSE s \in IpPortSplits(a) : TRUE
           ip == Unbracketed(s[1])
           port == FoldLeft(LAMBDA n, c : n * 10 + DigitValue[c], 0, s[2])
       IN IF ip \in IPv4Literals THEN Inet("inet", InetNtop[ip], port)
          ELSE IF ip \in IPv6Literals THEN Inet("inet6", InetNtop[ip], port)
          ELSE NoAddress
  ELSE IF a # <<>> /\ Len(a) < SUN_PATH_LEN THEN LocalPath(a)
  ELSE NoAddress
=============================================================================
