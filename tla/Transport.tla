----------------------------- MODULE Transport ------------------------------
(***************************************************************************)
(* The sender's transport as the sender drives it: net::socket (connect,  *)
(* timed connect, send loop, recv probe, close) and net::ssl::socket      *)
(* (handshake on connect, SSL_write loop, SSL_read probe, close + free),  *)
(* selected once by `secure` as sender::start() selects the member-function *)
(* pointers.  The driver is the part of sender::run()/sender::send() that *)
(* calls them: connect if not connected, probe, send the head payload,    *)
(* drop it on success, disconnect and keep it queued (push_front) on      *)
(* failure, disconnect when idle.                                         *)
(*                                                                         *)
(* A payload is Size units: bytes for the plain socket, TLS records for   *)
(* SSL (a payload up to 16 KiB is one record).  `wire` is what the kernel *)
(* accepted, unit by unit, tagged with the connection it went out on.     *)
(* Faults (connect, handshake, send errors, poll timeouts, peer closes)   *)
(* happen only on the first MaxConn - 1 connection attempts: the network  *)
(* eventually recovers.                                                    *)
(*                                                                         *)
(* Before any of it, sender::start(address, enc, dir) builds _M_sockaddr  *)
(* from the address string (module Address) and starts the worker only   *)
(* if that succeeds.                                                       *)
(***************************************************************************)
EXTENDS Integers, Sequences, SequencesExt, Functions, Address

CONSTANTS
  Msgs,      \* the payloads queued, in order (a sequence of model values)
  Size,      \* units per payload
  MaxConn,   \* connection attempts; the last one is fault-free
  Addresses  \* strings sender::start() may be given

VARIABLES
  addr,      \* the address string passed to sender::start()
  endpoint,  \* sender::_M_sockaddr
  secure,    \* encryption::yes, chosen once by sender::start()
  fd,        \* socket::_M_fd: "closed" (-1), "pending" (EINPROGRESS), "open"
  ssl,       \* ssl::socket::_M_ssl # nullptr
  pc,        \* "start" (in sender::start()), "refused" (start() returned false);
             \* driver: "idle", "conn_wait", "handshake", "sending", "blocked"
  rem,       \* `len` of socket::send(buf, len, timeout): units still to send
  peer,      \* the peer on this connection: "up", "fin", "notify" (TLS close_notify + FIN)
  conn,      \* connection attempts so far; tags the units
  wire,      \* units the kernel accepted: <<conn, payload, index>>
  pending    \* payloads still queued, the head being sent

vars == <<addr, endpoint, secure, fd, ssl, pc, rem, peer, conn, wire, pending>>

Units == 1..Size
Conns == 1..MaxConn
MsgSet == Range(Msgs)

\* A fault may happen on this connection attempt.
FaultsLeft == conn < MaxConn

\* Units i+1 .. i+k of payload m, sent on the current connection.
Chunk(m, i, k) == [j \in 1..k |-> <<conn, m, i + j>>]

\* sender::connected_insecure()/connected_secure(): fd() != -1.
Connected == fd # "closed"

-----------------------------------------------------------------------------
(* Starting.                                                               *)

\* sender::start(enc, dir): the directory name fits _M_directory and stat()
\* finds a directory, the callbacks are selected by `secure`, _M_running is
\* set and pthread_create() succeeds (ok); otherwise _M_running is cleared
\* and start() returns false.  The directory is outside the model: which
\* branch is taken is an input.
StartWorker(ok) == pc' = IF ok THEN "idle" ELSE "refused"

\* sender::start(address, enc, dir): _M_sockaddr.build(address) ?
\* start(enc, dir) : false.  build() leaves _M_sockaddr as it was when it
\* fails; when start(enc, dir) fails, _M_sockaddr keeps what build() made.
Start ==
  /\ pc = "start"
  /\ LET b == build(addr) IN
       IF b = NoAddress THEN pc' = "refused" /\ UNCHANGED endpoint
       ELSE endpoint' = b /\ \E ok \in BOOLEAN : StartWorker(ok)
  /\ UNCHANGED <<fd, ssl, rem, peer, conn, wire, pending>>

-----------------------------------------------------------------------------
(* Closing.                                                                *)

\* ssl::socket::close(): _M_sock.close(), then SSL_free.  The plain
\* socket::close() is the same without the SSL part.
Disconnect ==
  /\ fd' = "closed"
  /\ ssl' = FALSE

\* sender::send() returned false: it disconnected; run() pushes the chain
\* back to the front, so the payload stays queued.
SendFailed ==
  /\ Disconnect
  /\ pc' = "idle"
  /\ UNCHANGED <<rem, peer, conn, wire, pending>>

\* The payload was sent: run() puts the buffer back and moves to the next.
Sent ==
  /\ pending' = Tail(pending)
  /\ pc' = "idle"

-----------------------------------------------------------------------------
(* Connecting: sender::connect() when not connected().                     *)

\* Where the driver goes once the TCP connection is up.
AfterTcp == IF secure THEN "handshake" ELSE "idle"

\* socket::connect(addr, len, timeout) up to the wait: ::socket, ::connect.
\* 0: get_socket_error; EINPROGRESS: wait; other errors: close, false.
SocketConnect ==
  /\ pc = "idle" /\ ~Connected /\ pending # <<>>
  /\ conn < MaxConn
  /\ conn' = conn + 1
  /\ peer' = "up"
  /\ \/ fd' = "open" /\ pc' = AfterTcp
     \/ fd' = "pending" /\ pc' = "conn_wait"
     \/ conn + 1 < MaxConn /\ fd' = "closed" /\ UNCHANGED pc
  /\ UNCHANGED <<ssl, rem, wire, pending>>

\* Variant of ConnectWait: the failed wait does not close the socket.
ConnectWaitNoClose ==
  /\ pc = "conn_wait"
  /\ \/ fd' = "open" /\ pc' = AfterTcp
     \/ FaultsLeft /\ fd' = fd /\ pc' = "idle"
  /\ UNCHANGED <<ssl, rem, peer, conn, wire, pending>>

\* wait_writable(timeout) and SO_ERROR == 0, else close the socket.
ConnectWait ==
  /\ pc = "conn_wait"
  /\ \/ fd' = "open" /\ pc' = AfterTcp
     \/ FaultsLeft /\ fd' = "closed" /\ pc' = "idle"
  /\ UNCHANGED <<ssl, rem, peer, conn, wire, pending>>

\* ssl::socket::handshake(timeout): the SSL_do_handshake loop, which waits
\* on WANT_READ/WANT_WRITE and fails on a timeout or any other error.
HandshakeResults == IF FaultsLeft /\ peer = "up" THEN {TRUE, FALSE}
                    ELSE IF peer = "up" THEN {TRUE} ELSE {FALSE}

\* ssl::socket::connect(timeout): handshake(client); on failure SSL_free
\* (inside handshake(mode)) and close the socket.
Handshake ==
  /\ pc = "handshake"
  /\ \E ok \in HandshakeResults :
       IF ok THEN ssl' = TRUE /\ pc' = "idle" /\ UNCHANGED fd
       ELSE Disconnect /\ pc' = "idle"
  /\ UNCHANGED <<rem, peer, conn, wire, pending>>

-----------------------------------------------------------------------------
(* sender::send(): the probe, then the send loop.                         *)

\* connection_closed_by_peer_insecure(): ::recv of 1 KiB returns 0 once
\* the FIN has arrived.
ClosedByPeerInsecure == peer # "up"

\* connection_closed_by_peer_secure(): SSL_read returns 0 only on
\* SSL_ERROR_ZERO_RETURN, i.e. a close_notify; a bare FIN is
\* SSL_ERROR_SYSCALL or SSL_ERROR_SSL and returns -1.
ClosedByPeerSecure == peer = "notify"

ClosedByPeer == IF secure THEN ClosedByPeerSecure ELSE ClosedByPeerInsecure

\* Variant of Probe: a closed connection fails the send but is not
\* disconnected.
ProbeNoDisconnect ==
  /\ pc = "idle" /\ Connected /\ pending # <<>>
  /\ IF ClosedByPeer
     THEN UNCHANGED vars
     ELSE pc' = "sending" /\ rem' = Size
          /\ UNCHANGED <<fd, ssl, peer, conn, wire, pending>>

\* sender::send(buf, len): probe; if closed, disconnect and fail.
Probe ==
  /\ pc = "idle" /\ Connected /\ pending # <<>>
  /\ IF ClosedByPeer
     THEN SendFailed
     ELSE pc' = "sending" /\ rem' = Size
          /\ UNCHANGED <<fd, ssl, peer, conn, wire, pending>>

\* Variants of SendPart: ::send is passed the whole length instead of
\* `len`; `b` is not advanced; the loop stops at `len > 1`.
SendPartWholeLen ==
  /\ pc = "sending" /\ ~secure
  /\ \E k \in 1..Size :
       /\ wire' = wire \o Chunk(Head(pending), Size - rem, k)
       /\ rem' = rem - k
       /\ IF k >= rem THEN Sent ELSE UNCHANGED <<pc, pending>>
  /\ UNCHANGED <<fd, ssl, peer, conn>>

SendPartNoAdvance ==
  /\ pc = "sending" /\ ~secure
  /\ \E k \in 1..rem :
       /\ wire' = wire \o Chunk(Head(pending), 0, k)
       /\ rem' = rem - k
       /\ IF k = rem THEN Sent ELSE UNCHANGED <<pc, pending>>
  /\ UNCHANGED <<fd, ssl, peer, conn>>

SendPartEarlyTrue ==
  /\ pc = "sending" /\ ~secure
  /\ \E k \in 1..rem :
       /\ wire' = wire \o Chunk(Head(pending), Size - rem, k)
       /\ rem' = rem - k
       /\ IF k >= rem - 1 THEN Sent ELSE UNCHANGED <<pc, pending>>
  /\ UNCHANGED <<fd, ssl, peer, conn>>

\* socket::send(buf, len, timeout), one ::send: k units accepted, b += k,
\* len -= k; the loop returns true when len reaches 0.
SendPart ==
  /\ pc = "sending" /\ ~secure
  /\ \E k \in 1..rem :
       /\ wire' = wire \o Chunk(Head(pending), Size - rem, k)
       /\ rem' = rem - k
       /\ IF k = rem THEN Sent ELSE UNCHANGED <<pc, pending>>
  /\ UNCHANGED <<fd, ssl, peer, conn>>

\* ::send failed with EAGAIN: wait_writable.
SendEagain ==
  /\ pc = "sending" /\ ~secure
  /\ pc' = "blocked"
  /\ UNCHANGED <<fd, ssl, rem, peer, conn, wire, pending>>

\* ::send failed otherwise (EPIPE, ECONNRESET after the peer closed).
SendError ==
  /\ pc = "sending" /\ ~secure
  /\ FaultsLeft \/ peer # "up"
  /\ SendFailed

\* ssl::socket::send(buf, len, timeout), one SSL_write: OpenSSL writes k
\* records; it returns > 0 only once all are written, else WANT_WRITE
\* (then wait) after writing some.
SslWrite ==
  /\ pc = "sending" /\ secure
  /\ \E k \in 1..rem :
       /\ wire' = wire \o Chunk(Head(pending), Size - rem, k)
       /\ rem' = rem - k
       /\ IF k = rem THEN Sent ELSE pc' = "blocked" /\ UNCHANGED pending
  /\ UNCHANGED <<fd, ssl, peer, conn>>

\* SSL_write failed: SSL_ERROR_SSL, SYSCALL, ZERO_RETURN.
SslWriteFail ==
  /\ pc = "sending" /\ secure
  /\ FaultsLeft \/ peer # "up"
  /\ SendFailed

\* wait_writable(timeout): poll returned 1, or 0/-1 (timeout, error).
WaitWritable ==
  /\ pc = "blocked"
  /\ \/ pc' = "sending" /\ UNCHANGED <<fd, ssl, rem, peer, conn, wire, pending>>
     \/ FaultsLeft /\ SendFailed

\* run(): nothing queued, connected() and idle_timeout passed: disconnect.
IdleClose ==
  /\ pc = "idle" /\ Connected /\ pending = <<>>
  /\ Disconnect
  /\ UNCHANGED <<pc, rem, peer, conn, wire, pending>>

\* The peer closes: a FIN, or with TLS a close_notify and a FIN.
PeerClose ==
  /\ fd # "closed" /\ peer = "up" /\ FaultsLeft
  /\ peer' \in IF secure THEN {"fin", "notify"} ELSE {"fin"}
  /\ UNCHANGED <<fd, ssl, pc, rem, conn, wire, pending>>

\* Everything is sent and the connection closed; the worker idles.  Or
\* start() returned false and no worker runs.
Finished ==
  /\ \/ pc = "idle" /\ fd = "closed" /\ pending = <<>>
     \/ pc = "refused"
  /\ UNCHANGED vars

Init ==
  /\ addr \in Addresses
  /\ endpoint = Unspec
  /\ secure \in BOOLEAN
  /\ fd = "closed"
  /\ ssl = FALSE
  /\ pc = "start"
  /\ rem = 0
  /\ peer = "up"
  /\ conn = 0
  /\ wire = <<>>
  /\ pending = Msgs

\* What start() fixes for the worker's lifetime.
Config == <<addr, secure>>

Driver ==
  \/ Start /\ UNCHANGED Config
  \/ /\ \/ SocketConnect \/ ConnectWait \/ Handshake \/ Probe
        \/ SendPart \/ SendEagain \/ SendError \/ SslWrite \/ SslWriteFail
        \/ WaitWritable \/ IdleClose
     /\ UNCHANGED <<addr, endpoint, secure>>

Next == Driver \/ (PeerClose /\ UNCHANGED <<addr, endpoint, secure>>) \/ Finished

\* The worker thread is always scheduled (WF).  A socket that poll()
\* reports writable takes data: ::send cannot fail with EAGAIN for ever
\* while it is repeatedly able to send (SF).
Spec == Init /\ [][Next]_vars /\ WF_vars(Driver) /\ SF_vars(SendPart /\ UNCHANGED <<addr, endpoint, secure>>)

-----------------------------------------------------------------------------

TypeOK ==
  /\ addr \in Addresses
  /\ endpoint \in {Unspec} \cup {build(a) : a \in Addresses}
  /\ fd \in {"closed", "pending", "open"}
  /\ secure \in BOOLEAN
  /\ ssl \in BOOLEAN
  /\ pc \in {"start", "refused", "idle", "conn_wait", "handshake", "sending", "blocked"}
  /\ rem \in 0..Size
  /\ peer \in {"up", "fin", "notify"}
  /\ conn \in 0..MaxConn
  /\ wire \in Seq(Conns \X MsgSet \X Units)
  /\ pending \in Seq(MsgSet)

\* Outside a connect, connected() (fd != -1) means the transport is usable:
\* the socket is connected and, with TLS, has its SSL; and SSL state never
\* outlives its socket.  It is about every error path of the timed connect
\* and of ssl::socket::connect closing what it opened.
ConnectedMeansUsable ==
  /\ ssl => fd = "open"
  /\ (pc = "idle" /\ Connected) => fd = "open" /\ (secure => ssl)

\* On each connection the kernel is handed whole payloads, in queue order,
\* one after the other, only the last possibly cut short.  It is about the
\* send loop's `b += ret; len -= ret` across partial sends and EAGAIN waits.
Framed ==
  \A c \in Conns :
    LET s == SelectSeq(wire, LAMBDA u : u[1] = c) IN
    \A j \in 1..Len(s) :
      IF j = 1 THEN s[j][3] = 1
      ELSE IF s[j - 1][3] < Size
           THEN s[j][2] = s[j - 1][2] /\ s[j][3] = s[j - 1][3] + 1
           ELSE s[j][3] = 1 /\ \E k \in 1..Len(Msgs) - 1 :
                  Msgs[k] = s[j - 1][2] /\ Msgs[k + 1] = s[j][2]

\* A payload leaves the queue only after every unit of it went out on one
\* connection, and the queue is always what is left of Msgs in order.  It
\* is about send() returning true only for a whole payload.
DoneMeansWhole ==
  /\ IsSuffix(pending, Msgs)
  /\ \A k \in 1..Len(Msgs) - Len(pending) :
       \E c \in Conns : \A i \in Units : <<c, Msgs[k], i>> \in Range(wire)

\* Every queued payload is eventually sent, unless start() refused the
\* address.  It is about the driver always getting back to a usable
\* connection after a failure.
AllEventuallySent == <>(pending = <<>> \/ pc = "refused")

\* sender::start() keeps the endpoint the address syntax names and
\* refuses exactly the strings that name none: host:port with a port in
\* 1..65535 and an IPv4 or bracketed IPv6 literal, else a local path
\* shorter than sun_path.  It is about the character scans of parse_port()
\* and extract_ip_port(): the last colon, the bracket arithmetic, the
\* running bound on the port, and the fall-back to a local path.
StartBuildsAddress ==
  pc # "start" =>
    IF AddressSyntax(addr) = NoAddress THEN pc = "refused"
    ELSE endpoint = AddressSyntax(addr)

\* The endpoint start() built, printed by address::to_string() into a
\* buffer of sun_path's size, is text that address::build() parses back
\* to the same endpoint.  It is about to_string()'s "[", "]:" and ":%u"
\* framing and its length checks, against parse_port() and the last-colon
\* split of extract_ip_port().
PrintParsesBack ==
  endpoint # Unspec =>
    LET t == to_string(endpoint, SUN_PATH_LEN) IN
    t.ok /\ build(t.text) = endpoint

\* No unit of a payload is handed to the kernel twice.  It is about
\* run() pushing a payload back whole after send() failed part-way.
NoUnitTwice == IsInjective([j \in 1..Len(wire) |-> <<wire[j][2], wire[j][3]>>])

\* The probe catches a peer that closed before it: the driver never
\* starts sending on a connection the peer had already closed.  It is
\* about connection_closed_by_peer() being the only check before a send.
ProbeCatchesClose ==
  [][(pc = "idle" /\ pc' = "sending") => peer = "up"]_vars
=============================================================================
