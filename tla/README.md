# TLA+ models of netbuf's sender, buffer queue and transports

This directory holds TLA+ models of the concurrent core of `src/net`. They are
checked with TLC. Everything is translated from the C++ sources. The line
ranges each definition stands for are listed under `"map"` in `PROJECT.json`.

## The system

| Part | Source | What it does |
|------|--------|--------------|
| Buffer pool | `net/buffer.{h,cpp}` `buffer::allocator` | A LIFO free list threaded through each buffer's `_M_next`, under one mutex. When the list is empty, `get()` first allocates a chunk of 10 000 buffers. |
| Buffer | `net/buffer.{h,cpp}` | A payload plus its length. `init` reallocs and copies. `save` opens a file with `O_CREAT\|O_TRUNC`, writes it, and unlinks it on a write error. |
| Buffer queue | `net/buffers.{h,cpp}` | An intrusive circular list under a mutex and a condition variable. The sender uses `push_back`, `push_front(first,last)`, `pop(first,last)` and `pop(first,last,timeout)`. |
| Sender | `net/sender.{h,cpp}` | One worker thread runs `run()`. Producers call `send(buf)`. When the queue passes `max_queued_buffers`, `send(buf)` spills the queue to disk on the producer's own thread and sets `_M_state = sending_files`. |
| Disk spill store | `sender.cpp` `send_files`, `send_file`, `save_buffers`, `save_buffer` | Spill files live in one directory. Names are `YYYYMMDD-HHMMSS_NNNNNN`, chosen by probing with `stat()`. Replay does readdir, stat, mmap, send and unlink. |
| Transport | `net/socket.*`, `net/ssl/socket.*` | Plain or TLS connect, send, close, and a `recv` probe that detects a peer close. Both are selected through member-function pointers. |
| Address parser | `net/socket.cpp` `socket::address::build`, `extract_ip_port`, `parse_port` | Splits the string `sender::start()` is given at its last `:`. If the prefix (brackets stripped) is an IPv4 or IPv6 literal and the suffix a port `1..65535`, it is an inet endpoint. A string that does not split is a local (`AF_UNIX`) path. |
| TLS init | `net/ssl/library.*` | Process-global OpenSSL setup. |
| CLIs | `test_sender.cpp`, `test_socket.cpp`, `test_ssl_socket.cpp` | `test_sender` is a producer loop: get, init, send, and finally stop. |

How the parts interact:
- Producers take buffers from the pool, fill them, and push them onto the queue.
- The worker pops the whole queue as one chain. It sends each buffer and returns it to the pool.
- On a failure the worker pushes the unsent suffix back to the front, disconnects, and waits `reconnection_time` before reconnecting.
- In state `sending_files`, the worker replays the spill directory and then switches to `sending_queued_buffers`.
- An idle connection is closed after `idle_timeout`.
- `stop()` clears `_M_running`. The worker then leaves its loop, spills what is still queued, and is joined.

The behaviours that are hard to test are these:
- The producer-side spill runs concurrently with the worker's directory scan.
- `_M_state` is written by both sides without a lock.
- There is a window between `stat()` of a spill name and `open()` of it.
- A file is created by `open(O_TRUNC)` before its contents are written.
- On a save failure, `save_buffers()` puts the buffer back to the pool and retries it.
- A send can fail in the middle of a chain, and the peer can close at any time.
- A single payload can fail part-way through a `::send` loop, after some of its bytes were accepted.
- A timed pop can wake to find that another thread has already emptied the list.

## Modules

- **`BufferPool.tla`** models `buffer::allocator`.
  - Variables: `poolFirst` (`_M_first`), `link` (every `_M_next`) and `allocated` (the buffers created so far).
  - `Put` and `GetTop` are `put` and the pop in `get`.
  - `GetAllocate` is `allocate()` followed by the pop. It creates `k ∈ 1..Chunk` buffers, because `new (std::nothrow)` may fail part-way.
  - `GetFails` is the `nullptr` return.
  - `get` and `put` hold the mutex for their whole body, so each is one step.
- **`BufferQueue.tla`** models `buffers`.
  - The list from `header.next` to `header.prev` is the sequence `queue`. The `_M_next` fields it writes are kept in the shared `link`, because the worker later walks a popped chain through them.
  - `Chain` is `distance()`, walking `_M_next`.
  - `PushBack`, `PushFront` and `Pop` are the operations the sender calls. Each takes the mutex for its whole body.
- **`Sender.tla`** composes both modules (through `INSTANCE`) with the worker, the producers, `stop()`, the directory and the peer.
  - Each thread has a program counter `pc[t]`. One action stands for each block of code that runs without interference from other threads:
    - **`run()`**: `LoopTop`, `Holdoff`, `ReconnectOk/Fail`, `Dispatch`, `PopBatch`, `PopTimeout`, `BatchConnectOk/Fail`, `SendOk`, `SendFail` and `LoopBottom`.
    - **`send_files()`**: `FilesConnectOk/Fail`, `OpenDir`, `OpenDirFail`, `ReadEntry`, `SendFileOk`, `SendFileFail` and `FilesDone`.
    - **`save_buffers()`/`save_buffer()`/`buffer::save`** (on any thread): `SavePop`, `SaveNothing`, `Probe`, `OpenSpill`, `OpenSpillFail`, `WriteSpill` and `WriteSpillFail`.
    - **The producer**: `ProducerGet`, `ProducerGetFails`, `InitOk`, `InitFail`, `Push` and `SetFilesState`.
    - **The application and environment**: `Stop`, `PeerCloses`, `Tick` and `Terminated`.
  - `NullDeref` is the crash when a failed save has left `first == nullptr`.
  - Time is modelled by `idle = _M_current_time - _M_last_socket_operation`, sampled at the top of each iteration. `clock` counts the seconds since the last sample. Both are capped at `Horizon = max(idle_timeout, reconnection_time)`, because past that no guard changes.
  - The directory maps each name to a payload, `EmptyFile` (created, not yet written) or `NoFile`.
    - `fdLive` records whether a writer's descriptor still reaches a name, since an unlink orphans the inode.
    - `readdir()` returns the entries present at `opendir()` plus, optionally, entries created since. POSIX leaves the latter unspecified.
  - The transport is reduced to success or failure of connect and send, plus a peer-close event. The plain and TLS variants present the same surface to the sender. `Transport.tla` models that surface in detail.
- **`BufferList.tla`** models `buffers` as the code builds it: the circular list through `_M_prev`/`_M_next` of every buffer and the header, plus `_M_count`.
  - Every operation of the class is an action: `PushBack`, `PushFront`, `PushBackChain`, `PushFrontChain`, `PopFront`, `PopAll`.
  - The pointer writes are `EXCEPT` updates in the code's order, so when two keys coincide (an empty list) the later write wins, as in the code.
  - The timed pops are split at `pthread_cond_timedwait`:
    - `WaitFront`/`WaitAll` start the wait on an empty list.
    - `Signal` (inside every push) wakes one waiter.
    - `Spurious` is a wake-up with no signal.
    - `WokenFront`/`WokenAll` re-check and take.
    - `WokenEmpty` waits again.
    - `TimedOut` returns `nullptr`/0.
  - `Acquire` and `Release` stand for the callers: `allocator::get`, and the sender's walk that puts the head of a popped chain back.
  - `hand` is what each thread holds. `free` is the buffers outside.
- **`FifoQueue.tla`** is what `buffers` promises: a sequence with push at either end of one buffer or a chain, pop of the head, and pop of everything.
  - `BufferList` refines it through `INSTANCE FifoQueue WITH q <- ListSeq`, where `ListSeq` walks `_M_next` from the header.
- **`Transport.tla`** models the plain and TLS transports as `run()`/`send()` drive them. `secure` is chosen in `Init`, as `start()` picks the member-function pointers once.
  - Connect:
    - `SocketConnect` covers `::socket` and `::connect`: connected at once, `EINPROGRESS`, or an error that closes the socket.
    - `ConnectWait` is `wait_writable` plus `SO_ERROR`, closing the socket on failure.
    - `Handshake` is `SSL_new`/`SSL_set_fd`/the `SSL_do_handshake` loop. On failure it calls `SSL_free` and closes the socket.
  - Send:
    - `Probe` is `connection_closed_by_peer()`. Plain `recv` returns 0 on a FIN. `SSL_read` returns 0 only on `close_notify`.
    - `SendPart`, `SendEagain` and `SendError` are the plain send loop, with `b += ret; len -= ret`.
    - `SslWrite` and `SslWriteFail` are the `SSL_write` loop at record granularity.
    - `WaitWritable` is the poll with its timeout.
  - `IdleClose` is the idle disconnect.
  - `PeerClose` is the peer's FIN, with or without `close_notify`.
  - The state:
    - `fd`: `_M_fd`, which is closed, in progress or open.
    - `ssl`: whether `_M_ssl` is set.
    - `pc`: where the worker is.
    - `rem`: the loop's `len`.
    - `wire`: every unit the kernel accepted, tagged with its connection.
    - `pending`: the queued payloads.
  - A failed send disconnects and leaves the payload queued, as `push_front` does. Success drops it.
  - Faults occur only on the first `MaxConn - 1` connection attempts.
  - `Start` is `sender::start(address, enc, dir)`: `_M_sockaddr.build(address)`, then `start(enc, dir)` (`StartWorker`), whose directory check and `pthread_create` may fail. A refused start leaves `pc = "refused"` and no worker runs.
- **`Address.tla`** models the address parser as operators; there is no state.
  - A string is a sequence of one-character strings.
  - `parse_port_loop` is `parse_port()`'s loop, `RECURSIVE`, one digit per step, with its running bound of 65535. `parse_port` adds the `n > 0` check.
  - `last_colon` and `extract_ip_port` are `extract_ip_port()`: the last colon, the bracket check (`len > 2`, `colon[-1] == ']'`, `address++`, `len -= 2`) and `len < INET6_ADDRSTRLEN`.
  - `build_ip_port` is `address::build(ip, port)` and `build` is `address::build(address)`, with its fall-back to a local path shorter than `sun_path`.
  - `inet_pton` is the C library's. It is modelled by the constants `IPv4Literals` and `IPv6Literals`, the literals it accepts among the model's strings.
  - `inet_ntop` is the constant function `InetNtop`: the canonical text of the address a literal denotes. The endpoint stores that text, which stands for the binary address (`::1` and `0::1` build the same endpoint).
  - `to_string` is `address::to_string(s, n)`. `to_string_ipv4`, `to_string_ipv6` and `to_string_local` are its per-family printers, with their `n > 1` check, the `[` written at `s[0]` last, and the `snprintf(...) < left` test (`Fits`). `PortText` is `snprintf("%u")`: the port's decimal digits, most significant first (`RECURSIVE`).
  - `AddressSyntax` is the reference: the same rule stated over every way of splitting the string at a colon, with the port's value as a fold. `build` is checked against it.
- **`MCSender.tla`** supplies model values and the small scripts used by the runs:
  - `MCScript1`: one producer sending two payloads.
  - `MCScript2`: two producers with one payload each.
  - `MCScript3`: two producers, one sending two payloads and the other one.
  - `MCLeftover`: a file left by an earlier run.
  - `NamesSuffice`: the state constraint that bounds the spill-name counter.

- **`MCBufferList.tla`** and **`MCTransport.tla`** declare the model values. `MCTransport` also defines the payload sequence, the `inet_ntop` table and the 120 address strings (`MCAddresses`), and a single address (`MCOneAddress`) for the violation runs.

## Properties

`Sender.tla`:

- `TypeOK` is the type invariant.
- `BufferOwnership` (spec 8.1): every created buffer is in exactly one of these places:
  - the free list,
  - the queue,
  - the worker's chain,
  - a chain being saved,
  - a producer's hand.
- `NoLoss`: every payload pushed, or left on disk by an earlier run, is in a buffer, in a spill file, or on the wire.
- `FifoOrder` (spec 8.4): each producer's payloads reach the wire in push order. This holds across requeues.
- `NoDuplicateSend`: no payload reaches the wire twice.
- `ShutdownFlushed` (spec S5): once `run()` has returned, every accepted payload is on the wire or on disk.
- `SpillNamesDistinct` (spec 8.10): two threads never open the same spill name at once.
- `UnlinkOnlyAfterSend` (action property, spec 7 and 8.5): a payload file disappears only in the step that sends it. Only the violation run `send_file_open_failure` checks it. With one saver at a time and no `send_file` failures, the only step that can remove a payload file is the send itself, so a passing run would show nothing.
- `EventuallyDelivered` (liveness): if the peer eventually stops closing, every accepted payload is eventually sent, or is on disk after `run()` returned.
- `SpilledEventuallySent` (liveness): if the peer eventually stops closing, a spilled payload is eventually sent while the sender runs.

`BufferList.tla`:
- `RingWellFormed`: the ring is intact.
  - `_M_next` from the header returns to it after `_M_count` buffers.
  - `header.prev` is the last buffer.
  - Every `_M_prev` is the node before.
- `AbsSpec`: the list implements `FifoQueue` under the refinement mapping. Every step is a FIFO step or a stutter.

`Transport.tla`:
- `ConnectedMeansUsable`: outside a connect, `connected()` (`fd != -1`) implies an open socket and, with TLS, an SSL. An SSL never outlives its socket.
- `Framed`: on every connection the kernel gets whole payloads, in queue order, back to back. Only the last may be cut short.
- `DoneMeansWhole`: a payload leaves the queue only after all its units went out on one connection. The queue is always the rest of the payloads, in order.
- `AllEventuallySent` (liveness): every queued payload is eventually sent.
- `StartBuildsAddress`: after `start()`, `_M_sockaddr` is the endpoint `AddressSyntax` names, and the start was refused if the string names none. It covers the last-colon scan, the bracket arithmetic, the running port bound and the local-path fall-back.
- `PrintParsesBack`: the endpoint `start()` built prints, into a buffer of `sun_path`'s size, as text that `build()` parses back to the same endpoint. It covers the brackets and `]:` framing of IPv6, the digit order of the port, and the length checks of both sides.
- `NoUnitTwice`: no unit is handed to the kernel twice.
- `ProbeCatchesClose` (action property): a send never starts on a connection that the peer had already closed before the probe.

## Runs

| Run | Expect | Shows |
|-----|--------|-------|
| `sender_core` | pass | One producer, a leftover file and a peer that may close. Nothing is lost, order is kept, shutdown flushes, and everything is eventually delivered (`TypeOK`, `NoLoss`, `FifoOrder`, `ShutdownFlushed`, `EventuallyDelivered`). 18 222 states. |
| `sender_spill` | pass | Producer-side spill (`MaxQueued = 1`) with failing opens in `send_file`. Buffer ownership holds and no payload is sent twice. 463 494 states. |
| `sender_producers` | pass | Two producers (`MCScript3`) and the worker share the allocator, with a second chunk allocation, and the queue. The worker's `push_front` of an unsent suffix interleaves with the producers' `push_back`. Each producer's payloads reach the wire in push order (`FifoOrder`) and none twice (`NoDuplicateSend`). The exit `save_buffers()` may fail to open or write a file; that path cannot change what reached the wire, because `run()` has left its loop. Its effect on buffer ownership is the `save_failure_ownership` finding. 323 310 states. |
| `save_failure_ownership` | violation | A failed spill open puts the chain head back to the allocator while it is still being saved. `BufferOwnership` fails after ten steps. |
| `spill_empty_file_loss` | violation | `send_files()` meets a spill file between `open()` and `write()`. The mmap of size 0 fails, the file is "ignored" and unlinked, and the payload written afterwards goes nowhere (`NoLoss`). |
| `spill_name_collision` | violation | Two producers spill in the same second. Both probe name 0 as free and both open it (`SpillNamesDistinct`). |
| `spill_stranded` | violation | A file spilled while `send_files()` is scanning is not returned by that scan. `send_files()` then overwrites `_M_state` with `sending_queued_buffers`, and the file stays on disk for as long as the sender runs (`SpilledEventuallySent`). |
| `send_file_open_failure` | violation | When `open()` or `mmap()` fails, `send_file()` returns true, so the unsent file is unlinked (`UnlinkOnlyAfterSend`). |
| `list_refines_fifo` | pass | Two threads and three buffers run every `buffers` operation, the timed pops with spurious wake-ups included. The ring stays intact and refines the FIFO (`TypeOK`, `RingWellFormed`, `AbsSpec`). 13 988 states. |
| `transport` | pass | `start()` with 120 address strings, then plain and TLS runs with faults on the first two of three attempts. The properties hold: `TypeOK`, `ConnectedMeansUsable`, `Framed`, `DoneMeansWhole`, `StartBuildsAddress`, `PrintParsesBack` and `AllEventuallySent`. 66 081 states. |
| `transport_resend_prefix` | violation | `::send` accepts the first byte, then the send fails. `run()` pushes the payload back whole and resends it from byte 1 on the next connection (`NoUnitTwice`). |
| `transport_tls_probe_fin` | violation | A TLS peer sends a FIN without `close_notify`. `SSL_read` reports an error rather than 0, so the probe says "open" and the payload is written to the closed connection (`ProbeCatchesClose`). |

The findings in `PROJECT.json` state what each violation shows about the code.

One finding comes from the passing `transport` run. The spec disagrees with itself about the address parser, and the code follows one of its two statements:
- The address-syntax paragraph says a string that fails to parse falls back to a local path.
- Example 11 of section 8 says `[::1]:99999` and `host:0` are rejected.
- In the code, the port check in `extract_ip_port()` fails for both strings, so `build()` takes them as `AF_UNIX` paths and `start()` succeeds.
- `StartBuildsAddress` holds with a reference that follows the paragraph.
- `host:80` does split at its colon. `inet_pton` rejects `host`, and `build()` then returns false without trying the local path.

Every property of a passing run also has a mutant: a variant of a mapped action that reproduces a plausible bug, which TLC must catch under that run's configuration. The mutants are:
- `SendOkPastLast`: misses `first == last`.
- `SendFailDrop`: no requeue.
- `SendFailAtBack`: requeues at the back (for `FifoOrder` in `sender_core` and `sender_producers`).
- `LoopBottomNoSave`: no exit save.
- `FilesDoneStay`: no state switch.
- `SendOkLeak`: no `put`.
- `SendFileOkKeep`: no unlink.
- `PopKeep` (for `NoDuplicateSend` in `sender_producers`): `buffers::pop` does not reset the header, so the popped chain stays queued.
- `TakeFrontUnchecked`: no emptiness check.
- `TakeFrontNoPrev`: does not reset the new head's `_M_prev`.
- `PushBackChainNoLink`: the old tail is not linked to the chain.
- `SendPartWholeLen`: `::send` is given the whole length.
- `SendPartNoAdvance`: `b` is not advanced.
- `SendPartEarlyTrue`: the loop stops one unit early.
- `ConnectWaitNoClose`: a failed wait keeps the socket.
- `ProbeNoDisconnect`: a detected close is not disconnected.
- `parse_port_zero`: `parse_port()` without `n > 0`, so port 0 is accepted.
- `PortTextReversed`: `snprintf("%u")` modelled with the digits least significant first.

## Bounds and why they suffice

- **Threads:** one worker, plus one or two producers. Two producers are needed only for the name collision, and one otherwise.
- **Buffers:** two or three, with `Chunk = 2`. This is enough for a chain of two: a requeued suffix, the free list reused LIFO, and a partial allocation.
- **Payloads:** two or three. One of them sits in a leftover file, except in `sender_producers`.
- **Producers:** one, or two in `sender_producers` and `spill_name_collision`.
- **Names:** spill names `0..MaxName` with `MaxName ≤ 2`. All are taken within one second, which is the case where collisions are possible. `NamesSuffice` cuts off states where a probe would need a larger counter.
- **Queue limit:** `MaxQueued` is 0, 1 or 2. This makes a spill happen on the first or second push, or never.
- **Time:** `IdleTimeout = 2` and `ReconnectionTime = 1`. Only their order and the distinction between "passed" and "not passed" matter to the guards.
- **`BufferList`:** three buffers and two threads. This covers:
  - a chain of two or three,
  - pushes at either end onto empty and non-empty lists,
  - a thread waiting while the other pushes, pops or holds a chain,
  - a woken thread finding the list emptied by the other.
- **`Transport`:** two payloads of two units and three connection attempts. This covers:
  - a payload cut after its first unit with the next one behind it,
  - two faulty connections (a failure, then a failure of the retry),
  - a fault-free last connection.
- **Addresses:** 12 hosts × 8 ports, plus the bare hosts and three paths. The cases they cover:
  - Hosts:
    - empty;
    - a name;
    - each literal, bare and bracketed;
    - `[0::1]`, a non-canonical IPv6 literal: it builds the endpoint of `[::1]`, so the round trip goes through `inet_ntop`'s text and not the input's;
    - `[]` and an unclosed `[`;
    - names of 45 and 46 characters (either side of `INET6_ADDRSTRLEN`), and a bracketed 45-character name.
  - Ports:
    - empty, `0`, `80` and `080`;
    - `65535` and `65536`;
    - `99999`, whose bound is crossed at the last digit;
    - `8a`.
  - Paths of 2, 107 and 108 characters, either side of `sun_path`.
  - Every check of the parser is met on both of its sides. The violation runs use one valid address, because the transport's behaviour does not depend on which endpoint was built.

## Fairness

- **Worker:** `WF` on the worker's steps, because the worker thread is always scheduled.
- **Producers and savers:** `WF` on a producer's steps once it is inside `send()`, and on each thread's `save_buffers()` steps, because these calls run to completion.
- **Time:** `WF` on `Tick`.
- **Network:** `SF` on the successful connects, on `OpenDir`, and on the successful sends. This assumes the network recovers: an operation that can succeed infinitely often eventually does.
- **Not fair:** the application's calls (`get`, `stop`) and the peer's close.
- **`Transport`:**
  - `WF` on the worker's steps.
  - `SF` on a partial `::send`, because a socket that `poll()` keeps reporting writable does take data.
  - The network's recovery is the fault-free last connection, rather than a fairness assumption.
- **Liveness antecedent:** the liveness properties assume `PeerSettles`, meaning the peer eventually stops closing. Without it, a peer that closes after every reconnect starves the worker.

## Not modelled

- In `start()`, which directory check fails. It is an input to `StartWorker`.
- `send(first, last)`. Nothing in the repository calls it, and `send(buf)` is the same code with a one-buffer chain.
- Destructors.
- In `BufferList`, `Acquire` abstracts `allocator::get`. `BufferPool` and `Sender` model the allocator itself.
- The sender's own use of the list stays in `BufferQueue` (a sequence) to keep `Sender` small. `BufferList` shows that the linked list implements that sequence.
- `push_front(first,last)` and `push_back(first,last)` signal the condition variable once for a whole chain. With two threads in `pop_front(timeout)`, the second can time out while buffers are queued. The sender has a single consumer, so no run checks this.
- The timed pops' `timespec` arithmetic: one carry when `tv_nsec` reaches 10⁹.
- `EINTR` retries. They leave the state unchanged.
- The peer's own data: the protocol is write-only, and the probe discards what it reads.
- The loss of bytes accepted after the peer's FIN. TCP gives the sender no acknowledgement, so `wire` records what the kernel took.
- The parts of the socket classes the sender does not call:
  - the server side (`bind`, `listen`, `accept`),
  - `shutdown`,
  - timed `recv`,
  - socket options.
- Of the address classes: the per-family `ipv4`/`ipv6`/`local` classes (their `build` overloads repeat the calls `address::build` makes), `operator==` and `operator=`. The sender never calls them. `local::build(const void*, len)` accepts `len == sizeof(sun_path)`, which leaves the path without a NUL; nothing in the repository calls it, so it is not listed as a hazard of this code.
- A step back of the wall clock (`time(nullptr)`) delays the reconnection holdoff and the idle close until the clock catches up; the model's time only advances.
- `inet_pton` itself: it is a C-library function, represented by the literals it accepts.
- Address strings of more than about 150 characters. TLC's evaluation stack limits the string length; 108 (`sun_path`) is the longest edge the parser has.
- The TLS library's global setup.
- The socket test CLIs.

## Plan for later work

1. **A standalone `BufferPool` run:** the free-list invariants `FreeListAcyclic` and LIFO reuse (spec 8.6) under concurrent get and put.
2. **`Sender` over `Transport`:** replace the success/failure transport of `Sender` by an instance of `Transport`.
3. **`send(first, last)` producers, and crash/restart of the process between spill steps.**
