------------------------------- MODULE Sender -------------------------------
(***************************************************************************)
(* net::sender (src/net/sender.h, src/net/sender.cpp) with the buffer    *)
(* pool and the buffer queue it drives.  Threads: the worker (run()),     *)
(* the producers (allocator::get, buffer::init, sender::send(buf), and    *)
(* save_buffers() on their own thread when the queue passes the limit)   *)
(* and the application thread that calls stop().  The transport and the   *)
(* file system are the environment: connect and send may fail, the peer   *)
(* may close, and files are named, created, written and unlinked by the   *)
(* steps the code takes on them.                                          *)
(***************************************************************************)
EXTENDS Naturals, FiniteSets, SequencesExt

CONSTANTS
  Producers,        \* producer threads
  Worker,           \* the sender's worker thread
  Buffers,          \* buffer objects the allocator may create
  Msgs,             \* payloads
  Script,           \* Script[p]: the payloads producer p sends, in order
  Leftover,         \* files left in the directory by an earlier run: name -> payload
  MaxName,          \* spill names this run may use: counters 0..MaxName
  Chunk,            \* allocator::allocation
  MaxQueued,        \* sender::max_queued_buffers
  IdleTimeout,      \* sender::idle_timeout (seconds)
  ReconnectionTime, \* sender::reconnection_time (seconds)
  SaveCanFail,      \* open()/write() of a spill file may fail
  OpenCanFail,      \* open()/mmap() of a spilled file may fail in send_file
  Nil, Header, NoMsg, NoFile, EmptyFile

VARIABLES
  poolFirst, link, allocated,  \* allocator::_M_first, buffer::_M_next, created buffers
  queue,                       \* sender::_M_buffers
  data,                        \* buffer::_M_data, as the payload it holds
  state,                       \* sender::_M_state
  running,                     \* sender::_M_running
  connected, peerClosed,       \* the socket: fd != -1, and whether the peer closed it
  idle,                        \* _M_current_time - _M_last_socket_operation
  clock,                       \* seconds elapsed since _M_current_time was sampled
  pc,                          \* program counter of every thread
  errorSending,                \* run()'s local error_sending
  wFirst, wLast,               \* run()'s locals first/last: the popped chain
  snap, seen,                  \* send_files(): entries at opendir, entries returned
  nextIdx, held,               \* producer: next Script index, buffer being filled
  sFirst, sLast, sCnt, sName, fdLive, \* save_buffers()/save_buffer() locals per thread
  dir,                         \* the spill directory: name -> payload, EmptyFile or NoFile
  wire,                        \* payloads the transport accepted, in order
  produced                     \* history: payloads pushed by a producer

vars == <<poolFirst, link, allocated, queue, data, state, running, connected,
          peerClosed, idle, clock, pc, errorSending, wFirst, wLast, snap, seen,
          nextIdx, held, sFirst, sLast, sCnt, sName, fdLive, dir, wire, produced>>

poolVars == <<poolFirst, link, allocated>>
linkVars == <<queue, link>>
sockVars == <<connected, peerClosed>>
timeVars == <<idle, clock>>
workVars == <<errorSending, wFirst, wLast, snap, seen>>
prodVars == <<nextIdx, held>>
saveVars == <<sFirst, sLast, sCnt, sName, fdLive>>

Pool == INSTANCE BufferPool
Q == INSTANCE BufferQueue

Threads == Producers \cup {Worker}
Names == (0..MaxName) \cup DOMAIN Leftover
Horizon == Max({IdleTimeout, ReconnectionTime})
Queued == "sending_queued_buffers"
Files == "sending_files"

Goto(t, l) == pc' = [pc EXCEPT ![t] = l]

\* unlink(n): the name goes; every descriptor still open on it now writes
\* to an inode no directory entry reaches.
Unlink(n) ==
  /\ dir' = [dir EXCEPT ![n] = NoFile]
  /\ fdLive' = [t \in Threads |-> fdLive[t] /\ sName[t] # n]

\* sender::disconnect (close of the plaintext or TLS socket).
Disconnect == connected' = FALSE /\ peerClosed' = FALSE

\* sender::connect: true at once if connected; otherwise it records the time
\* of the socket operation (_M_last_socket_operation = _M_current_time) and
\* calls the transport's connect, which closes the socket when it fails.
AlreadyConnected == connected /\ UNCHANGED <<idle, connected, peerClosed>>
ConnectOk == ~connected /\ idle' = 0 /\ connected' = TRUE /\ peerClosed' = FALSE
ConnectFail == ~connected /\ idle' = 0 /\ UNCHANGED <<connected, peerClosed>>

-----------------------------------------------------------------------------
(* run(), the worker.  Each iteration starts by sampling time(nullptr).   *)

Sample == idle' = Min({idle + clock, Horizon}) /\ clock' = 0

\* No error pending: go on to the state dispatch.
LoopTop ==
  /\ pc[Worker] = "top" /\ ~errorSending
  /\ Sample /\ Goto(Worker, "dispatch")
  /\ UNCHANGED <<poolVars, queue, data, state, running, sockVars, workVars,
                 prodVars, saveVars, dir, wire, produced>>

\* error_sending: sleep until reconnection_time has passed since the last
\* socket operation, then try to connect.
Holdoff ==
  /\ pc[Worker] = "top" /\ errorSending
  /\ Sample
  /\ Goto(Worker, IF idle' >= ReconnectionTime THEN "reconnect" ELSE "bottom")
  /\ UNCHANGED <<poolVars, queue, data, state, running, sockVars, workVars,
                 prodVars, saveVars, dir, wire, produced>>

ReconnectOk ==
  /\ pc[Worker] = "reconnect"
  /\ AlreadyConnected \/ ConnectOk
  /\ errorSending' = FALSE
  /\ Goto(Worker, "dispatch")
  /\ UNCHANGED <<poolVars, queue, data, state, running, clock, wFirst, wLast,
                 snap, seen, prodVars, saveVars, dir, wire, produced>>

ReconnectFail ==
  /\ pc[Worker] = "reconnect"
  /\ ConnectFail
  /\ Goto(Worker, "bottom")
  /\ UNCHANGED <<poolVars, queue, data, state, running, clock, workVars,
                 prodVars, saveVars, dir, wire, produced>>

\* The unsynchronised read of _M_state, which a producer may write.
Dispatch ==
  /\ pc[Worker] = "dispatch"
  /\ Goto(Worker, IF state = Queued THEN "pop" ELSE "sf_connect")
  /\ UNCHANGED <<poolVars, queue, data, state, running, sockVars, timeVars,
                 workVars, prodVars, saveVars, dir, wire, produced>>

\* sending_queued_buffers: buffers::pop(first, last, 250) returns the whole
\* queue as a chain ...
PopBatch ==
  /\ pc[Worker] = "pop"
  /\ \E f, l \in Buffers : Q!Pop(f, l) /\ wFirst' = f /\ wLast' = l
  /\ Goto(Worker, "w_connect")
  /\ UNCHANGED <<poolVars, data, state, running, sockVars, timeVars,
                 errorSending, snap, seen, prodVars, saveVars, dir, wire, produced>>

\* ... or times out on an empty queue; a connection idle for idle_timeout
\* is then closed.
PopTimeout ==
  /\ pc[Worker] = "pop"
  /\ queue = <<>>
  /\ IF connected /\ idle >= IdleTimeout THEN Disconnect ELSE UNCHANGED sockVars
  /\ Goto(Worker, "bottom")
  /\ UNCHANGED <<poolVars, queue, data, state, running, timeVars, workVars,
                 prodVars, saveVars, dir, wire, produced>>

BatchConnectOk ==
  /\ pc[Worker] = "w_connect"
  /\ AlreadyConnected \/ ConnectOk
  /\ Goto(Worker, "w_send")
  /\ UNCHANGED <<poolVars, queue, data, state, running, clock, workVars,
                 prodVars, saveVars, dir, wire, produced>>

\* connect() failed: push_front(first, last) and set error_sending.
BatchConnectFail ==
  /\ pc[Worker] = "w_connect"
  /\ ConnectFail
  /\ Q!PushFront(wFirst, wLast)
  /\ errorSending' = TRUE
  /\ Goto(Worker, "bottom")
  /\ UNCHANGED <<poolFirst, allocated, data, state, running, clock, wFirst,
                 wLast, snap, seen, prodVars, saveVars, dir, wire, produced>>

\* Variant of SendOk: the sent buffer is not put back to the allocator.
SendOkLeak ==
  /\ pc[Worker] = "w_send"
  /\ connected /\ ~peerClosed
  /\ idle' = 0
  /\ wire' = Append(wire, data[wFirst])
  /\ IF wFirst = wLast
     THEN Goto(Worker, "bottom") /\ UNCHANGED wFirst
     ELSE wFirst' = link[wFirst] /\ UNCHANGED pc
  /\ UNCHANGED <<poolVars, queue, data, state, running, sockVars, clock,
                 errorSending, wLast, snap, seen, prodVars, saveVars, dir, produced>>

\* Variant of SendOk: the loop does not stop at last and follows its
\* _M_next (the queue's header).
SendOkPastLast ==
  /\ pc[Worker] = "w_send"
  /\ connected /\ ~peerClosed
  /\ idle' = 0
  /\ wire' = Append(wire, data[wFirst])
  /\ Pool!Put(wFirst)
  /\ wFirst' = link[wFirst]
  /\ IF wFirst = wLast THEN Goto(Worker, "bottom") ELSE UNCHANGED pc
  /\ UNCHANGED <<allocated, queue, data, state, running, sockVars, clock,
                 errorSending, wLast, snap, seen, prodVars, saveVars, dir, produced>>

\* sender::send(data, length) accepted first's payload: read first->next(),
\* put first back to the allocator, and go on unless first == last.
SendOk ==
  /\ pc[Worker] = "w_send"
  /\ connected /\ ~peerClosed
  /\ idle' = 0
  /\ wire' = Append(wire, data[wFirst])
  /\ Pool!Put(wFirst)
  /\ IF wFirst = wLast
     THEN Goto(Worker, "bottom") /\ UNCHANGED wFirst
     ELSE wFirst' = link[wFirst] /\ UNCHANGED pc
  /\ UNCHANGED <<allocated, queue, data, state, running, sockVars, clock,
                 errorSending, wLast, snap, seen, prodVars, saveVars, dir, produced>>

\* Variants of SendFail: the suffix is dropped, or requeued at the back.
SendFailDrop ==
  /\ pc[Worker] = "w_send"
  /\ idle' = 0
  /\ Disconnect
  /\ errorSending' = TRUE
  /\ Goto(Worker, "bottom")
  /\ UNCHANGED <<poolVars, queue, data, state, running, clock, wFirst,
                 wLast, snap, seen, prodVars, saveVars, dir, wire, produced>>

SendFailAtBack ==
  /\ pc[Worker] = "w_send"
  /\ idle' = 0
  /\ Disconnect
  /\ queue' = queue \o Q!ChainOf(wFirst, wLast)
  /\ link' = [link EXCEPT ![wLast] = Header]
  /\ errorSending' = TRUE
  /\ Goto(Worker, "bottom")
  /\ UNCHANGED <<poolFirst, allocated, data, state, running, clock, wFirst,
                 wLast, snap, seen, prodVars, saveVars, dir, wire, produced>>

\* The peer had closed (recv() == 0) or the transport failed: disconnect,
\* push the unsent suffix first..last back to the front, set error_sending.
SendFail ==
  /\ pc[Worker] = "w_send"
  /\ idle' = 0
  /\ Disconnect
  /\ Q!PushFront(wFirst, wLast)
  /\ errorSending' = TRUE
  /\ Goto(Worker, "bottom")
  /\ UNCHANGED <<poolFirst, allocated, data, state, running, clock, wFirst,
                 wLast, snap, seen, prodVars, saveVars, dir, wire, produced>>

-----------------------------------------------------------------------------
(* sending_files: error_sending = !send_files().                          *)

FilesConnectOk ==
  /\ pc[Worker] = "sf_connect"
  /\ AlreadyConnected \/ ConnectOk
  /\ Goto(Worker, "sf_opendir")
  /\ UNCHANGED <<poolVars, queue, data, state, running, clock, workVars,
                 prodVars, saveVars, dir, wire, produced>>

FilesConnectFail ==
  /\ pc[Worker] = "sf_connect"
  /\ ConnectFail
  /\ errorSending' = TRUE
  /\ Goto(Worker, "bottom")
  /\ UNCHANGED <<poolVars, queue, data, state, running, clock, wFirst, wLast,
                 snap, seen, prodVars, saveVars, dir, wire, produced>>

OpenDir ==
  /\ pc[Worker] = "sf_opendir"
  /\ snap' = {n \in Names : dir[n] # NoFile}
  /\ seen' = {}
  /\ Goto(Worker, "sf_read")
  /\ UNCHANGED <<poolVars, queue, data, state, running, sockVars, timeVars,
                 errorSending, wFirst, wLast, prodVars, saveVars, dir, wire, produced>>

OpenDirFail ==
  /\ pc[Worker] = "sf_opendir"
  /\ errorSending' = TRUE
  /\ Goto(Worker, "bottom")
  /\ UNCHANGED <<poolVars, queue, data, state, running, sockVars, timeVars,
                 wFirst, wLast, snap, seen, prodVars, saveVars, dir, wire, produced>>

\* What readdir() may return next: an entry present at opendir() and not yet
\* returned, or (unspecified by POSIX) one created since.
Readable == ((snap \cup {n \in Names : dir[n] # NoFile}) \ seen)

\* One readdir() entry, stat() and send_file(), then unlink() on success.
\* stat() fails: skip.  Size 0 (a spill file created but not yet written):
\* mmap fails and send_file "ignores" the file, which is then unlinked; the
\* same when open() or mmap() fails.
ReadEntry(n) ==
  /\ pc[Worker] = "sf_read"
  /\ n \in Readable
  /\ seen' = seen \cup {n}
  /\ \/ dir[n] = NoFile /\ UNCHANGED <<dir, fdLive>>
     \/ dir[n] = EmptyFile /\ Unlink(n)
     \/ OpenCanFail /\ dir[n] \in Msgs /\ Unlink(n)
  /\ UNCHANGED <<poolVars, queue, data, state, running, sockVars, timeVars,
                 pc, errorSending, wFirst, wLast, snap, prodVars, sFirst, sLast,
                 sCnt, sName, wire, produced>>

\* Variant of SendFileOk: the sent file is not unlinked.
SendFileOkKeep(n) ==
  /\ pc[Worker] = "sf_read"
  /\ n \in Readable
  /\ dir[n] \in Msgs
  /\ connected /\ ~peerClosed
  /\ idle' = 0
  /\ wire' = Append(wire, dir[n])
  /\ seen' = seen \cup {n}
  /\ UNCHANGED <<poolVars, queue, data, state, running, sockVars, clock, pc,
                 errorSending, wFirst, wLast, snap, prodVars, saveVars, dir, produced>>

SendFileOk(n) ==
  /\ pc[Worker] = "sf_read"
  /\ n \in Readable
  /\ dir[n] \in Msgs
  /\ connected /\ ~peerClosed
  /\ idle' = 0
  /\ wire' = Append(wire, dir[n])
  /\ seen' = seen \cup {n}
  /\ Unlink(n)
  /\ UNCHANGED <<poolVars, queue, data, state, running, sockVars, clock, pc,
                 errorSending, wFirst, wLast, snap, prodVars, sFirst, sLast,
                 sCnt, sName, produced>>

\* send() failed: disconnect, closedir, return false; the file stays.
SendFileFail(n) ==
  /\ pc[Worker] = "sf_read"
  /\ n \in Readable
  /\ dir[n] \in Msgs
  /\ idle' = 0
  /\ Disconnect
  /\ errorSending' = TRUE
  /\ Goto(Worker, "bottom")
  /\ UNCHANGED <<poolVars, queue, data, state, running, clock, wFirst, wLast,
                 snap, seen, prodVars, saveVars, dir, wire, produced>>

\* Variant of FilesDone: _M_state is left at sending_files.
FilesDoneStay ==
  /\ pc[Worker] = "sf_read"
  /\ \A n \in snap : n \in seen \/ dir[n] = NoFile
  /\ errorSending' = FALSE
  /\ Goto(Worker, "bottom")
  /\ UNCHANGED <<poolVars, queue, data, state, running, sockVars, timeVars, wFirst,
                 wLast, snap, seen, prodVars, saveVars, dir, wire, produced>>

\* readdir() returned null: every entry present since opendir() was seen.
FilesDone ==
  /\ pc[Worker] = "sf_read"
  /\ \A n \in snap : n \in seen \/ dir[n] = NoFile
  /\ state' = Queued
  /\ errorSending' = FALSE
  /\ Goto(Worker, "bottom")
  /\ UNCHANGED <<poolVars, queue, data, running, sockVars, timeVars, wFirst,
                 wLast, snap, seen, prodVars, saveVars, dir, wire, produced>>

\* Variant of LoopBottom: run() returns without save_buffers().
LoopBottomNoSave ==
  /\ pc[Worker] = "bottom"
  /\ Goto(Worker, IF running THEN "top" ELSE "done")
  /\ UNCHANGED <<poolVars, queue, data, state, running, sockVars, timeVars,
                 workVars, prodVars, saveVars, dir, wire, produced>>

\* while (_M_running): loop, or leave and save_buffers() before returning.
LoopBottom ==
  /\ pc[Worker] = "bottom"
  /\ Goto(Worker, IF running THEN "top" ELSE "sv_pop")
  /\ UNCHANGED <<poolVars, queue, data, state, running, sockVars, timeVars,
                 workVars, prodVars, saveVars, dir, wire, produced>>

-----------------------------------------------------------------------------
(* save_buffers() on thread t: the worker after its loop, or a producer  *)
(* whose push_back() returned more than max_queued_buffers.              *)

AfterSave(t) == IF t = Worker THEN "done" ELSE "sv_state"

\* buffers::pop(first, last): take the whole queue; count = 0.
SavePop(t) ==
  /\ pc[t] = "sv_pop"
  /\ \E f, l \in Buffers :
       /\ Q!Pop(f, l)
       /\ sFirst' = [sFirst EXCEPT ![t] = f]
       /\ sLast' = [sLast EXCEPT ![t] = l]
  /\ sCnt' = [sCnt EXCEPT ![t] = 0]
  /\ Goto(t, "sv_probe")
  /\ UNCHANGED <<poolVars, data, state, running, sockVars, timeVars, workVars,
                 prodVars, sName, fdLive, dir, wire, produced>>

SaveNothing(t) ==
  /\ pc[t] = "sv_pop"
  /\ queue = <<>>
  /\ Goto(t, AfterSave(t))
  /\ UNCHANGED <<poolVars, queue, data, state, running, sockVars, timeVars,
                 workVars, prodVars, saveVars, dir, wire, produced>>

\* save_buffer: stat() names from the counter on until one does not exist;
\* the counter is left one past it.  (Every name is taken in the same
\* second of _M_current_time.)
Probe(t) ==
  /\ pc[t] = "sv_probe"
  /\ sFirst[t] \in Buffers
  /\ \E c \in sCnt[t]..MaxName :
       /\ dir[c] = NoFile
       /\ \A d \in sCnt[t]..(c - 1) : dir[d] # NoFile
       /\ sName' = [sName EXCEPT ![t] = c]
       /\ sCnt' = [sCnt EXCEPT ![t] = c + 1]
  /\ Goto(t, "sv_open")
  /\ UNCHANGED <<poolVars, queue, data, state, running, sockVars, timeVars,
                 workVars, prodVars, sFirst, sLast, fdLive, dir, wire, produced>>

\* save_buffer(first) with first == nullptr (a failed save put first back,
\* so first->next() became the allocator's old _M_first): buf->save()
\* dereferences null and the process dies.
NullDeref(t) ==
  /\ pc[t] = "sv_probe"
  /\ sFirst[t] \notin Buffers
  /\ pc' = [u \in Threads |-> "crashed"]
  /\ UNCHANGED <<poolVars, queue, data, state, running, sockVars, timeVars,
                 workVars, prodVars, saveVars, dir, wire, produced>>

\* buffer::save: open(O_CREAT | O_TRUNC | O_WRONLY): an empty file, or an
\* existing one of that name truncated.
OpenSpill(t) ==
  /\ pc[t] = "sv_open"
  /\ dir' = [dir EXCEPT ![sName[t]] = EmptyFile]
  /\ fdLive' = [fdLive EXCEPT ![t] = TRUE]
  /\ Goto(t, "sv_write")
  /\ UNCHANGED <<poolVars, queue, data, state, running, sockVars, timeVars,
                 workVars, prodVars, sFirst, sLast, sCnt, sName, wire, produced>>

\* The save failed: save_buffers() puts first back to the allocator, sets
\* ret = false and goes round the loop again with the same first.
SaveFailed(t) ==
  /\ Pool!Put(sFirst[t])
  /\ Goto(t, "sv_probe")

OpenSpillFail(t) ==
  /\ pc[t] = "sv_open"
  /\ SaveCanFail
  /\ SaveFailed(t)
  /\ UNCHANGED <<allocated, queue, data, state, running, sockVars, timeVars,
                 workVars, prodVars, saveVars, dir, wire, produced>>

\* The write loop completed (into an unlinked inode if the name was removed
\* meanwhile); then first goes back to the allocator and the loop moves to
\* first->next() unless first == last.
WriteSpill(t) ==
  /\ pc[t] = "sv_write"
  /\ dir' = IF fdLive[t] THEN [dir EXCEPT ![sName[t]] = data[sFirst[t]]] ELSE dir
  /\ Pool!Put(sFirst[t])
  /\ IF sFirst[t] = sLast[t]
     THEN Goto(t, AfterSave(t)) /\ UNCHANGED sFirst
     ELSE sFirst' = [sFirst EXCEPT ![t] = link[sFirst[t]]] /\ Goto(t, "sv_probe")
  /\ UNCHANGED <<allocated, queue, data, state, running, sockVars, timeVars,
                 workVars, prodVars, sLast, sCnt, sName, fdLive, wire, produced>>

\* write() failed: close() and unlink() the name, return false.
WriteSpillFail(t) ==
  /\ pc[t] = "sv_write"
  /\ SaveCanFail
  /\ Unlink(sName[t])
  /\ SaveFailed(t)
  /\ UNCHANGED <<allocated, queue, data, state, running, sockVars, timeVars,
                 workVars, prodVars, sFirst, sLast, sCnt, sName, wire, produced>>

\* sender::send(buf), after save_buffers(): _M_state = sending_files.
SetFilesState(p) ==
  /\ pc[p] = "sv_state"
  /\ state' = Files
  /\ Goto(p, "idle")
  /\ UNCHANGED <<poolVars, queue, data, running, sockVars, timeVars, workVars,
                 prodVars, saveVars, dir, wire, produced>>

-----------------------------------------------------------------------------
(* A producer (test_sender.cpp's loop): get a buffer, init it, send it.  *)

Payload(p) == Script[p][nextIdx[p]]

ProducerGet(p) ==
  /\ pc[p] = "idle" /\ running
  /\ nextIdx[p] <= Len(Script[p])
  /\ \E b \in Buffers : Pool!Get(b) /\ held' = [held EXCEPT ![p] = b]
  /\ Goto(p, "init")
  /\ UNCHANGED <<queue, data, state, running, sockVars, timeVars, workVars,
                 nextIdx, saveVars, dir, wire, produced>>

\* get() returned nullptr: the producer gives up.
ProducerGetFails(p) ==
  /\ pc[p] = "idle" /\ running
  /\ nextIdx[p] <= Len(Script[p])
  /\ Pool!GetFails
  /\ Goto(p, "stopped")
  /\ UNCHANGED <<queue, data, state, running, sockVars, timeVars, workVars,
                 prodVars, saveVars, dir, wire, produced>>

\* buffer::init: realloc and copy the payload.
InitOk(p) ==
  /\ pc[p] = "init"
  /\ data' = [data EXCEPT ![held[p]] = Payload(p)]
  /\ Goto(p, "push")
  /\ UNCHANGED <<poolVars, queue, state, running, sockVars, timeVars, workVars,
                 prodVars, saveVars, dir, wire, produced>>

\* realloc failed: the buffer goes back to the allocator, the producer stops.
InitFail(p) ==
  /\ pc[p] = "init"
  /\ Pool!Put(held[p])
  /\ held' = [held EXCEPT ![p] = Nil]
  /\ Goto(p, "stopped")
  /\ UNCHANGED <<allocated, queue, data, state, running, sockVars, timeVars,
                 workVars, nextIdx, saveVars, dir, wire, produced>>

\* sender::send(buf): push_back, and spill when the new count passes
\* max_queued_buffers.
Push(p) ==
  /\ pc[p] = "push"
  /\ Q!PushBack(held[p])
  /\ produced' = produced \cup {Payload(p)}
  /\ nextIdx' = [nextIdx EXCEPT ![p] = @ + 1]
  /\ held' = [held EXCEPT ![p] = Nil]
  /\ Goto(p, IF Len(queue) + 1 > MaxQueued THEN "sv_pop" ELSE "idle")
  /\ UNCHANGED <<poolFirst, allocated, data, state, running, sockVars, timeVars,
                 workVars, saveVars, dir, wire>>

-----------------------------------------------------------------------------
(* The application and the environment.                                   *)

\* sender::stop(), called by the producing thread once it is between sends
\* (test_sender.cpp), sets _M_running = false and joins the worker.
Stop ==
  /\ running
  /\ \A p \in Producers : pc[p] \in {"idle", "stopped"}
  /\ running' = FALSE
  /\ UNCHANGED <<poolVars, queue, data, state, sockVars, timeVars, pc,
                 workVars, prodVars, saveVars, dir, wire, produced>>

\* The peer closes the connection.
PeerCloses ==
  /\ connected /\ ~peerClosed
  /\ peerClosed' = TRUE
  /\ UNCHANGED <<poolVars, queue, data, state, running, connected, timeVars,
                 pc, workVars, prodVars, saveVars, dir, wire, produced>>

\* Wall-clock time passes (bounded above by Horizon: past it no guard changes).
Tick ==
  /\ clock < Horizon
  /\ clock' = clock + 1
  /\ UNCHANGED <<poolVars, queue, data, state, running, sockVars, idle, pc,
                 workVars, prodVars, saveVars, dir, wire, produced>>

\* After stop() has joined the worker, or the process died, nothing runs.
Terminated ==
  /\ pc[Worker] \in {"done", "crashed"}
  /\ UNCHANGED vars

-----------------------------------------------------------------------------

Init ==
  /\ poolFirst = Nil
  /\ link = [b \in Buffers |-> Nil]
  /\ allocated = {}
  /\ queue = <<>>
  /\ data = [b \in Buffers |-> NoMsg]
  /\ state = Files
  /\ running = TRUE
  /\ connected = FALSE
  /\ peerClosed = FALSE
  /\ idle = Horizon
  /\ clock = 0
  /\ pc = [t \in Threads |-> IF t = Worker THEN "top" ELSE "idle"]
  /\ errorSending = FALSE
  /\ wFirst = Nil
  /\ wLast = Nil
  /\ snap = {}
  /\ seen = {}
  /\ nextIdx = [p \in Producers |-> 1]
  /\ held = [p \in Producers |-> Nil]
  /\ sFirst = [t \in Threads |-> Nil]
  /\ sLast = [t \in Threads |-> Nil]
  /\ sCnt = [t \in Threads |-> 0]
  /\ sName = [t \in Threads |-> Nil]
  /\ fdLive = [t \in Threads |-> FALSE]
  /\ dir = [n \in Names |-> IF n \in DOMAIN Leftover THEN Leftover[n] ELSE NoFile]
  /\ wire = <<>>
  /\ produced = {}

WorkerStep ==
  \/ LoopTop \/ Holdoff \/ ReconnectOk \/ ReconnectFail \/ Dispatch
  \/ PopBatch \/ PopTimeout \/ BatchConnectOk \/ BatchConnectFail
  \/ SendOk \/ SendFail
  \/ FilesConnectOk \/ FilesConnectFail \/ OpenDir \/ OpenDirFail
  \/ \E n \in Names : ReadEntry(n) \/ SendFileOk(n) \/ SendFileFail(n)
  \/ FilesDone \/ LoopBottom

SaveStep(t) ==
  \/ SavePop(t) \/ SaveNothing(t) \/ Probe(t) \/ NullDeref(t) \/ OpenSpill(t)
  \/ OpenSpillFail(t) \/ WriteSpill(t) \/ WriteSpillFail(t)

ProducerStep(p) ==
  \/ ProducerGet(p) \/ ProducerGetFails(p) \/ InitOk(p) \/ InitFail(p)
  \/ Push(p) \/ SetFilesState(p)

Next ==
  \/ WorkerStep
  \/ \E t \in Threads : SaveStep(t)
  \/ \E p \in Producers : ProducerStep(p)
  \/ Stop \/ PeerCloses \/ Tick \/ Terminated

Spec == Init /\ [][Next]_vars

-----------------------------------------------------------------------------
(* Where buffers and payloads are.                                         *)

\* The chain run() is sending, and the chain save_buffers() is saving on t.
WorkerChain ==
  IF pc[Worker] \in {"w_connect", "w_send"} THEN Q!ChainOf(wFirst, wLast) ELSE <<>>
SpillChain(t) ==
  IF pc[t] \in {"sv_probe", "sv_open", "sv_write"} /\ sFirst[t] \in Buffers
  THEN Q!ChainOf(sFirst[t], sLast[t]) ELSE <<>>
\* The buffer a producer has taken from the allocator.
Hand(p) == IF pc[p] \in {"init", "push"} THEN <<held[p]>> ELSE <<>>

CountIn(s, b) == Cardinality({i \in DOMAIN s : s[i] = b})

Occurrences(b) ==
  CountIn(Pool!FreeList, b) + CountIn(queue, b) + CountIn(WorkerChain, b)
    + SumFunction([t \in Threads |-> CountIn(SpillChain(t), b)])
    + SumFunction([p \in Producers |-> CountIn(Hand(p), b)])

\* Payloads held by a buffer on its way: filled and not yet pushed, queued,
\* or in a chain being sent or saved.
Carried ==
  {data[held[p]] : p \in {q \in Producers : pc[q] = "push"}}
    \cup {data[b] : b \in Range(queue) \cup Range(WorkerChain)}
    \cup {data[b] : b \in UNION {Range(SpillChain(t)) : t \in Threads}}

OnDisk == {dir[n] : n \in {k \in Names : dir[k] \in Msgs}}
Sent == Range(wire)

\* Payloads the sender is responsible for: pushed, or left on disk.
Accepted == produced \cup Range(Leftover)

-----------------------------------------------------------------------------
(* Properties.                                                             *)

TypeOK ==
  /\ poolFirst \in Buffers \cup {Nil}
  /\ link \in [Buffers -> Buffers \cup {Nil, Header}]
  /\ allocated \subseteq Buffers
  /\ queue \in Seq(Buffers)
  /\ data \in [Buffers -> Msgs \cup {NoMsg}]
  /\ state \in {Files, Queued}
  /\ {running, connected, peerClosed, errorSending} \subseteq BOOLEAN
  /\ idle \in 0..Horizon /\ clock \in 0..Horizon
  /\ wFirst \in Buffers \cup {Nil} /\ wLast \in Buffers \cup {Nil}
  /\ snap \subseteq Names /\ seen \subseteq Names
  /\ held \in [Producers -> Buffers \cup {Nil}]
  /\ sCnt \in [Threads -> 0..MaxName + 1]
  /\ sName \in [Threads -> Names \cup {Nil}]
  /\ fdLive \in [Threads -> BOOLEAN]
  /\ dir \in [Names -> Msgs \cup {NoFile, EmptyFile}]
  /\ wire \in Seq(Msgs)
  /\ produced \subseteq Msgs

\* Spec 8.1: every buffer that exists is in exactly one of the free list,
\* the queue, the worker's chain, a save_buffers() chain or a producer's
\* hand.  Broken by a buffer the allocator gets back twice, or never.
BufferOwnership == \A b \in allocated : Occurrences(b) = 1

\* No payload a producer pushed, or an earlier run left on disk, is lost:
\* it is carried by a buffer, in a spill file, or was sent.  It is about the
\* requeue on a failed send and the hand-over between queue, worker, spill
\* files and send_files().
NoLoss == \A m \in Accepted : m \in Carried \cup OnDisk \cup Sent

\* Spec 8.4: the payloads of one producer reach the wire in push order.
\* It is about push_front() of the unsent suffix after a failed send.
FifoOrder ==
  \A p \in Producers :
    IsPrefix(SelectSeq(wire, LAMBDA m : m \in Range(Script[p])), Script[p])

\* No payload is accepted by the transport twice: a sent file is unlinked,
\* a sent buffer leaves the chain, and nothing is saved that was sent.
NoDuplicateSend == IsInjective(wire)

\* Spec S5: once run() has returned, every accepted payload was sent or is
\* in a spill file; nothing stays in the queue.
ShutdownFlushed ==
  pc[Worker] = "done" => Accepted \subseteq Sent \cup OnDisk

\* Spec 8.10: two save_buffer() calls never write the same file name.  It is
\* about stat() probing a name and open() creating it in separate steps.
SpillNamesDistinct ==
  \A t, u \in Threads :
    t # u /\ pc[t] \in {"sv_open", "sv_write"} /\ pc[u] \in {"sv_open", "sv_write"}
      => sName[t] # sName[u]

\* Spec 7 and 8.5: a spill file holding a payload is removed only by the step
\* that hands that payload to the transport.  It is about send_file()
\* returning true for files it did not send.
UnlinkOnlyAfterSend ==
  [][\A n \in Names :
       (dir[n] \in Msgs /\ dir'[n] = NoFile) => wire' = Append(wire, dir[n])]_vars

\* The peer stops closing the connection at some point.
PeerSettles == <>[][~PeerCloses]_vars

\* If the peer eventually stops closing connections, every accepted payload
\* is eventually sent, or run() has returned and it is in a spill file.  It
\* is about the worker's reconnect hold-off and the state machine bringing
\* it back to each queued buffer and each file.
EventuallyDelivered ==
  PeerSettles =>
    \A m \in Msgs :
      m \in Accepted ~> (m \in Sent \/ (pc[Worker] = "done" /\ m \in OnDisk))

\* A payload in a spill file is eventually sent while the sender runs.  It
\* is about the producer's _M_state = sending_files racing send_files()'s
\* _M_state = sending_queued_buffers.
SpilledEventuallySent ==
  PeerSettles => \A m \in Msgs : m \in OnDisk ~> (m \in Sent \/ ~running)

-----------------------------------------------------------------------------
(* Fairness.  The worker thread is always scheduled; a producer that is   *)
(* inside send() finishes it; time passes.  The network is assumed to     *)
(* recover: a connect or send that can succeed infinitely often does.     *)
(* The application (get, stop) and the peer (close) are not fair.         *)

Fairness ==
  /\ WF_vars(WorkerStep)
  /\ SF_vars(ReconnectOk) /\ SF_vars(BatchConnectOk) /\ SF_vars(FilesConnectOk)
  /\ SF_vars(OpenDir) /\ SF_vars(SendOk)
  /\ \A n \in Names : SF_vars(SendFileOk(n))
  /\ \A t \in Threads : WF_vars(SaveStep(t))
  /\ \A p \in Producers : WF_vars(InitOk(p) \/ InitFail(p) \/ Push(p) \/ SetFilesState(p))
  /\ WF_vars(Tick)

FairSpec == Spec /\ Fairness

=============================================================================
