# Specifications of cppNote

TLA+ specifications, model-checking instances and proofs for the concurrent
parts of this repository: the RTSP server's reactor (`src/src/rtsp/net`), the
way media frames reach RTSP clients (`src/src/rtsp/xop`), the SIP server
(`src/src/sipServer`), and the SIP platform
(`src/redundance/sipSvrDemo/Demo`, below called the platform).  `PROJECT.json`
ties every definition to the lines it stands for.

## 1. The system

The repository holds three servers, the libraries they need, and study code.

| part | state it keeps | operations | talks to |
|---|---|---|---|
| callback queue, `net/RingBuffer.h` | slots, two positions, a counter | `Push`, `Pop` | one scheduler |
| task scheduler, `net/TaskScheduler.cpp`, `EpollTaskScheduler.cpp`, `SelectTaskScheduler.cpp`, `Pipe.cpp` | queue, wake-up pipe, shutdown flag, channels, timer queue | `Start`, `Stop`, `AddTriggerEvent`, `AddTimer`, `UpdateChannel`, `HandleEvent` | runs everybody's callbacks on its thread |
| timer queue, `net/Timer.cpp` | two maps over the same timers | `AddTimer`, `RemoveTimer`, `HandleTimerEvent`, `GetTimeRemaining` | driven by its scheduler |
| event loop, `net/EventLoop.cpp` | schedulers, their threads, round-robin index | `Loop`, `Quit`, `GetTaskScheduler` | hands schedulers to connections |
| TCP server and acceptor, `net/TcpServer.cpp`, `Acceptor.cpp` | connections by socket number | `Start`, `Stop`, accept, remove | connections, scheduler 0 |
| TCP connection, `net/TcpConnection.cpp`, `BufferWriter.cpp` | write buffer, closed flag, channel | `Send`, `HandleRead`, `HandleWrite`, `HandleClose`, `Disconnect` | its scheduler, the peer |
| RTSP connection and server, `xop/RtspConnection.cpp`, `RtspServer.cpp` | state of the RTSP dialogue, sessions | one handler per request, `PushFrame`, `RemoveSession` | media sessions |
| media session and RTP connection, `xop/MediaSession.cpp`, `RtpConnection.cpp` | clients, per-client RTP header and sequence number | `HandleFrame`, `AddClient`, `RemoveClient`, `SendRtpPacket` | schedulers of its clients |
| RTSP pusher, `xop/RtspPusher.cpp` | one connection | `OpenUrl`, `PushFrame`, `Close` | event loop |
| RTSP messages, digest, media sources, memory pool, socket helpers | (data only) | parsing, packetising | |
| service wrappers, `src/src/rtsp/*.cpp` | port pool, a listening thread | `crete_port_pairs`, `get_port_pair`, `close` | nothing uses them yet |
| SIP server, `src/src/sipServer` | registered clients, sessions by call | one handler per SIP message type | phones over UDP |
| platform: read-write lock, `read_write_lock.cpp` | three counters, a semaphore, an event, the writing thread | `enter_read`, `leave_read`, `enter_write`, `leave_write` | guards the address book |
| platform: SIP service, `service_sip.cpp`, `sip_user_agent.cpp` | a pool of worker threads | one handler per SIP message | calls, address book |
| platform: calls, `call_manager.cpp`, `call_status.h` | calls by call id, a thread that ends old ones | `insert_call_status`, `set_call_status`, `set_call_mgr_center`, `work`, `finit` | devices, event upload |
| platform: address book and devices, `addr_book_mgr.h`, `device.h` | devices, the managers by priority, each device's status | `get_idle_manager_center`, `set_busy_status`, `set_idle_status`, registration, edits | web service, database |
| platform: event upload, `event_upload.cpp`, `work_thread.cpp` | list of call records, the thread's event | `upload_record`, `work`, `finit` | database, the central platform |
| platform: database, `db_manager.cpp` | tables of devices, registrations, call records | SQL statements | a SQLite file |
| platform: configuration, web service, network manager, application | (data, life cycle) | `start_app`, `stop_app` | everything above |
| zltoolkit (two copies) | log channels, pending log lines | `write`, `run`, `flushAll` | |
| study code, demos, Android, vendored oSIP/eXosip | | | |

How they interact.  A `TaskScheduler` is a thread.  In each round it runs the
callbacks posted to it, then the timers that are due, then waits for its
channels, where the wait ends at the next timer or at a byte in the wake-up
pipe.  Whoever wants something done on that thread posts a callback.  A
`TcpServer` accepts on scheduler 0, gives each connection a scheduler by
turns, and removes a closed connection through a callback the connection's
thread posts to itself.  `PushFrame` is called by application threads; it
posts one callback per client and packet.  The SIP server has a single thread,
which reads a datagram, runs its handler and sends what the handler wants
sent; its concurrency is that of the phones and the network.

The platform is another SIP server, with a pool of workers.  A phone that calls
the centre's number gets the first idle manager; the manager is busy until the
call ends, by a BYE, a CANCEL, a refusal, a timeout, the manager's next call or
the server's stop.  A call that ends is turned into a record, which
`event_upload_t` sends to the central platform, or keeps in the database until
the central platform takes records again.  The address book is under a
read-write lock, which handlers take nested; each device's status is changed by
compare-and-swap.

What is hard, and so what the models are about:

- a queue whose two ends share no lock (`RingBuffer`);
- a thread that goes to sleep while another gives it work (`TaskScheduler`);
- two maps that must agree, and a clock that moves between two looks at it
  (`TimerQueue`);
- an entry keyed by a number that the system hands out again, removed later and
  elsewhere (`TcpServer`);
- `try_lock`, partial sends and a close that may come from three places
  (`TcpConnection`);
- a packet buffer shared by clients, whose header each of them rewrites, and
  callbacks that outlive what they point to (`MediaSession`);
- requests and answers that cross (`SipServer`);
- permits that are on their way when others arrive (`ReadWriteLock`);
- one call ended from five sides at once, under two locks taken in both orders
  (`CallManager`);
- a list, a table and a remote platform that must not lose or repeat a record,
  with errors, lost answers and crashes between the steps (`EventUpload`).

What makes each part correct:

- queue: FIFO, never over capacity, no slot accessed from both ends at once;
- scheduler: whatever was posted is run, in each caller's order; it stops when
  told to; a timer's time is not slept past;
- timer queue: a timer fires when it is due, not earlier, not twice for one time,
  and not after its removal;
- TCP server: an open connection is listed under its socket; a closed one
  is dropped; `Stop` comes back, with nothing left open;
- TCP connection: whole packets in order, no data forgotten in the buffer, one
  close;
- media session: every client's connection is handed the client's own consecutive
  sequence numbers, frames unmixed and, from a key frame on, complete;
- SIP server: a session is there exactly as long as its call needs it, and who
  ends a call is answered;
- read-write lock: readers or one writer; nobody waits while nobody holds it;
  writers are not starved;
- calls: a record per call, one call per manager, a manager busy exactly while in
  a call, no call that stays for ever;
- event upload: a record is delivered, once, unless a fault it cannot cover
  happened.

`PROJECT.json` lists under "hazards" the lines where each of these can go wrong.

## 2. The modules

| module | models | checked by |
|---|---|---|
| `BoundedQueue` | what a callback queue promises | refined by `RingBuffer` |
| `RingBuffer` | `RingBuffer::Push` and `Pop`, one step per memory access | `MCRingBuffer`, `SchedulerPartsProofs` |
| `TaskScheduler` | the loop, `AddTriggerEvent`, `AddTimer`, `Stop` | `MCTaskScheduler`, `TaskSchedulerProofs` |
| `TimerQueue` | `Timer.cpp` with its clock and the scheduler's wait | `MCTimerQueue`, `SchedulerPartsProofs` |
| `TcpServer` | server, acceptor, event loop's round robin, the life of each connection | itself, `ServerProofs` |
| `TcpConnection` | sending and closing of one connection | itself, `TcpConnectionProofs` |
| `MediaSession` | from `PushFrame` to the write buffer of each client's connection, with the RTSP requests | `MCMediaSession`, `MediaSessionProofs` |
| `SipServer` | every SIP handler, two phones per call, the network | `MCSipServer`, `ServerProofs` |
| `ReadersWriters` | what a read-write lock promises | refined by `ReadWriteLock` |
| `ReadWriteLock` | the four methods of the platform's lock | itself, `ReadWriteLockProofs` |
| `CallManager` | calls, devices and address book of the platform, its workers and its timeout thread | `MCCallManager`, `CallManagerProofs` |
| `Outbox` | what the upload of call records promises | refined by `EventUpload` |
| `EventUpload` | `event_upload.cpp` with its thread and table | `MCEventUpload`, `EventUploadProofs` |

The modules compose by contract.  `RingBuffer` implements `BoundedQueue`, proved
by refinement; `TaskScheduler` uses that queue with atomic `Push` and `Pop`.
`TcpServer` and `MediaSession` use a scheduler that runs callbacks in order,
drains its queue before its timers and channels, and refuses a callback when
full, which is what `TaskScheduler`'s `RunInCallOrder`, `CallbackRuns` and
`AcceptedIsKept` say of it.  The last holds for one caller at a time near a full
queue and fails for two (finding 1); what `TcpServer` says is relative to it.
On the platform's side `ReadWriteLock` implements `ReadersWriters`, and
`CallManager` uses that lock with one writer, keeping of it what matters there: a
reader does not enter while the writer waits.  `CallManager` hands each ended
call's record over once (`EachCallOnce`); that is `UploadRecord` of `EventUpload`,
which implements `Outbox`.

### RingBuffer

`put_pos_`, `get_pos_`, `num_datas_` and `buffer_` are the class's members;
`ppc`, `cpc` say how far the one producer and the one consumer are in `Push` and
`Pop`.  (`Push` calls are serialised by `TaskScheduler::mutex_`; `Pop` is only
called by the loop.)  Testing the counter, accessing the slot, moving the
position and changing the counter are separate steps, because the code holds no
lock.  `num_datas_` is atomic and sequentially consistent.

### TaskScheduler

`cpc[c]` is where caller `c` is inside `AddTriggerEvent`: the test of `Size()` is
outside `mutex_`, the push and the write to the pipe inside.  `lpc` is where the
loop is in `Start`, `HandleTriggerEvent`, `GetTimeRemaining` and `HandleEvent`.
The loop itself may call `AddTriggerEvent` and `AddTimer` from a callback or a
handler.  `blocks`, chosen in `Init`, tells `epoll_wait` with -1 from `select` with
its bounded wait.  A timer here is only added, due and fired; `TimerQueue` has
the detail.

### TimerQueue

`events_` is the set of its keys `<<time, id>>`, ordered as the map orders them;
`timers_` the ids; `timer` what `Timer` objects hold.  A callback's result (again
or not) is nondeterministic.  Adding and removing interleave with the loop
except while callbacks run, which they do under the queue's mutex.  The loop asks
`GetTimeRemaining` and then waits in `HandleEvent`, two steps between which the
clock and other threads go on.  `scheduler`, chosen in `Init`, says whose wait it
is: epoll waits for the timeout it is given and for ever with -1, select makes
`SelectWait` (10 ms) of a timeout of 0 or -1 (`WaitFor`).  So with select a timer
that is due already waits for up to 10 ms more, and `NoOversleep` says that this is
all.  `runs` counts how often each timer has fired and `last` when, because
`NeverEarly` compares each firing with the one before.  It compares with the time
`HandleTimerEvent` took for a run (`timePoint`), as the code does: behind the slow
callback of another timer a run is late, and the next one follows it by less.

### TcpServer

`connections_` maps socket numbers to connections; the kernel gives a number out
again when the last reference to its connection is dropped (`Referenced`).
`OnConnect`, `AddConnection` and `SetDisconnectCallback` are three steps of the
acceptor's callback, because the connection's channel is registered by the first
and can close on another thread before the others.  `Close` is the whole
of `HandleClose` with the disconnect callback: it posts `RemoveConnection`, or
leaves it to a timer when the queue is full.  `Stop` runs on the user's thread:
list under the mutex, disconnect each, close the acceptor, wait until empty.

### TcpConnection

`pc[t]` is where thread `t` is in `Send` and `HandleWrite`.  `handling` is what the
call of `Channel::HandleEvent` the loop is in has still to run: the read, write and
close callbacks of one event run in this order, and the read callback, which may
send and disconnect, runs inside the first.  A send that fails in it closes the
connection; when it then returns false, or the rest of the event closes again,
`is_closed_` has to stop that (`LockAndClose`).  `Disconnect` posts a `Close` with
`mutex_` held; the scheduler may refuse it (`PostClose`), which the code does not
look at.  The socket takes any part of a packet there is room for.  `senders` is
chosen once: only the loop's thread sends, as for the clients of an RTSP server, or
other threads send as well, as for a pusher.  `wire` remembers which byte of which
packet went out.

### MediaSession

A pushing thread cuts a frame into packets and, packet by packet, collects the
clients, makes one copy of the data per scheduler and posts one callback per
client.  A callback writes the header into the shared copy (`RunSend`) and hands it
to the client's connection (`SendRtpOverTcp`), as two steps.  There
`BufferWriter::Append` drops it without a word when its 500 places are taken, and
`packet_seq` has moved on: `handed` is what each connection was given, with whether
the buffer took it, and for the clients of `scene.slow` it may refuse at any time.
What the peer then reads of what was taken is `TcpConnection`'s matter.  DESCRIBE,
SETUP, PLAY, TEARDOWN and close run on the client's scheduler between callbacks.
`held` are the clients a pushing thread holds strong references to; a connection is
destroyed when it is neither in `connections_` nor held.  `dropped` remembers which
connections a scheduler's full queue made miss a packet, because `NoGap` is about
the others.  `scene`, chosen in `Init`, says which connections, slow readers,
pushing threads and frames a behaviour has.

### SipServer

`clients` and `sessions` are `_clients` and `_sessions`.  Each handler is one
action on the datagram at the head of what a phone sent.  `endHandle` sends to
the registered party or turns the message into a 404 for its sender.  `leftover`
is there because the receive buffer is not terminated: once a datagram with a
body was received, a message without one may be taken for one with.  The
phones (`CallerReaction`, `CalledReaction`) are not in the repository; they are
ordinary user agents that ring, answer, refuse, cancel and hang up when they
like.  They neither retransmit nor time out by themselves: the network's
duplicates and losses stand for the first, and no property relies on the second.

### ReadWriteLock

The variables with an underscore are the class's members.  Each method is one
critical section under `_sec_counter` and perhaps a wait after it (`waits`); a
writer that was woken stores itself into `_writing_thread` in a step of its own
(`Claim`), which is outside the critical section.  A thread may read while it
reads and write while it writes, as the platform's threads do, up to `MaxDepth`.
`_write_event` counts posts, so that the type invariant (at most 1) also covers
the Windows build, whose event cannot count.

### CallManager

`_call_map` maps a call to its record; `number` tells a record from a later one of
the same call.  `thread[t]` is where a worker or the timeout thread is inside its
handler.  `handle_invite` is split where it releases or takes a lock or touches a
device: look for a known call, try the managers one by one, insert or leave.
Whoever ends a call copies the record, frees the two devices and erases the record
with `_call_map_lock` held or not, as the code does (`mapOwner`).  `writer` is the
one editor of the address book.  Abstracted: messages arrive in any order, each
kind once per call and the INVITE twice where the scene says so; a CANCEL has the
effect of a BYE; one pass of `work` ends one call; zones, synchronisation sources
and analog stations of the address book.

### EventUpload

Records are numbered as they come.  `mem`, `batch` and `db` are the list, the copy
`work` uploads and the table; `pc` is where `work` is, and `phase` how far a stop
has got.  `finit` writes the list to the table after the thread has ended, by the
code of `work` that does the same (`MakeRoom`, `Store`).  `signalling` are the records
whose caller has left the list's lock and not yet set the event.  Faults: the
platform refuses, takes a batch without its answer coming back, a database access
fails, the process ends.  A transaction is assumed to be written whole or not at
all and a rollback to work; records have different ids (an `INSERT` with an id
that exists fails unnoticed, which the model leaves out).

## 3. The runs

| run | instance | shows |
|---|---|---|
| `ring_buffer` | capacity 3, two items | the positions lap each other several ways; `NoSlotRace`, refinement of `BoundedQueue` |
| `scheduler` | a thread that posts three times and the loop as caller, queue of 2, pipe of 1 byte, one timer; both kinds of wait | queue and pipe both fill up; nothing posted, no stop and no timer of a handler is slept through; order of calls; a callback of a sole caller is kept; with a bounded wait every timer fires |
| `scheduler_two_callers` | two callers, queue of 2 | finding 1 |
| `timer_queue` | delays 0 and 2, select's wait 2; two timers; clock to 4; both kinds of wait | repetition, removal during the wait and between firings, equal times, `ms = 0`; a timer is slept past only by select's own wait when it is due already |
| `tcp_server` | 3 connections, 2 socket numbers, 3 schedulers, queue of 2 | a number used a second time while the first owner's removal is pending, full queues, `Stop` and a new `Start` |
| `tcp_connection` | the loop and a user thread, 3 packets of 1 or 3 bytes, queue of 2, socket room of 2 | partial sends, full buffer, `try_lock` that fails; close by a failing send inside the read callback, by its answer, by the rest of the event and by `Disconnect`, of which one `Close` may be pending and any number refused |
| `media_frames` | two scenes: 2 clients on 2 schedulers with a frame of 1 packet, or 1 client, 2 pushing threads and 2 frames in 3 packets; the first client reads slowly; queues of 2; sequence numbers modulo 2 | copies per scheduler, full queues and write buffers, wrap of `packet_seq`, frames stay together, key-frame rule, a playing client's packets get into its write buffer or find it full |
| `media_lifetime` | 1 client, 1 pushing thread | finding 2 |
| `sip_calls` | one call, two phones, two registrations, one disturbed and one duplicated datagram | answer, refusal, cancel and hang-up by either or both; crossings; not registered, unregistered in the middle; no body |
| `rw_lock` | 4 threads, two of which nest, depth 2 | refinement of `ReadersWriters`; counters agree with the threads; writers get in; the only halt is a nested read behind a waiting writer |
| `calls` | two calls, two workers, the timeout thread, two managers, two phones, nine scenes | one record per call, one call per manager, no manager left busy, no halt of the two locks without an edit, calls end |
| `event_upload` | 4 records, batches of 2, list of 2, table of 3; 2 refusals, 1 lost answer, 1 database error, 1 crash, 1 stop | refinement of `Outbox`; the table keeps its rows and counts them right; full batch wakes the thread; stop ends; everything leaves |

The bounds.  Every limit in the code that matters (capacity of the queue, size of
the pipe, number of schedulers, length of the write buffer, range of the
sequence number) is small enough to be reached and passed several times.  Two
callers, two loops and two pushers are what the races need: each of the
hazards is between two actors over one object.  Three connections on two
socket numbers are the fewest with a reused number and an unrelated third.  One
call is enough for the SIP server because its handlers touch only the session of
the message's own call and share just the registrations.  Where a theorem
exists, the bound no longer matters for that property.

Four threads are needed for the lock: a reader that nests, one that does not, a
writer at work and a writer that waits.  The nine scenes of `calls` (`AllScenes` in
`MCCallManager`) are pairs of calls that can meet at a manager: two phones call the
centre while a device leaves or the server has no address; a phone calls it and
repeats its INVITE, or has the address book edited, or another phone dials the
manager; a manager calls a phone, the centre or a manager.  All of them together
with free choice would not finish; a hazard of this code is between two calls over
one manager or between one call and the editor, and each such pair is a scene.  In
`event_upload` the list overflows, the table overflows, a batch does not fit, and
every fault can fall on every step.

Bounds on otherwise unbounded things: `MaxCalls` (calls per caller), `MaxTimers`,
`MaxNow` (clock), `MaxPackets` (sends), `Conns` (each accepted once), `Frames`,
`MaxRegisters`, `MaxDisturbed`, `MaxDuplicated`, `MaxDepth`, `MaxEdits`,
`MaxAccepted`, `MaxFaults`, `MaxStops`, `MaxPosted` (in `TcpConnection` the `Close`s
pending at once).  `CHECK_DEADLOCK FALSE` stands
in the configurations of systems that may legitimately stop: a bounded number of
calls is over, the loop was told to stop, every connection is closed.  The ring
buffer has no such end and is checked for deadlock.

Every property has a slip next to the code it is about: a definition of the same
form with one plausible error (a test dropped, a wrap forgotten, a wake-up left
out) under which TLC finds that property violated.  They are the "mutants" of
`PROJECT.json` and take no part in the specifications.

### Fairness

- A thread that can go on does (`WF` on the loop's steps, on a caller inside
  `AddTriggerEvent`, on a pushing thread, on `Stop` once called): the operating
  system schedules runnable threads.  Nobody is forced to call anything.
- A clock ticks, and a due timer becomes due (`WF` on `Tick`, `Expire`).
- `TcpConnection`: a thread goes on with its call, and the loop with the callbacks of
  an event it has begun (weak).  Strong fairness is on the report of room for writing
  (`ReportsRoom`) and on the posted close.  Both are enabled again and again while
  other things of the same loop run in between; each turn of the loop drains the
  queue and asks again what is ready, so neither is passed over for ever.  The peer
  keeps reading (`PeerReads`), or data could not leave.
- `SipServer`: the server keeps reading its socket and each phone its own.  No
  user has to ring, answer, cancel or hang up.
- `MediaSession`: pushing threads and schedulers go on, up to a use of a
  destroyed object (`broken`), after which nothing is assumed.
- `ReadWriteLock`: a thread leaves what it entered and wakes when it may.  Nobody
  has to enter.
- `CallManager`: a thread inside a handler goes on; the timeout thread finds a call
  old in the end; the editor gets the lock when the last reader has left.  No
  message has to come and nobody has to edit.
- `EventUpload`: its thread runs, which includes the end of its timed wait; who
  stops it goes on; a caller sets the event.  Nobody has to call, stop or start.

### Findings

1. `scheduler_two_callers` violates `AcceptedIsKept`: `AddTriggerEvent` tests
   `Size()` before it locks and ignores what `Push` returns
   (`TaskScheduler.cpp:80`), against its comment at line 73 that the callback
   is put into the queue.
2. `media_lifetime` violates `SentOnLiveConnection`: the callback posted in
   `RtpConnection.cpp:249` holds a plain `this`, against
   `test/rtsp_server.cpp:73`, which calls the interface thread safe.

Met while modelling, without a document that says otherwise, and so stated as
limits of the properties: a `Stop` before the loop's thread has reached `Start`
is forgotten; `RemoveTimer` misses a timer with `ms = 0`; a connection that
closes before its disconnect callback is set stays listed for ever, its descriptor
open, and a later `Stop` waits for it; a `Disconnect` whose `Close` the scheduler
refuses does nothing, and may leave a packet in the buffer without a write event if
it made `HandleWrite` give up (`refused`, named by `Flushed` and `NoStrandedData`); the
write buffer drops a packet of a slow client without a word, after its number was
given; select waits 10 ms when a timer is due already; when a CANCEL crosses the answer, the answer to the BYE that follows
is dropped; a lost or repeated SIP datagram can leave a session for ever.  On the
platform: a handler that reads the address book reads it again when it ends a call
(`service_sip.cpp`, `call_manager.cpp`), and comes to a halt when an edit starts to
wait in between (`Caught`, excluded by name in `CallEnds` and
`HaltsOnlyByEditing`); a manager can be in two calls or left busy when it calls
itself, is dialled by its own number (`addr_book_mgr.h:279`), unregisters and
registers again during a call (`device.h:156`, against the comment at line 320,
that a busy device does not go offline), is edited, or when its caller repeats the INVITE
(`disturbed`); a call that rings has no time limit; the event a stop sets may
be the one `work` resets, and then the stop waits for the thread's timeout.

## 4. The proofs

A component's theorems are in its `...Proofs` module.

| theorem | statement | how |
|---|---|---|
| `SchedulerPartsProofs!TypeCorrect`, `SlotRaceFree` | `[]TypeOK`, `[]NoSlotRace`, for every capacity | the inductive invariant relates the distance of the two positions to the counter and to where both threads are |
| `SchedulerPartsProofs!IsBoundedQueue` | `Spec => Queue!Spec` | the queue's contents are read off the slots from `get_pos_` on; one lemma per step: accept, take or stutter |
| `TaskSchedulerProofs!TypeCorrect` | `[]TypeOK`, any number of callers | plus: whoever is past the test inside `AddTriggerEvent` owns `mutex_` |
| `TaskSchedulerProofs!WakeupNotLost` | `[]NoLostWakeup` | inductive together with the type invariant |
| `TaskSchedulerProofs!CallOrder` | `[]RunInCallOrder` | what has run, followed by what is queued, is in each caller's order and below its next call |
| `TaskSchedulerProofs!SoleCallerLosesNothing` | `[]OneCallerLosesNothing` | as long as one thread has posted, between its test and its push the queue only shrinks |
| `SchedulerPartsProofs!TimerTypeCorrect`, `EntriesMatchTimers`, `RemovalIsEffective` | `[]TypeOK`, `[]OneEntryPerTimer`, `[]RemovedStaysSilent` | an entry's time is its timer's next timeout, unless the delay was 0 |
| `SchedulerPartsProofs!SleepsNoLonger`, `FiresNotEarly` | `[]NoOversleep`, `NeverEarly` | an entry lies its delay after its timer was added, or a whole interval after it last fired (`Spaced`), and what the loop was told was right when it asked (`Answered`) |
| `ServerProofs!TypeCorrect`, `RemovalHitsItsOwn` | `[]TypeOK`, `[]OpenIsListed`, any number of schedulers, sockets, connections | a pending removal's number belongs to a closed connection of the thread it is posted to, and no other removal of that number is pending |
| `ServerProofs!StopClosesAll` | `[]StoppedMeansClosed` | once the acceptor is closed nobody comes (`NobodyComes`), and what is not listed has closed |
| `TcpConnectionProofs!TypeCorrect`, `ClosesOnce`, `StaysUnregistered`, `NothingStranded` | `[]TypeOK`, `[]ClosedOnce`, `[]ClosedIsUnregistered`, `[]NoStrandedData`, any sizes, limits, events and other threads | who holds `mutex_`; with one sending thread the channel is registered exactly until `is_closed_` is set, and nobody is past the test of `is_closed_` once it is |
| `TcpConnectionProofs!StreamIsWhole` | `[]Framed`, any sizes, limits and threads, whoever sends | the bytes on the wire are of packets that were taken, and there are no more packets in the buffer than that (`Stream`); one lemma per way bytes enter or leave |
| `MediaSessionProofs!TypeCorrect`, `OwnNumbers` | `[]TypeOK`, `[]OwnSequence`, any clients, schedulers, pushing threads and frames | what is posted to a scheduler is for its own clients (`Routed`), so nobody else writes its copy of a packet; `Numbered` says where a client's number stands |
| `MediaSessionProofs!FramesWhole` | `[]NoGap` | for an open client that has missed nothing on the way to its connection: what its connection was handed, is being handed, has queued and has coming follow each other without a hole (`Whole`) |
| `ServerProofs!SipTypeCorrect`, `NobodyLeftBehind` | `[]SipTypeOK`, `[]ConnectedIsInUse`, any phones, calls and limits on faults | which message may be where (`Placed`), and for each call what a message on its way says of its two phones (`CallInv`) |
| `ServerProofs!SessionsEnd` | `[]SessionEndsWithCall`, any phones and calls, while nothing has gone wrong | for each call, from the kinds of its messages on their way: what the session still waits for is there (`Awaits`), and what has passed the server has had its effect (`Calm`) |
| `ReadWriteLockProofs!TypeCorrect`, `CountersMatchThreads`, `HaltNeedsNesting`, `IsReadWriteLock` | `[]TypeOK`, `[]CountersAgree`, `[]HaltsOnlyByNesting`, `ReadersWritersSpec`, any threads and depth | the counters as cardinalities of the sets of threads that read, wait and write |
| `CallManagerProofs!TypeCorrect`, `CallsRecorded` | `[]TypeOK`, `[]EachCallOnce`, any workers, calls, devices and scenes | a record of the map has its call's latest numbers, and the map's owner holds a copy of one that is in the map |
| `CallManagerProofs!HaltNeedsEditor` | `[]HaltsOnlyByEditing` | the map's owner is ending a call, which waits for nothing but the book; an idle thread reads nothing (`Rested`) |
| `CallManagerProofs!ManagerServesOne`, `NoManagerLeftBusy` | `[]OneCallPerManager`, `[]BusyHasCall` | who serves which call (`Known`), and that no call of an undisturbed manager was repeated (`Unrepeated`); one lemma per step: the use of a manager begins, passes on or ends |
| `EventUploadProofs!TypeCorrect`, `WholeTable`, `FullBatchNoticed`, `TableKeepsRows`, `NoRecordTwice` | `[]TypeOK`, `[]WholeTableSent`, `[]FullBatchWakes`, `StoredIsKept`, `[]DeliveredOnce`, any limits and faults | which records are where at each step of `work`, and in each phase of a stop |
| `EventUploadProofs!KeepsPromise` | `PromiseSpec` | one lemma per step: which step of `Outbox` it is |

`ServerProofs` has the two servers together, `SchedulerPartsProofs` the scheduler's
queue and its timers: each pair shares no variable.

Why the strengthenings are needed.  `NoSlotRace` alone says nothing about how many
slots are filled; a step that changes the counter could break it unless the
positions and the counter are tied together.  `OpenIsListed` alone does not say
where a pending removal points: `RemovalsOk`, `ClosesOk` and `TimersOk` say it for
the posted callbacks and the timers, `OwnSocket` that no two unremoved
connections share a number, `Accepting` what the acceptor's callback has done so
far.  In `TcpConnection` a closed connection is `registered` again only if
somebody is past the test of `is_closed_` when it closes, which `OpenUntilClosed`
excludes when only the loop's thread sends.  `CountersAgree` is almost inductive:
what is missing is that a writer at work excludes readers and permits, and that a
post of the event belongs to one waiting writer.  `EachCallOnce` has to know that
the map's owner is ending the very record that is in the map (`Numbered`), or
erasing by call id could erase a younger one.  `OneCallPerManager` and `BusyHasCall`
say nothing of a manager whose caller repeated the INVITE, and the step that puts a
call in the map has to know that it was not: if the call were there already the
handler's manager would stay busy for nobody.  `Known` says that a call whose INVITE
came once has one handler, until it is in the map.  `WholeTableSent` is why the deletion
after an upload, whose statement names a number of rows and not which, deletes
those that were sent: the table holds no more than one read returns, and nobody
writes to it between the read and the deletion (`PhaseOK`: `finit` writes only
when the thread has ended).

`OwnSequence` compares what a client's connection was handed with its own headers; that the
header is still its own when `SendRtpOverTcp` runs follows from `OnePusher` (the
packet copied is the last one pushed) and `Routed` (its scheduler's copy is touched by
no other scheduler).  `NoGap` sees only what was handed over.  The packets still in a queue
have to be in order and without a hole (`QueueOrdered`, `QueueComplete`), the last one
out has to come right before them (`LatestJoins`, `RunningJoins`), and whoever has
one coming has to be a client, or the next packet would leave it out (`Listed`); a
client that tears its session down or lost a packet to a scheduler's full queue (`dropped`) is
named by the property as the exception.

`ConnectedIsInUse` needs the whole conversation.  A phone is through with a call only
when it has seen a BYE or the answer to its own, so the invariant has to say that
while a session is Connected no BYE has passed the server (`Connects`), and for the
step that connects, that no BYE can have been sent before the answer that is just
being handled: a final answer on its way says that the caller still waits (`Told`),
and there is at most one (`OneIn`, for the offer, the ACK and each party's BYE).  A
lost or overtaken datagram takes nothing from this; a duplicated one does, and
`CallInv` is claimed only while there was none.

`SessionEndsWithCall` speaks of the end of a call only; its invariant, `Calm`, has to
follow every call there.  It reads a call's messages on their way as four sets of kinds,
from and to each of its parties (`KindsIn`), and says in `Quiet`, for every state of the
session, which message or which party will move it on (`Awaits`): an invited session has
its INVITE under way, or a called party that has not answered, or the answer; a
cancelled one a caller that still waits, or its ACK; a refused one the refusal or the
ACK; one in `Bye` the BYE or its answer.  The server's step on such a message must then
find the session in a state where it counts.  That is why the invariant also says that a
BYE behind the server has put the session in `Bye` and its answer has ended it
(`ByePassed`), that a caller that cancels ends the session by its CANCEL and its ACK
(`CancelEnds`), that no session is left where one party is through and the other talks
on (`OneLeft`), and that the caller's CANCEL, ACK and BYE are in the order they were
sent (`Orderly`): a CANCEL behind the ACK would put a session in `Cancel` that nothing
ends.  `Between` and `NobodyUnregisters` keep both parties among the clients, or
`endHandle` would answer 404 and the message would never arrive.  All of it fails with
the first lost or overtaken datagram, so it is claimed only while there was none. The
two halves of the proof meet in `Quiet`: lemmas about sets of kinds alone say what each
handler and each reaction of a phone makes of it, and lemmas about queues say which
kinds a step takes out or puts in.

Assumptions: only the named `ASSUME`s of the modules, which say that capacities are
positive numbers, that "nobody" is not a thread, an item or a connection, of
`SipServer` that a call has two different parties and the limits on faults are
numbers, and of `EventUpload` that the table holds more records than the list (`MAX_CALL_RECORD_NUM_DB`
against `MAX_CALL_RCD_IN_MEM`).  TLC
evaluates them in every run.

Only model-checked: liveness, which rests on fairness.  Every safety invariant and every
action property of the passing runs is stated by a theorem.  Only proved, and in no run: the type invariants
(except those of `MediaSession` and `SipServer`, which their runs check too),
`OneEntryPerTimer`, `CountersAgree`, `WholeTableSent`, `DeliveredOnce`,
`NoStrandedData`, `ClosedIsUnregistered`; the runs spend their time on the
properties that imply what these are for.

## 5. Not modelled

- RTSP and SIP text, digest authentication, SDP, splitting frames into RTP
  packets: data transformations without state that outlives a call.
- RTP over UDP and multicast, RTCP; the record direction of RTSP and the pusher,
  with the late answer to `OpenUrl` (`RtspPusher.cpp:81`).
- `EventLoop::Loop` and `Quit`: starting and joining threads.
- `BufferReader`, `MemoryManager`, socket and time helpers.
- Socket numbers of media clients (`MediaSession.cpp:219`): `MediaSession` knows
  clients, not numbers.
- A phone's change of address; header lines (other than a body) left over from an
  earlier datagram in the SIP server's buffer; shutting the SIP server down.
- The platform's configuration, web service, network manager, restart and upgrade
  (`application.cpp`), digest authentication, the rewriting and forwarding of
  messages, the tables of the database other than the call records.
- `src/src/rtsp/CNet_PortPool.cpp` and the wrappers beside it, zltoolkit, study
  code, demos, Android, vendored code: reasons under "components" in
  `PROJECT.json`.

Most of the repository's lines are not its own: copies of oSIP and eXosip in three
places, gSOAP's runtime and generated stubs twice, the headers of SQLite and OpenSSL,
and user interfaces.  The definitions of these modules stand for the part that
keeps state of its own between calls and shares it between threads or machines;
it is small against the whole.

## 6. Plan

Done: `BoundedQueue` and `RingBuffer`; `TaskScheduler`; `TimerQueue`; `TcpServer`;
`TcpConnection`; `MediaSession`; `SipServer`; `ReadersWriters` and `ReadWriteLock`;
`CallManager`; `Outbox` and `EventUpload`; and the proofs named above.  Next:

1. An abstract `CallbackExecutor` (posted callbacks run once, in order), with
   `TaskScheduler` shown to implement it for one caller, so that the contract
   `TcpServer` and `MediaSession` rely on is a refinement and not a list of
   properties.
2. `EventLoop`: `Loop`, `Quit` with its join under `mutex_`, together with `Stop` of
   the schedulers; the hazards at `EventLoop.cpp:110` and `TaskScheduler.cpp:45`.
3. `MediaSession` with socket numbers for clients, composed with `TcpServer`'s
   removal; `RtspPusher`; the asynchronous log writer of zltoolkit.
