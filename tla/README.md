# A TLA+ development for snapcastc

snapcastc plays one or more audio streams on many machines at the same time. A server
reads PCM data from a fifo per stream, cuts it into chunks, gives each chunk the instant
it is to be played at, and sends it to every client of the stream by UDP. A client puts
the chunks into a priority queue, asks for those it missed, and plays each when its time
has come. A control port takes JSON-RPC requests that move clients between streams and set
their volume. Both programs are single-threaded event loops around epoll or poll and one
queue of timed tasks.

Paths below are relative to the repository (`src/…` is the directory `src/` in it).

## 1. Inventory

| component | state | operations | who it talks to |
|---|---|---|---|
| input pipe (`src/inputpipe.c`, loop of `src/server.c`) | `state` (IDLE, PLAYING, THROTTLE), fd and its epoll registration, `data_read`, `chunk.play_at`, `resume_task`, `idle_task` | `inputpipe_handle`, `inputpipe_hold`, `inputpipe_resume_read`, `inputpipe_uninit`, `set_idle` | gives chunks to the packet store; started and stopped by `stream_client_add`/`_remove`; posts tasks |
| packet store (`src/intercom_srv.c`, `src/intercom.c`) | `packet_buffer`, `nonce` of a stream, one removal task per packet | `intercom_send_audio`, `remove_old_audiodata_task`, REQUEST branch of `intercom_handle_client_operation` | gets chunks from the pipe, sends to clients |
| audio client protocol (`src/intercom_client.c`, `src/intercom.c`) | receive buffer, `lastreceviedseqno`, `missing_packets`, request tasks, `recent_packets` | `intercom_handle_packet` with its branches, `request_task`, `intercom_getnextaudiochunk`, `hello_task`, `intercom_reinit` | server; player |
| priority queue (`src/pqueue.c`) | array heap | enqueue, dequeue, peek | receive buffer of the client |
| client registry (`src/clientmgr.c`, `src/stream.c`) | vector of clients per stream, one purge task per client | `clientmgr_refresh_client`, `schedule_delete_client`, `new_client`, `find_client` | hellos of clients; control requests |
| control requests (`src/socket.c`) | none of their own | `handle_client_setstream`, `handle_client_setvolume`, two that report | registry; clients (volume) |
| control connection (`src/socket.c`) | line buffer and offset per connection | `socket_handle_in`, `socket_handle_client`, `handle_line` | control requests |
| task queue (`src/taskqueue.c`) | pairing heap, timerfd | `post_task`, `drop_task`, `reschedule_task`, `taskqueue_run` | everyone |
| player (`src/alsaplayer.c`) | ALSA handle, `playing`, overflow chunk, empty-chunk counter, `close_task` | `alsaplayer_handle` with `getchunk` and `adjust_speed`, init, uninit, `alsaplayer_remove_task` | receive buffer; the sound device; posts tasks |
| client main loop (`src/client.c`) | poll set | poll, reinitialisation after POLLERR, suspension after POLLNVAL, SIGTERM | all of the client |
| time arithmetic (`src/timespec.c`, `settime` of `src/taskqueue.c`) | – | sums, differences and comparison of seconds and nanoseconds | everyone |
| stream configuration, codec, containers, logging, scripts | – | helpers | – |

What is hard here is not parallelism, as there is none within a process, but the order in
which events reach it: packets are lost, doubled, late and out of order; timers race the
messages that make them obsolete; clients come and go between any two events; tasks are
dropped and rescheduled from within tasks; pointers to tasks outlive them; several pieces
of state (pipe state, epoll registration, pending task, number of clients; record and purge
task; packet and removal task) have to agree and nothing but the order of events makes them
agree. `PROJECT.json` lists these hazards by line.

What each part has to guarantee:

- *input pipe*: chunks leave with the next `play_at` of the timeline, or start it afresh and say
  so; neither too early nor too late; the pipe of a stream with clients is read, that of one
  without is not; the server does not end.
- *packet store*: a packet can be requested until its time has run out; nothing piles up.
- *client protocol*: what is lost is noticed, asked for and finally settled; what arrives
  is stored.
- *registry*: a client that says hello is listed once and keeps its settings; one that has
  gone is removed; audio goes where the client is.
- *player*: playback starts on time, drifts back to the timeline when it is off, and the
  device is closed when nothing is played and not before.
- *client loop*: whatever fails, the client is connected again, listens to the socket it has
  and says hello; no task is used after it was freed.
- *task queue*: what is posted is run once, in order, unless dropped; memory is freed once.
- *control connection*: requests are handled in order, whatever pieces they arrive in.

## 2. Modules

| module | models | role |
|---|---|---|
| `Timeline` | – | the interface between pipe, packet store and clients: which `play_at` a chunk may be sent with (`Emissions`) |
| `InputPipe`, `InputPipe_proofs` | `inputpipe.c`, part of `server.c` and `stream.c` | shows that what it sends are `Emissions` |
| `PacketBuffer`, `PacketBuffer_proofs` | part of `intercom_srv.c`, `intercom.c` | retransmission store |
| `IntercomClient`, `IntercomClient_proofs` | `intercom_client.c` | receives what `Emissions` allows, over a bad network; uses `PQueue` |
| `PQueue` | `pqueue.c`, `pcmchunk.c` (order of chunks) | operators only |
| `PriorityBag`, `MCPQueue` | what `pqueue.h` promises | `PQueue` refines `PriorityBag` |
| `ClientMgr`, `MCClientMgr`, `ClientMgr_proofs` | `clientmgr.c`, `stream.c`, control requests of `socket.c`, `hello_task` | registry and clients |
| `TaskQueue`, `MCTaskQueue`, `TaskQueue_proofs` | `taskqueue.c` | pairing heap with pointers |
| `TaskSet` | what a task queue promises | refined by `TaskQueue` |
| `ClientLoop`, `MCClientLoop`, `ClientLoop_proofs` | `client.c`, connection of `intercom_client.c`, opening and closing of `alsaplayer.c` | lifetimes of tasks, socket and device of the client |
| `AlsaPlayer`, `AlsaPlayer_proofs` | `alsaplayer.c` | when what is played |
| `ControlSocket`, `MCControlSocket`, `ControlSocket_proofs` | `socket.c`, part of `server.c` | line buffer of a connection |
| `Timespec` | `timespec.c`, `settime` of `taskqueue.c` | operators only; `PacketBuffer_proofs` relates them to milliseconds |

Operators whose comment begins with "Mutant:" are deliberate errors next to the definition
they distort; nothing uses them. They serve to show that each property can fail: with the
definition replaced by its mutant TLC finds the property violated (`PROJECT.json`,
`mutants`). Variables commented as history do not exist in the code and influence nothing.

### InputPipe

One action per event the server's loop serves for a stream: `HandlePipe` (EPOLLIN: throttle
if the last `play_at` is further ahead than 95 % of the buffer, else read), `HandleHup`
(EPOLLHUP: uninit and reopen), `RunResume` and `RunIdle` (the tasks), `ClientAdd` and
`ClientRemove`, and the environment: a player that opens and closes the fifo, and `Tick`.
The loop handles up to 64 events of one `epoll_wait` one after the other and does not ask again, so
`Poll` (what was reported, kept in `event`) and the handling are steps of their own, and tasks,
hellos and control requests may come between them.
The clock is not a variable. `lead` is `chunk.play_at` minus the clock, which is all the
code compares, and everything in the past is one value; so the model needs no bound on
time. A task has an identity and a pointer may outlive it: using a freed one, and the exits
of `add_fd` and `del_fd` on failure, set `fault`. The cast of an inputpipe to a stream in
the EPOLLHUP branch is harmless because the pipe is the stream's first member.

EPOLLHUP zeroes `play_at` (`inputpipe_uninit`, `chunk_free_members`; `FreedPlayAt`). The first
chunk after the fifo was opened again is therefore sent as the start of a new timeline, 100 ms
from now, although chunks up to 95 % of the buffer ahead have been sent: `play_at` goes back.
`Emissions` of `Timeline` says exactly what may be sent, the next chunk of the timeline or a fresh
start at any time, and the modules that build on it do not assume that `play_at` ascends with the
number of a packet.

Two things put the pipe off its rails, and the history variable `derailed` records that one of them
has happened:

- A stale EPOLLIN: an event handled earlier in the batch (a purge, a move to another stream) has
  removed the last client and called `inputpipe_hold`, which takes the fd out of epoll, and then
  the pipe's own event is handled nevertheless. If the buffer is full, `del_fd` fails and the
  server exits. Otherwise the pipe turns PLAYING while nobody watches it: the next client does not
  resume it and gets nothing, and when that client leaves, `del_fd` fails.
- A read of 0: between epoll's report and the read another process took the
  data and the last writer closed the fifo (with a writer left the answer is EAGAIN, and with
  none EPOLLHUP is served first). The code then sets IDLE without touching the registration.
  From there the server can exit (last client leaves, next one comes, `add_fd` fails with
  EEXIST), stall, or count a chunk twice in `play_at`.

`PipeInv`, `NoFault`, `NoStall`, `KeepsSending` and `SendsOnTimeline` are stated up to the first
of these: they show that nothing else leads there, and do not deny that these do. The bounds of
`TimelineInv` hold in any case.

### PacketBuffer

`SendAudio` appends a packet and posts its removal task, `RemoveOldAudiodata` is the task with its
do-while loop written as a choice of how many packets go, `HandleRequest` is the answer to a
REQUEST. `timeSubMs` drops the sign of its result and is modelled so; the model therefore starts
at a clock of at least `bufferms`, as every real clock is. Packets carry their number as a history
value, which says whose task a task is. That `play_at` has a lead between `MinLead` and `MaxLead`
when a packet is sent is what `SendsOnTimeline` gives; it may be earlier than that of the packet
before. Where it is, a packet that is outdated may stay behind one that is not, and
`FlushComplete` allows for just that. `PunctualAssumption` (tasks run no later than the shortest
lead after they are due) is a genuine assumption about the loop: without it a task would take the
next packet, too.

### IntercomClient

The server side is `Emissions`: each chunk continues the timeline or starts it afresh, with a stop
that may be lost. `epoch` is the number of the packet that last did so; starting afresh while
earlier chunks are still to be played (a reopened fifo) counts as one of the `MaxChanges`. `sent`
keeps every packet for ever, so that a packet can arrive never, late, in any order, more than
once, or as the answer to a REQUEST. The client side is `intercom_handle_packet` (`ReceiveAudio`,
`ReceiveStop`, `ReceiveVolume`), the request tasks by number of retries left, and the player's
`GetNextAudioChunk`. `max()` works on `int` and gets 32-bit sequence numbers: `ToInt` and
`RequestFrom` model the conversion and the undefined overflow, with `IntMax` for INT_MAX.
`retries_left` is a `uint8_t` (`Retries`). `recent_packets` is only ever compared at its last
element, hence `lastSeen`. A volume command is of interest for its header only, which makes the
client take a stop that follows for a duplicate.

`SetStream` moves the client to another stream, which may be at any number, and sends the
stop; `RestartServer` is the same with nobody telling the client; `Reconnect` is
`intercom_uninit` and `intercom_reinit`, after which request tasks of the old connection are still
pending. From a move or a restart until the client hears a stop, reconnects or notices a loss
of more than its buffer, what it knows is about another stream (`astray`). `LossIsRequested`,
`NotMissingWhenBuffered` and `RoomForEveryChunk` hold at all other times, the remaining
properties at all times.

A client that has not heard the stop of a fresh start has chunks of two timelines. A packet of the
new one that comes too late then makes it forget missing packets of the old one that could still
be played, and the chunks of both together may be more than the buffer takes. `LossIsRequested` is
therefore about the packets sent since the last fresh start, and `RoomForEveryChunk` about buffers
with chunks of one timeline (`OfOneTimeline`), and about lengths of the buffer of which 95 % are
fewer chunks than the whole (`BufferWideEnough`).

### PQueue

The array heap with its index arithmetic as written, including a `PARENT` that is not the
inverse of `LEFT` and `RIGHT`. `SiftUp` and `Heapify` are the two loops as recursive functions
of the variables they change, the array and an index of it (`Positions`).

### ClientMgr

Records in streams, purge tasks named by the pointer in the record, and the client
processes with their hello timer. Time is in half seconds, so the real 1.5 s between hellos
and 5 s until the purge are 3 and 10; timers hold the time left, and the model needs no
bound on time. `FindName` compares names by prefix as the code does. `SetVolume` ignores
`muted` if there is `percent`, as the code does.

### ClientLoop

The client program as its poll loop sees it. A task is a place in memory that is used again
once it is free, while `hello_task` and `close_task` may still hold its address; a socket is a
number that may be used again, while `fds[]` still holds the old one. Tasks run at any time, also
between poll's report (`Poll`) and its handling (`Handle`), which is the order of the loop: the
task queue comes before the intercom. `HandleError` and `HandleInvalid` are the branches for POLLERR
and POLLNVAL, `ServerMoved` is `hello_task` when the name of the server resolves to another address,
`RunReinit` and `RunResume` are the tasks that follow an error. `HandleAudio` has the three cases of
`intercom_handle_audio`: the device is open for this format, is closed, or has another format.
A name that cannot be resolved, and SIGTERM, end the program (`alive`).

The code uses a stale value in two places, and each is a history variable up to which the
properties are stated:

- `stale`: `close_task` is not reset when the task has run or was dropped (`src/alsaplayer.c:315`).
  If the device has been closed and the next audio has another format,
  `alsaplayer_remove_task` drops whatever is at that place (`src/intercom_client.c:452`), be it
  freed memory or the hello task, after which the client says hello no more. On SIGTERM it is
  the same (`src/client.c:59`), with less to lose.
- `orphaned`: `fds[]` is not told when `hello_task` or the task `intercom_reinit` makes a new
  socket (`src/client.c:146`). If the new one gets another number, poll reports POLLNVAL for the
  old one, no branch is responsible, and the client neither hears the server nor waits in poll.

### AlsaPlayer

`alsaplayer_handle` is four actions: `HandleRest` (the overflow chunk), `TakeChunk`, `Silence` (a
first chunk that is not due yet) and `Starve` (no chunk). `Length` is what `adjust_speed` makes of
a chunk; the conversions it does are kept: a second counts as 10 ms (`SecondCounts`), with no next
chunk the factor is 0.5, and the factor lies between 0.5 and 2. `Write` is the device: a queue
that takes what there is room for, starts when half full and stops when empty. A failed write is
`WriteFails`, in which the chunk is lost, because `pcm` is unsigned. `EmptyChunk` is
`get_emptychunk`: the bytes of a silence are counted in a `uint16_t` (`SizeLimit`), so that one of
342 to 999 ms at 48 kHz, 16 bit and 2 channels is shorter than asked for. If nothing is left of
it, nothing is written and the loop comes back at once (`NothingToWrite`) until it is later. Times
are whole milliseconds relative to the clock. Chunks arrive late, out of order, or never (`Send`,
`Arrive`), the stream may start afresh because the source was idle or, at any time, because its
fifo was reopened (`Restart`; the latter at most `MaxReopens` times), and the client may not be
scheduled (`Stall`). `raw` is how late the next chunk would be without `adjust_speed`, as long as
only the player has a say in it; `AdjustsTowards` compares it with what comes to pass. Two chunks
of the same lead, one of either timeline, count as one.

`getchunk` has a loop that is to drop chunks which are too late (`src/alsaplayer.c:126`); as
its condition asks for a chunk that is not empty and none has been taken by then, it drops none,
and is not in the model.

### TaskQueue

`children`, `next` and `pprev` as in the code. A place is a field of an element; `heap.ptr` gives
what is stored at each place, `heap.pprev` the place where the pointer to a task is. The context
is an element, too (`Root`), whose `children` is `ctx->queue`. `MergePairs` has a counter the code
has not, which bounds its recursion by the number of tasks, so that it is defined for heaps that
are no trees; `MergePairsMerges` shows that it is large enough. `Link`, `Unlink`, `Merge`,
`MergePairs`, `Insert` and `Remove` are the functions of the same names; `exit_bug` is a flag that
must not be set. `taskqueue_run` is several steps (`BeginRun`, `RunTask`, `FreeTask`, `EndRun`),
because functions of tasks post, drop and reschedule in between. `clock_gettime` counts
nanoseconds, so what a task posts is due after the instant `taskqueue_run` has read.

### ControlSocket

A client writes a sequence of lines, each with the byte it starts at. A byte is known by the line
and the place in it that it comes from (`Written`). `read` returns any
number of bytes that fit. The search for the end of a line looks at the whole buffer, also
beyond what was read, as in the code. JSON parsing is abstracted to whether the text
begins with a complete valid request.

### Timespec

The functions of `timespec.c` on records of seconds and nanoseconds. `TimeAdd` divides where the code
subtracts in a loop; `Difference` borrows. `timeSub` returns the sign apart from the distance, and
`timeSubMs` drops it. No run uses the module, as the numbers are too large for TLC to
enumerate anything of interest; it is there for the theorems.

## 3. Runs

Passing runs:

| run | shows |
|---|---|
| `PacketBuffer` | removal tasks and packets stay paired although no task knows its packet (`PairingInv`); a packet stays until its own task has fired (`RetainedUntilTimeout`) and is the answer to a request until then (`PendingIsAnswered`); packets left behind while there was no client are flushed, as far as `play_at` ascends (`FlushComplete`) and do not grow in number while there is one (`BacklogNeverGrows`) |
| `IntercomClient` | `missing_packets` stays below the newest packet and within the capacity and each entry has a task (`MissingInv`); what is in the buffer is not waited for (`NotMissingWhenBuffered`); each packet but the first that is skipped while it can be played is requested or given up (`LossIsRequested`) and settled in the end (`MissingIsSettled`); without duplicates there is room for each chunk of one timeline (`RoomForEveryChunk`); all of it also across reopened fifos, moves, restarts of the server and new connections, as said above |
| `ClientLoop` | device and close task agree (`DeviceInv`); there is one hello task or one task that reconnects (`ConnectionInv`), no freed task is touched (`NoFault`); the client comes back to its socket (`HearsServer`) and says hello again and again (`KeepsSayingHello`) |
| `AlsaPlayer` | the silences lead up to the first chunk and never beyond it (`StartsInTime`), and the device is not closed with an overdue first chunk in the buffer (`Starts`); stretching brings the next chunk closer to its time, never beyond (`AdjustsTowards`), and an undisturbed player gets and stays in sync (`InSync`); the device is not closed while it plays (`ClosesIdle`) and is closed when nothing is taken (`DeviceCloses`) |
| `InputPipe` | until the pipe is derailed: state, registration, tasks and clients agree (`PipeInv`); no exit, no use of a freed task (`NoFault`), no stall (`NoStall`); chunks are sent on the timeline (`TimelineInv`, `SendsOnTimeline`) and go on being sent (`KeepsSending`) |
| `PQueue` | chunks in order of `play_at` (7 in the queue), or up to 5 in any order, come out as from a priority queue |
| `ClientMgr` | one record and one purge task per client (`RegistryInv`); a client that is up stays listed as the instance it is though hellos are lost; only control requests change its settings; one that has gone is purged |
| `TaskQueue` | pointers consistent, no element before its parent, each task freed once, timer armed for the first task, refinement of `TaskSet` |
| `ControlSocket` | the buffer is not overrun, the first request is handled as soon as it is complete, none is handled twice or out of order; a client that writes only requests is in step again with the next newline, whatever became of the one before (`RecoversAtNewline`) |

Runs that show the code to disagree with what is said about it:

| run | disagreement |
|---|---|
| `PQueueAnyOrder` | six chunks arriving out of order can be dequeued in the wrong order (`PARENT`, `src/pqueue.c:10`) |
| `IntercomClientTwice` | a packet that arrives again after another one is stored twice (`src/intercom.c:39`) |
| `ControlSocketFull` | a newline left in the buffer ends a line of which only a part was read (`src/socket.c:423`) |

Disagreements met while modelling for which no run is kept; the modules contain the
behaviour:

- Server operations are sent without a counter, so each has nonce 0 and the second of two in a
  row is dropped as "previously seen" (`src/intercom_srv.c:91`, `src/intercom_client.c:486`).
- Only the port of a hello is compared with the record of the client; after a change of address
  with the same port audio goes to the old address (`src/clientmgr.c:173`; README, "sent to each
  client using unicast UDP").
- `close_task` and `fds[]` outlive what they refer to (`stale` and `orphaned` of `ClientLoop`).
- The loop that logs "dropping chunk" never drops one (`src/alsaplayer.c:126`).
- `pcm` is unsigned, so `snd_pcm_recover` is never called (`src/alsaplayer.c:217`).
- `adjust_speed` counts a second as 10 ms (`src/alsaplayer.c:84`): a chunk that is 1.001 s off is
  corrected by 11 ms. It is still corrected in the right direction, which is what `AdjustsTowards`
  shows.
- `lastreceviedseqno` is 0 from the start and after every CLIENT_STOP, so the loss of packet 0
  is not noticed (`src/intercom_client.c:412`; README, "it will REQUEST missing packets").
  `LossIsRequested` excludes packet 0.
- Above INT_MAX the `int` of `max()` makes the client request nothing (`src/intercom_client.c:428`).
  `IntWideEnough` excludes it.
- A stream whose name begins the name asked for is taken for it if it was configured later
  (`src/stream.c:48`).
- `muted` is ignored in a request that also has `percent` (`src/socket.c:331`), which is what
  `scripts/snapclient_setvolume` sends.
- A connection that sends invalid data stays open (`src/socket.c:427`, against the comment in the
  next line, "clients sending invalid data are getting their connection closed"): `handle_line`
  returns 0 or 1 and its caller asks for a negative result. `HandleClient` leaves `open` as it is
  after an invalid line.
- A second request in the same read is lost: once a line is found the buffer is emptied
  (`src/socket.c:432`), and `jsonrpc_parse_string` looks at the first object only.
- EPOLLHUP zeroes `play_at` (`src/inputpipe.c:157`), so that the timeline goes back and clients
  are told to throw away what they have, though what is logged is "Either this is the first chunk
  we read for the first client on an inputstream or we are horribly late" (`src/inputpipe.c:106`).
  In `InputPipe` it takes a client, a chunk, a writer that goes, EPOLLHUP, a writer that comes,
  and a chunk.
- A stale EPOLLIN ends or stalls the server (`src/server.c:81`; `derailed` of `InputPipe`).
- Silences above 341 ms are cut by the `uint16_t` of their size (`src/pcmchunk.c:16`); one of no
  bytes makes the client spin, as the device goes on reporting room.
- The id in the answer to Client.SetStream is read from the vector the client was removed from
  (`src/socket.c:294`).

### Bounds, and why they are enough

- `PacketBuffer`: buffer of 3 ms, leads 1 to 3, tasks up to 1 late, 4 packets, 12 instants:
  tasks overlap, fire late, with and without clients, twice over. The theorems have no bound.
- `IntercomClient`: a buffer of 2 chunks and one spare element, 4 packets, 2 instants, one
  reopened fifo, move, restart or new connection: gaps, a loss too big for the buffer, stops in
  between, late packets, retries until given up, tasks that outlive the connection. Tasks are not
  bound to the clock, so every order of retries and arrivals occurs. That the vector of missing
  packets is cut to the capacity takes more packets than TLC can bear; the theorem
  `MissingCorrect` covers it. `IntercomClientTwice` allows 5 packets and 4 instants, with no move.
- `InputPipe`: no bound on time or on the number of chunks; 2 clients tell the first and the last
  from others; chunks of 3 units are read in every way of splitting; 2 task identities per kind
  let a new task coexist with a stale pointer. With the usual chunk of 20 ms ColdStartMs exceeds
  ChunkMs, as here.
- `ClientMgr`: one client id (records of different ids do not meet in any operation), two
  addresses and ports, two streams, real timers, up to 2 hellos lost in a row. The theorems are
  for any number of each.
- `TaskQueue`: 5 tasks, the addresses interchangeable: heaps of depth 3, removal of an element
  with siblings on both sides and several children. The symmetry is sound: tasks are only
  compared for equality, and the refinement is checked as a safety property.
  The theorems are for any number of tasks.
- `ControlSocket`: a buffer of 5 bytes, up to 3 lines of up to 4 bytes, every fragmentation;
  the longest line does not fit. The theorems are for every size of the buffer and every text.
- `ClientLoop`: 5 places (a hello, close, decode, reconnect and resume task at once; no more are
  ever needed), 2 numbers of sockets, 2 formats, one of which the device does not support. No
  bound on time or events.
- `AlsaPlayer`: durations are scaled down: buffer 7, chunk 2, cold start 3, device 4, period 2,
  near 1, far 4, second 7 of which 1 counts, 2 bytes a millisecond and sizes below 10, so that a
  silence of 5 or 6 is cut, one of them to nothing. 2 chunks on the network at a time, one
  reopened fifo; a chunk gets overdue by no more than 1 by stalls alone. No bound on time. The
  theorems have none of these bounds.
- `PQueue`: see the run; the order fails at 6 elements in any order.

CHECK_DEADLOCK is off where the model's time ends (`PacketBuffer`, `IntercomClient`,
`TaskQueue`), though the program's does not, and in `ClientLoop`, where the program may end.

### Fairness

- `IntercomClient!FairSpec`: every pending request task is run at some time. `taskqueue_run`
  does that, see `TaskQueue`.
- `InputPipe!FairSpec`: the loop asks epoll and handles what it reports (`Poll`, `HandlePipe`,
  `HandleHup`) and runs the tasks; time passes. A writer is taken to have data, which is the
  hypothesis of `KeepsSending`.
- `ClientLoop!FairSpec`: each pending task is run at some time, poll reports and the loop handles
  what it reports. Nothing is assumed of the network.
- `AlsaPlayer!FairSpec`: the loop serves the device and the close task, and time passes. Nothing is
  assumed of the server or the network, nor of a write's success; `InSync` is about a player that is
  disturbed no more.
- `ClientMgr!FairSpec`: purge tasks and hello tasks are run when due; time passes. Weak
  fairness is enough, as with one client id no other activity can keep time from passing.

## 4. Proofs

All proofs are for arbitrary constants that satisfy the named assumptions.

- `PacketBuffer_proofs`. `RetainedUntilTimeout` is not inductive: it does not say *which* packets
  the pending tasks belong to. `PairingInv` does: the tasks are those of the last packets of the
  store in the same order (`TasksMatchBuffer`), each packet was sent `MinLead` before it is played
  (`LeadKept`), tasks are ordered and none is overdue by more than `MaxLate` (`TasksInOrder`).
  Nothing is said of the order of `play_at`. The heart is the lemma `StopsAtOwnPacket`: the loop
  of a task that fires cannot go beyond the first packet that still has a task after it, because
  with `PunctualAssumption` that one is not outdated. `BacklogNeverGrows` and `FlushComplete`
  follow from the same invariant. `PendingIsAnswered` needs that the packets of the store are
  numbered one after the other (`Consecutive`), and that there are at most NONCE_MAX of them: as a
  nonce is a number modulo NONCE_MAX, two packets have the same one otherwise. The code does not
  enforce it, a stream without clients stores whatever it sends; so it is a hypothesis of the
  theorem. In the other direction, `NoneRemovedEarly` says that a task does not take too much. The
  upper counterpart of `LeadKept`, `LeadBounded` (each packet was sent at most `MaxLead` before it
  is played), is inductive together with `PairingInv`: a removal reaches from the front of the
  store to the first packet that is not outdated, or takes just the front, which is at least as
  old as the task's own packet. With `MaxLead <= BufferMs` no packet that can still be played is
  removed (`PlayableIsKept`). `LongestLeadFits` (`InputPipe_proofs`) says when the pipe keeps to
  that: with a buffer of 40 chunks or more. In a smaller one, such as 500 ms with chunks of 20 ms,
  a chunk may be sent 515 ms ahead and be removed up to 15 ms before it is played. The same module
  proves that the time arithmetic is exact: `timeAdd`, `timeSub`, `timespec_cmp`, `timeAddMs` and
  `settime` on seconds and nanoseconds are the operations on numbers of nanoseconds
  (`TimeAddExact`, `TimeSubExact`, `CmpExact`, `TimeAddMsExact`, `SetTimeExact`), what
  `PacketBuffer` computes with milliseconds is what the code computes (`TimeSubMsExact`,
  `OutdatedExact`), and `timespec_isnear` is a distance (`IsNearExact`), on a clock that has run
  for longer than the distance, as before that the sign that `timeSubMs` drops would matter.
- `InputPipe_proofs`. `PipeInv` is inductive: as long as the pipe is not derailed, state,
  registration, tasks and clients agree, whatever has been reported and not handled. The step that
  needs care is `HandlePipe` with a stale event: either the fd is still registered, and then
  `Consistent` says the pipe is PLAYING, or the step sets `derailed`. `NoFault` and `NoStall`
  follow. `TimelineInv` (`lead` is that of the last chunk, or past) is inductive with it and gives
  `SendsOnTimeline`, which connects this module with the two that start from `Emissions`.
- `IntercomClient_proofs`. `ClientInv` joins the bookkeeping invariants with two facts they need:
  `play_at` ascends with the number since the timeline last started afresh (`TimelineInOrder`; a
  packet below one that is discarded as too late cannot be played either), and the newest packet
  has arrived. Under `IntWideEnough` it is inductive, also under reopened fifos, moves, restarts
  and new connections; `LossIsRequested` and `MissingInv` follow. `NotMissingWhenBuffered` needs
  to know what the heap does to the set of its chunks: the loops of `PQueue` permute them
  (`LoopExists`, `LoopInduction` and the lemmas on what `SiftUp`, `Heapify`, `Enqueue`, `Dequeue`
  and `RemoveOld` keep). `ChunksStay`, that no chunk that can still be played vanishes from the
  buffer, follows from the same lemmas; neither depends on the heap being ordered, which it is not
  always.

  When it is ordered: `HeapOrdered` relates `LEFT` and `RIGHT` of an index to the index. `Heapify`
  mends an array that is out of order at one index only (`OrderedButAt`, `SwapMends`), so
  `pqueue_dequeue` keeps every heap in order (`DequeueOrders`). `pqueue_enqueue` looks at
  `PARENT`, which is another index than the one whose child the new element is; it keeps the order
  if the new chunk is to be played last (`EnqueueLastOrders`), for then it moves nowhere.
  `ArrivesInOrder` is therefore a hypothesis, of a network that does not reorder and a client that
  has lost nothing it gets later; it is one on the behaviour, and not a restriction of the model.
  Under it the heap stays in order (`HeapStaysOrdered`) and the player gets the chunks in order
  (`PlaysInOrderHolds`). Without it six chunks are enough for the opposite (`PQueueAnyOrder`).

  `RoomForEveryChunk` follows under the same hypothesis. How many chunks can be in the buffer is a
  matter of the timeline: `TimelineSpaced` (those sent since the timeline last started afresh are
  a chunk's duration apart), `OnlyNewestAhead` (only the newest of them is further ahead than
  `FullLead`) and `BufferIsOfStream` (a client that is not astray has chunks of this stream only)
  are inductive. In an ordered heap `remove_old_data_from_receivebuffer` reaches all that is old
  (`RemoveOldOrders`), so each chunk that is left, but the newest, is in a slot of its own between
  now and `FullLead`, and there are as many slots and one as the buffer has elements
  (`FewAreAhead`, by the pigeonhole principle), if `BufferWideEnough`. A buffer of 20 chunks is
  (`WideBuffer`), as is every one of which `FullLead` leaves a chunk. The code allows others: with
  `bufferms` 110 and chunks of 20 ms there can be 7 chunks ahead of the clock and 6 elements, and
  `pqueue_enqueue` drops the seventh. TLC finds the same with `BufferMs = 3` and `ChunkMs = 2` in
  the place of the values of the run.
- `ClientLoop_proofs`. The properties speak of sets of places (`Pending`), which no step changes
  but at one or two places; the inductive invariant therefore says place by place what may be
  there and what must be (`TasksInv`: a close task only where `close_task` points and only while
  the device is open, and so on for the four other kinds), with `TypeOK`, `NoFault` and `EventInv`
  (what poll reported of a socket is handled before it is closed, without which `HandleError`
  could tear down the connection twice). It gives `LoopInv`: the invariants of the run, and that
  polling is suspended exactly while one task is to resume it (`ResumeInv`). A few lemmas say what
  posting, dropping and ending a task do to the places; each action is composed of them.
- `AlsaPlayer_proofs`. The heart is `CorrectionTowards`: for every difference d, what
  `adjust_speed` takes off has the sign of d, is at most |d|, and is not 0 unless d is. The
  invariant ties `raw` to the state: what is queued ahead of the first chunk in the buffer, in the
  device and in the overflow chunk, makes that chunk as late as `raw` says, less the correction
  (`Intended`); it is kept through partial writes and as time passes because the device plays
  whenever it could not take more (`DeviceOK`). A silence is never longer than the time until the
  first chunk, however its size is cut (`EmptyChunkAtMost`, `SilenceAtMost`), so before playback
  has started `raw` is never above 0. `AdjustsTowards`, `StartsInTime`, `Starts` and the type
  invariant follow. `ClosesIdle` adds that the close task is further away than what is still to be
  played before the next chunk is taken; it has the hypothesis `HoldsTwoChunks`, as with a close
  timeout (1.2 buffers) of less than two chunks the device could be closed while it plays a
  stretched one.
- `ClientMgr_proofs`. `Consistent` says of a list of clients and a set of tasks that no id occurs
  twice, every record has its task, every task its record, and pointers are not shared; it is kept
  by adding, deleting and changing a record, of which `RefreshClient`, the purge and the requests
  are composed. `StaysRegistered` is not inductive: that a client is on the list says nothing of
  how soon its purge task is due. `Kept` does: the time left is more than what remains until the
  next hello, and `Slack`, the time of as many further hellos as may still be lost.
  `ToleranceAssumption` (so many hellos fit in the purge timeout) is used here only.
  `SettingsKept` follows.
- `ControlSocket_proofs`. The invariant says what is in the buffer: up to `offset` the last bytes
  that were read (`HoldsLast`), all requests handled so far started before them (`HandledBefore`),
  and right after a newline nothing (`EmptyAtLine`). Whatever stale bytes lie beyond `offset`,
  `Parse` can only find requests in what was read since, which gives the order; that the newline
  just read is found gives `FirstRequestHandled` and `RecoversAtNewline`.
- `TaskQueue_proofs`. `HeapInv` is about neighbours only and is not inductive: pointers that form
  a cycle apart from the queue satisfy it. `children` and `next` make the heap a binary tree;
  `Tree(P, B, D, q, S)` says that there is a function `sp` that gives every element the set of
  elements below it, with all of `S` below the root `q`, disjoint sets below the two pointers of
  an element, pointers back that fit, and nothing below `children` due earlier (`Spans`). Trees
  are taken apart and put together (`TreeParts`, `TreeJoin`), are not touched by writes elsewhere
  (`TreeFrame`), and an element can be replaced by what is below it (`TreeWithout`). From these:
  `Link` and `Merge` make one tree of two (`LinkTrees`, `MergeTrees`), `MergePairs` one of a list
  (`MergePairsMerges`, by induction on the counter), `Insert` adds (`InsertAdds`) and `Remove`
  takes out one element (`RemoveTakesOut`), the latter also when `due` of that element has already
  been overwritten, which is how `reschedule_task` calls it. The inductive invariant `QueueInv`
  says that the queue is a tree of exactly the tasks that are allocated and not running. It gives
  `HeapInv`, and, as the root is due first (`FirstIsLeast`), each step of the heap is a step of
  `TaskSet` or none (`TaskSetStep`).

Induction. The induction theorems of the library, which have an operator as a parameter, are of no
use to the provers here. What is proved of recursive functions is proved with a least
counterexample instead (`LeastNumber`, from `WFMin`); that such a function satisfies its equation at all
is `LoopExists` for the loops of `PQueue` and `RecursionExists` for `MergePairs`.

Assumptions: `TimelineAssumption`, `InputPipeAssumption`, `PacketBufferAssumption`,
`IntercomClientAssumption`, `ClientLoopAssumption`, `AlsaPlayerAssumption`, `ClientMgrAssumption`,
`SizeAssumption`, `ScriptsAssumption` and `TaskQueueAssumption` (with finitely many tasks) are
types and order of parameters; `AlsaPlayerAssumption` also says that a chunk stretched to twice
its length fits a `uint16_t`, which is so up to 170 ms at 48 kHz, 16 bit and 2 channels.
`PunctualAssumption`, `ToleranceAssumption` and the hypotheses `IntWideEnough`,
`BufferWideEnough`, `ArrivesInOrder`, `HoldsTwoChunks` and `Len(buffer) <= NonceMax` are explained
above.

Only model-checked: liveness under fairness, which the prover does not treat; that `PQueue`
refines `PriorityBag` (`IsPriorityQueue`), as the cardinality of a bag is a recursive definition,
though what the refinement rests on is proved (`EnqueueKeeps`, `DequeueKeeps`, `DequeueOrders`,
`EnqueueLastOrders`, `PeekIsFirst`); and `RoomForEveryChunk` for chunks that arrive out of order:
it rests on the order of the heap (`RemoveOld` looks at the front only), and so cannot be expected
of every size of the buffer.

## 5. Not modelled

- The mixer: setting the volume is a call of ALSA. Listing devices and negotiating hardware
  parameters, except that the rate may come out differently (`Nearest` in `ClientLoop`).
- A packet of the old stream that arrives after the stop of a move; `Continue` loses what is
  under way.
- Allocation of sample data on a change of format: chunks of the old format that are left in the
  receive buffer are played on the reopened device, and only their durations are modelled.
- The wrap of the sequence number at 2^32 on the client, more than a year at 10 ms a chunk.
- The content of answers on the control port and the two requests that only report.
- Parsing of the command line and of JSON text, Opus, sample rate conversion, ALSA: libraries
  or strings without state.
- Failure of allocation, which ends the program.

## 6. Plan

Done, in this order: `PacketBuffer`, `PQueue`, `IntercomClient`, `InputPipe` with `Timeline`,
`ClientMgr`, `TaskQueue`, `ControlSocket`, `ClientLoop`, moves and new connections in
`IntercomClient`, `AlsaPlayer`, `Timespec`.

Left:

1. A composition of `PacketBuffer` and `IntercomClient`, so that a REQUEST is answered by the
   store and not by the network: a packet requested in time arrives unless it is lost.
2. Several clients of a stream in `ClientMgr`, in the order of the vector, for the answers of the
   control requests.
3. The refinement `IsPriorityQueue` as a theorem, with bags as functions and without their
   cardinality.
