--------------------------- MODULE IntercomClient ---------------------------
(***************************************************************************)
(* The receiving side of the audio protocol (intercom_client.c and the     *)
(* parts of intercom.c it shares with the server): one client, one stream, *)
(* and a network that loses, reorders, delays and duplicates audio packets *)
(* and loses and reorders server operations.                               *)
(*                                                                         *)
(* Audio packet n carries its sequence number and the play_at of its       *)
(* chunk.  sent holds every packet ever sent; receiving one takes nothing  *)
(* out of it, so that a packet may be lost (never received), late, or      *)
(* doubled, and the answer to a REQUEST is one more arrival.               *)
(* The client is moved to other streams, whose numbers have nothing to do  *)
(* with those of the one before, the server is restarted, and the client   *)
(* makes a new connection.                                                 *)
(*                                                                         *)
(* Two representations are not the code's.  missing_packets is a vector    *)
(* that is appended to in ascending order (MissingBelowLast is why), hence *)
(* a set here, its oldest entry being the least.  recent_packets is read   *)
(* at its last element only (intercom_recently_seen starts at              *)
(* VECTOR_LEN - 1), hence just that element, lastSeen.                     *)
(***************************************************************************)
EXTENDS Timeline, FiniteSets, PQueue

CONSTANTS
  RetryMs,      \* REQUEST_RETRY_INTERVAL_MS
  IntMax,       \* INT_MAX, of the int that max() takes and returns
  MaxTime,      \* bound: the last instant of the model
  MaxPackets,   \* bound: how many audio packets a stream has
  MaxChanges    \* bound: how often the stream, its fifo or the connection is changed

ASSUME IntercomClientAssumption ==
  /\ RetryMs \in Nat \ {0} /\ IntMax \in Nat
  /\ MaxTime \in Nat /\ MaxPackets \in Nat /\ MaxChanges \in Nat

VARIABLES
  now,          \* the system clock, the same on both sides
  sent,         \* play_at of the audio packets sent; number n is at n+1
  ops,          \* server operations under way to the client that matter here
  capacity,     \* receivebuffer->capacity, 0 for a receivebuffer of NULL
  receivebuffer,\* its chunks, as the heap of PQueue
  last,         \* lastreceviedseqno
  missing,      \* missing_packets
  requests,     \* requests[n][r]: pending request_tasks for n, r retries left
  lastSeen,     \* the header of the last packet that was not dropped
  arrived,      \* history: the audio packets that reached intercom_handle_audio
  givenUp,      \* history: the packets the client stopped waiting for
  astray,       \* history: what the client knows is about another stream
  epoch,        \* history: the number at which the timeline last started afresh
  changes       \* how often the stream, its fifo or the connection has been changed

clientVars == <<capacity, receivebuffer, last, missing, requests>>
historyVars == <<arrived, givenUp, astray>>
vars == <<now, sent, epoch, ops, lastSeen, historyVars, changes, clientVars>>

Nonces == 0..MaxPackets
PlayAt(n) == sent[n + 1]
Sent == 0..Len(sent) - 1

AudioHdr(n) == <<"AUDIO_DATA", n>>
\* Every server operation has nonce 0: assemble_header gets no counter for it.
OpHdr == <<"SERVER_OPERATION", 0>>
NoHdr == <<"none", 0>>

Stop == "CLIENT_STOP"

-----------------------------------------------------------------------------
(* The server, as far as a client can tell.                                *)

\* A chunk is complete and is sent (server.c, loop): it continues the timeline,
\* or starts it afresh, in which case the clients are told to stop first.  After
\* EPOLLHUP on the fifo it does so while earlier chunks are still to be played.
SendAudio ==
  LET lastPlayAt == IF sent = <<>> THEN 0 ELSE sent[Len(sent)]
  IN  /\ Len(sent) < MaxPackets
      /\ \E e \in Emissions(now, lastPlayAt) :
           /\ sent' = Append(sent, e.playAt)
           /\ ops' = IF e.reset THEN ops \cup {Stop} ELSE ops
           /\ epoch' = IF e.reset THEN Len(sent) ELSE epoch
           /\ IF e.reset /\ now <= lastPlayAt
              THEN changes < MaxChanges /\ changes' = changes + 1
              ELSE UNCHANGED changes
      /\ UNCHANGED <<now, lastSeen, historyVars, clientVars>>

\* What another stream may have sent by now if it is being played, or has not
\* started; its timeline has not been started afresh.
OtherStreams ==
  {[i \in 1..len |-> p + (i - 1) * ChunkMs] :
     len \in 0..MaxPackets, p \in 1..now + ColdStartMs}
IsUnderWay(s) ==
  \A i \in 1..Len(s) : IF i < Len(s) THEN s[i] <= now + FullLead ELSE s[i] > now

\* The client gets that stream from now on; what was under way to it is lost.
Continue(s) ==
  /\ IsUnderWay(s)
  /\ sent' = s /\ epoch' = 0
  /\ arrived' = {} /\ givenUp' = {} /\ astray' = TRUE
  /\ changes < MaxChanges /\ changes' = changes + 1
  /\ UNCHANGED <<now, lastSeen, clientVars>>

\* handle_client_setstream: the client is told to stop and moved.
SetStream(s) == Continue(s) /\ ops' = ops \cup {Stop}

\* The server is restarted, and the client is none of those that are there when
\* the stream starts: nobody tells it.
RestartServer(s) == Continue(s) /\ UNCHANGED ops

-----------------------------------------------------------------------------
(* The client.                                                             *)

\* The vector is cut to the size of the receive buffer from its oldest entry.
LimitMissing(S, size) ==
  {T \in SUBSET S : /\ \A x \in T, y \in S \ T : y < x
                    /\ Cardinality(T) <= size
                    /\ T = S \/ Cardinality(T) = size}

\* The conversion to int of a size_t that holds a sequence number, 32 bits wide,
\* or the difference of one and the capacity.
ToInt(x) == IF x > IntMax THEN x - 2 * (IntMax + 1) ELSE x

\* Mutant: the first packet of a gap is passed over.
RequestFromLate(n, cap) == {last + 2}

\* The first sequence numbers intercom_handle_audio may start to request from:
\* max() compares as int, INT_MAX + 1 is undefined, and a negative start turns
\* into a size_t beyond every sequence number.
RequestFrom(n, cap) ==
  LET a == ToInt(last)
      b == ToInt(n - cap)
      m == IF a > b THEN a ELSE b
  IN  IF m = IntMax THEN {IntMax + 1, n}
      ELSE IF m + 1 < 0 THEN {n} ELSE {m + 1}

\* Sequence numbers and the buffer are small enough for max() not to overflow.
\* The code does not see to it: it is a hypothesis of what is proved.
IntWideEnough == MaxPackets < IntMax

IsNextChunk(n) == n - 1 = last

\* remove_old_data_from_receivebuffer: the loop ends at the first chunk that
\* is not old, as the heap orders them.
RemoveOld[q \in Seq(Chunk)] ==
  IF q # <<>> /\ now > Peek(q).playAt THEN RemoveOld[Dequeue(q)] ELSE q

\* intercom_send_request: retries_left is a uint8_t.
Retries == (BufferMs \div RetryMs) % 256
NewTask(row) == [row EXCEPT ![Retries] = @ + 1]
SendRequests(S) ==
  [n \in Nonces |-> IF n \in S THEN NewTask(requests[n]) ELSE requests[n]]

\* Mutant: no spare element.
CapacityOffByOne == IF capacity = 0 THEN BufferMs \div ChunkMs ELSE capacity

\* realloc_intercom_buffer_when_required: what an audio packet finds.
Elements == BufferMs \div ChunkMs + 1
BufferCapacity == IF capacity = 0 THEN Elements ELSE capacity

\* Mutant: the request is left in the vector.
KeepRequest(n) == missing

RemoveRequest(n) == missing \ {n}

\* intercom_put_chunk
PutChunk(q, cap, n) ==
  Enqueue(RemoveOld[q], cap, [seqno |-> n, playAt |-> PlayAt(n)])

\* intercom_handle_audio for a chunk that is to be played in the future.  A
\* packet beyond the next one shows a loss: unless it is so big that the
\* buffer could not hold it, each number that was skipped is requested.
StoreChunk(n) ==
  LET cap == BufferCapacity
      pending == RemoveRequest(n)
      ahead == ~IsNextChunk(n) /\ n >= last
      huge == ahead /\ n - last >= cap
  IN  /\ PlayAt(n) > now
      /\ capacity' = cap
      /\ last' = IF n > last THEN n ELSE last
      /\ receivebuffer' = PutChunk(IF huge THEN <<>> ELSE receivebuffer, cap, n)
      /\ \E from \in IF ahead /\ ~huge THEN RequestFrom(n, cap) ELSE {n} :
           LET lost == {i \in from..n-1 : i \notin pending}
           IN  /\ missing' \in LimitMissing(pending \cup lost, cap)
               /\ requests' = SendRequests(lost)
      /\ givenUp' = givenUp \cup ((pending \ missing') \cup IF huge THEN 0..n-1 ELSE {})
      /\ astray' = (astray /\ ~huge)

\* ... and for one that is too late.
DiscardChunk(n) ==
  /\ PlayAt(n) <= now
  /\ capacity' = BufferCapacity
  /\ last' = IF n > last THEN n ELSE last
  /\ missing' = {m \in RemoveRequest(n) : m > n}
  /\ UNCHANGED <<receivebuffer, requests, givenUp, astray>>

\* intercom_handle_packet for an audio packet.
ReceiveAudio(n) ==
  /\ n \in Sent
  /\ IF AudioHdr(n) = lastSeen
     THEN UNCHANGED <<lastSeen, historyVars, clientVars>>
     ELSE /\ lastSeen' = AudioHdr(n)
          /\ arrived' = arrived \cup {n}
          /\ StoreChunk(n) \/ DiscardChunk(n)
  /\ UNCHANGED <<now, sent, epoch, ops, changes>>

\* Mutant: missing_packets is not cleared.
HandleStopKeepMissing ==
  /\ capacity' = 0
  /\ receivebuffer' = <<>>
  /\ last' = 0
  /\ UNCHANGED <<missing, requests>>

\* intercom_handle_server_operation
HandleStop ==
  /\ missing' = {}
  /\ capacity' = 0
  /\ receivebuffer' = <<>>
  /\ last' = 0
  /\ UNCHANGED requests

\* intercom_handle_packet for a server operation.
ReceiveStop ==
  /\ Stop \in ops
  /\ ops' = ops \ {Stop}
  /\ IF OpHdr = lastSeen
     THEN UNCHANGED <<lastSeen, clientVars, astray>>
     ELSE lastSeen' = OpHdr /\ HandleStop /\ astray' = FALSE
  /\ UNCHANGED <<now, sent, epoch, arrived, givenUp, changes>>

\* A CLIENT_VOLUME, which a control client may bring about at any time: the mixer
\* is set, but nothing else depends on it than the header.
ReceiveVolume ==
  /\ lastSeen' = OpHdr
  /\ UNCHANGED <<now, sent, epoch, ops, historyVars, changes, clientVars>>

\* intercom_uninit and intercom_reinit, when the server cannot be reached or has
\* another address: the request tasks stay, and what is under way to the old
\* socket is lost.  ClientLoop has the rest of it.
Reconnect ==
  /\ HandleStop
  /\ lastSeen' = NoHdr
  /\ ops' = {}
  /\ astray' = FALSE
  /\ changes < MaxChanges /\ changes' = changes + 1
  /\ UNCHANGED <<now, sent, epoch, arrived, givenUp>>

\* A task with r retries left ends, or ends and posts its successor.
EndTask(row, r) == [row EXCEPT ![r] = @ - 1]
RetryTask(row, r) == [row EXCEPT ![r] = @ - 1, ![r-1] = @ + 1]

\* Mutant: the last retry does not post the task that gives up.
AfterTaskShort(n, r) ==
  [requests EXCEPT ![n] = IF r > 1 /\ n \in missing THEN RetryTask(requests[n], r)
                                                    ELSE EndTask(requests[n], r)]

\* The tasks that are pending after one for n with r retries left has run.
AfterTask(n, r) ==
  [requests EXCEPT ![n] = IF r > 0 /\ n \in missing THEN RetryTask(requests[n], r)
                                                    ELSE EndTask(requests[n], r)]

\* request_task: ask again while there are retries left and the packet is
\* still missing, give it up when there are none.
RequestTask(n, r) ==
  /\ requests[n][r] > 0
  /\ requests' = AfterTask(n, r)
  /\ missing' = IF r = 0 THEN RemoveRequest(n) ELSE missing
  /\ givenUp' = givenUp \cup (missing \ missing')
  /\ UNCHANGED <<now, sent, epoch, ops, capacity, receivebuffer, last, lastSeen, arrived,
                 astray, changes>>

\* intercom_getnextaudiochunk, whenever the player wants a chunk.
GetNextAudioChunk ==
  /\ receivebuffer # <<>>
  /\ receivebuffer' = Dequeue(receivebuffer)
  /\ UNCHANGED <<now, sent, epoch, ops, capacity, last, missing, requests, lastSeen,
                 historyVars, changes>>

Tick ==
  /\ now < MaxTime
  /\ now' = now + 1
  /\ UNCHANGED <<sent, epoch, ops, lastSeen, historyVars, changes, clientVars>>

-----------------------------------------------------------------------------
Init ==
  /\ now = 1
  /\ sent = <<>> /\ epoch = 0
  /\ ops = {}
  /\ capacity = 0
  /\ receivebuffer = <<>>
  /\ last = 0
  /\ missing = {}
  /\ requests = [n \in Nonces |-> [r \in 0..Retries |-> 0]]
  /\ lastSeen = NoHdr
  /\ arrived = {}
  /\ givenUp = {}
  /\ astray = FALSE
  /\ changes = 0

RunRequestTask == \E n \in Nonces, r \in 0..Retries : RequestTask(n, r)

Next ==
  \/ SendAudio
  \/ \E n \in Nonces : ReceiveAudio(n)
  \/ ReceiveStop \/ ReceiveVolume
  \/ RunRequestTask
  \/ GetNextAudioChunk
  \/ \E s \in OtherStreams : SetStream(s) \/ RestartServer(s)
  \/ Reconnect
  \/ Tick

Spec == Init /\ [][Next]_vars

\* The main loop runs every task that is due (taskqueue_run).
FairSpec == Spec /\ \A n \in Nonces, r \in 0..Retries : WF_vars(RequestTask(n, r))

-----------------------------------------------------------------------------
ClientTypes ==
  /\ now \in Nat /\ sent \in Seq(Nat) /\ Len(sent) <= MaxPackets
  /\ epoch \in 0..Len(sent)
  /\ ops \subseteq {Stop}
  /\ capacity \in {0, Elements}
  /\ last \in Nonces
  /\ missing \subseteq Nonces
  /\ requests \in [Nonces -> [0..Retries -> Nat]]
  /\ arrived \subseteq Nonces /\ givenUp \subseteq Nonces /\ astray \in BOOLEAN
  /\ changes \in Nat

\* The vector of missing packets is filled in ascending order and index 0 is its
\* oldest entry.
MissingBelowLast == \A n \in missing : n < last

\* As limit_missing_packets has it, and none while there is no receive buffer.
MissingBounded == Cardinality(missing) <= capacity

\* Some request_task will ask for it again or give it up.
Pending(n) == \E r \in 0..Retries : requests[n][r] > 0
MissingIsPending == \A n \in missing : Pending(n)

(***************************************************************************)
(* However stops, losses, late packets, retries and new connections        *)
(* interleave, the client waits for packets below the newest one only, for *)
(* no more than its buffer can take, and for none without a request_task   *)
(* that takes care of it, although a CLIENT_STOP and intercom_uninit clear *)
(* missing_packets and leave the tasks.                                    *)
(***************************************************************************)
MissingInv == ClientTypes /\ MissingBelowLast /\ MissingBounded /\ MissingIsPending

(***************************************************************************)
(* The client never waits for a chunk that is in its receive buffer, as    *)
(* far as it knows which stream it gets.                                   *)
(***************************************************************************)
NotMissingWhenBuffered ==
  ~astray => \A i \in DOMAIN receivebuffer : receivebuffer[i].seqno \notin missing

\* Packet k was skipped, could still be played, and nothing is done about it.
SilentlyLost(k) ==
  /\ k \in Sent /\ k < last /\ PlayAt(k) > now
  /\ k \notin arrived \cup givenUp \cup missing

(***************************************************************************)
(* A packet that the client finds missing while it can still be played is  *)
(* requested, unless the client gives it up: README.md, "when a client     *)
(* receives a sequence number n+1 ...  it will REQUEST missing packets".   *)
(* It does not hold of packet 0, which lastreceviedseqno takes for         *)
(* received from the start, nor of those from before the timeline last     *)
(* started afresh, which the client is told to forget and which, if it     *)
(* does not hear it, a late packet that was sent after them but is played  *)
(* before them makes it forget.  Nor does it hold of a client that has not *)
(* heard that it gets another stream, until it hears it, makes a new       *)
(* connection or notices by itself, from a loss of more than its buffer.   *)
(***************************************************************************)
LossIsRequested ==
  ~astray => \A k \in Sent \ {0} : k >= epoch => ~SilentlyLost(k)

\* What LossIsRequested rests on: play_at ascends with the sequence number since
\* the timeline last started afresh, and the newest packet received has been
\* received.
TimelineInOrder ==
  \A i, j \in 1..Len(sent) : epoch < i /\ i < j => sent[i] < sent[j]
LastHasArrived == ~astray /\ last # 0 => last \in arrived /\ last \in Sent

(***************************************************************************)
(* The inductive invariant of the client's bookkeeping of lost packets.    *)
(***************************************************************************)
ClientInv ==
  /\ ClientTypes
  /\ MissingBelowLast
  /\ MissingBounded
  /\ MissingIsPending
  /\ TimelineInOrder
  /\ LastHasArrived
  /\ LossIsRequested

(***************************************************************************)
(* A packet is dropped if it was seen before (intercom_client.c:484), so   *)
(* no chunk of a stream is in the receive buffer twice.                    *)
(***************************************************************************)
BufferedOnce ==
  ~astray =>
    \A i, j \in DOMAIN receivebuffer :
      receivebuffer[i].seqno = receivebuffer[j].seqno => i = j

\* The pipe is not read on when the chunks ahead fill the receive buffer.
BufferWideEnough == FullLead \div ChunkMs < BufferMs \div ChunkMs

\* Packet n was sent since the timeline last started afresh, and so was whatever
\* is in the receive buffer.
OfOneTimeline(n) ==
  /\ n >= epoch
  /\ \A i \in DOMAIN receivebuffer : receivebuffer[i].seqno >= epoch

(***************************************************************************)
(* There is room in the receive buffer for every chunk that arrives, none  *)
(* is dropped by pqueue_enqueue, as long as no duplicates and no chunks of *)
(* an earlier stream or an earlier timeline take up space, and bufferms is *)
(* not so short that 95 % of it are as many chunks as the whole of it.     *)
(***************************************************************************)
RoomForEveryChunk ==
  [][\A n \in Sent :
       /\ BufferWideEnough /\ ~astray /\ BufferedOnce /\ OfOneTimeline(n)
       /\ ReceiveAudio(n) /\ lastSeen' # lastSeen /\ PlayAt(n) > now
       =>
         \E i \in DOMAIN receivebuffer' : receivebuffer'[i].seqno = n]_vars

(***************************************************************************)
(* Nothing is waited for forever: a missing packet arrives or is given up. *)
(***************************************************************************)
MissingIsSettled == \A n \in Nonces : n \in missing ~> n \notin missing
=============================================================================
