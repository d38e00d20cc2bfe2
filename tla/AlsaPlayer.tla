----------------------------- MODULE AlsaPlayer -----------------------------
(***************************************************************************)
(* The player (alsaplayer.c): when a chunk is taken from the receive       *)
(* buffer, how much it is stretched or compressed so that the next one is  *)
(* on time, when there is silence instead, and when the device is opened   *)
(* and closed.                                                             *)
(*                                                                         *)
(* All times are in milliseconds and relative to the clock, which makes    *)
(* time pass by counting them down.  A chunk is its lead: how far its      *)
(* play_at is ahead; two of the same lead, which there are only if the     *)
(* stream starts afresh while they are ahead, count as one.  The network   *)
(* delays, reorders and loses chunks; IntercomClient has the protocol.     *)
(* The sound device is a queue of delay milliseconds, which is played once *)
(* StartMs have been written, and stops when it runs empty.  ClientLoop    *)
(* has the lifetimes of the device and of its tasks.                       *)
(***************************************************************************)
EXTENDS Integers, FiniteSets, FiniteSetsExt

CONSTANTS
  BufferMs,     \* snapctx.bufferms
  ChunkMs,      \* duration of a chunk
  ColdStartMs,  \* lead of the first chunk of a stream
  LatencyMs,    \* alsaplayer_ctx.latency_ms, of the command line
  NearMs,       \* NEAR_MS
  FarMs,        \* NOT_EVEN_CLOSE_MS
  EmptyMs,      \* silence that replaces a chunk there is none of
  BytesPerMs,   \* samples * channels * frame_size / 1000
  SizeLimit,    \* 2^16: pcmChunk.size is a uint16_t
  MaxEmpty,     \* how many of those in a row end the playback
  SecondMs,     \* a second,
  SecondCounts, \* and the milliseconds adjust_speed takes one for
  DeviceMs,     \* the buffer of the device, 20 periods
  PeriodMs,     \* PERIOD_TIME: poll reports as much room as this
  MaxComing,    \* bound: chunks on the network
  MaxReopens,   \* bound: how often the fifo is closed and opened again
  MaxLateMs,    \* bound: no stall once a chunk is overdue by this
  None          \* no prediction

StartMs == DeviceMs \div 2
CloseMs == (12 * BufferMs) \div 10

ASSUME AlsaPlayerAssumption ==
  /\ {BufferMs, ColdStartMs, LatencyMs, NearMs, MaxEmpty, MaxComing, MaxReopens,
      MaxLateMs} \subseteq Nat
  /\ {ChunkMs, FarMs, EmptyMs, BytesPerMs, SizeLimit, SecondMs, SecondCounts, PeriodMs,
      DeviceMs} \subseteq Nat \ {0}
  /\ 2 * ChunkMs * BytesPerMs < SizeLimit   \* a stretched chunk has a size
  /\ ChunkMs % 2 = 0 /\ SecondCounts <= SecondMs /\ FarMs <= SecondMs
  /\ PeriodMs <= StartMs
  /\ None \notin Int

VARIABLES
  src,          \* lead of the chunk that the server sends next
  reopens,      \* how often the fifo has been reopened with chunks ahead
  coming,       \* chunks on the network
  buf,          \* receivebuffer
  initialized,  \* alsaplayer_ctx.initialized
  playing,      \* alsaplayer_ctx.playing
  empties,      \* alsaplayer_ctx.empty_chunks_in_row
  overflow,     \* what is left of alsaplayer_ctx.overflow, 0 for NULL
  delay,        \* snd_pcm_delay
  running,      \* the device plays
  closeIn,      \* when close_task is due
  near,         \* history: the last chunk was taken near its time
  raw           \* history: how late the next chunk would be taken if the last
                \* one had been played as it is; or None, if anything else than
                \* the player has a say in it

network == <<src, reopens, coming>>
device == <<overflow, delay, running>>
vars == <<network, buf, initialized, playing, empties, device, closeIn, near, raw>>

Abs(x) == IF x < 0 THEN -x ELSE x
Lesser(x, y) == IF x < y THEN x ELSE y
Near(e) == Abs(e) <= NearMs

\* getchunk: how late a chunk would be that is written now.
Late(l) == delay + LatencyMs - l

-----------------------------------------------------------------------------
(* The device.                                                             *)

\* snd_pcm_writei, after snd_pcm_prepare if the device ran empty, takes what
\* there is room for; pcmchunk_shaveoff leaves the rest in overflow.
Write(len) ==
  LET n == Lesser(len, DeviceMs - delay)
  IN  /\ delay' = delay + n
      /\ overflow' = len - n
      /\ running' = (running \/ delay' >= StartMs)

\* It fails in another way.  pcm is unsigned, so that this looks like more than
\* was to be written: a chunk is forgotten, an overflow stays.
WriteFails == UNCHANGED device

\* POLLOUT
Ready == initialized /\ DeviceMs - delay >= PeriodMs

-----------------------------------------------------------------------------
(* alsaplayer_handle.                                                      *)

\* Mutant: a late chunk is made longer, an early one shorter.
CorrectionWrong(d) ==
  LET ms == (Abs(d) \div SecondMs) * SecondCounts + (Abs(d) % SecondMs)
  IN  IF d < 0 THEN Lesser(ms, ChunkMs \div 2) ELSE -Lesser(ms, ChunkMs)

\* adjust_speed: how much shorter a chunk is played (longer, if negative) when
\* the next one would be late by d.  The factor is from 0.5 to 2.
Correction(d) ==
  LET ms == (Abs(d) \div SecondMs) * SecondCounts + (Abs(d) % SecondMs)
  IN  IF d > 0 THEN Lesser(ms, ChunkMs \div 2) ELSE -Lesser(ms, ChunkMs)

\* How late the next chunk would be after l.
After(l) == Late(l) + ChunkMs - (Min(buf \ {l}) - l)

\* Mutant: a chunk is as long as it is.
LengthPlain(l) == ChunkMs

\* The length of chunk l as it is played.  The time of a next chunk that is not
\* there is 0, and so the chunk is as good as infinitely late.
Length(l) ==
  IF Near(Late(l)) THEN ChunkMs
  ELSE IF buf = {l} THEN ChunkMs - ChunkMs \div 2
  ELSE ChunkMs - Correction(After(l))

\* The rest of a chunk is written.
HandleRest ==
  /\ Ready /\ overflow > 0
  /\ \/ Write(overflow) /\ UNCHANGED raw
     \/ WriteFails /\ raw' = None
  /\ UNCHANGED <<network, buf, initialized, playing, empties, closeIn, near>>

\* Mutant: a first chunk that is overdue is waited for.
DueNever(l) == playing \/ Near(Late(l))

\* A chunk is taken when the device plays, or to start with when it is due or
\* overdue.
Due(l) == playing \/ Late(l) >= 0 \/ Near(Late(l))

\* Mutant: the close task is left to run.
PutOffNot == UNCHANGED closeIn

\* reschedule_task for the close task.
PutOff == closeIn' = CloseMs

\* getchunk has a chunk.
TakeChunk ==
  /\ Ready /\ overflow = 0 /\ buf # {}
  /\ LET l == Min(buf)
     IN  /\ Due(l)
         /\ buf' = buf \ {l}
         /\ near' = Near(Late(l))
         /\ \/ Write(Length(l)) /\ raw' = IF buf' = {} THEN None ELSE After(l)
            \/ WriteFails /\ raw' = None
  /\ playing' = TRUE /\ empties' = 0
  /\ PutOff
  /\ UNCHANGED <<network, initialized>>

\* get_emptychunk: the length, in whole milliseconds, of a chunk that is to have
\* that length, of which it gets the bytes that its size can count.
EmptyChunk(ms) == ((ms * BytesPerMs) % SizeLimit) \div BytesPerMs

\* Mutant: the wait for the first chunk is not shortened as it comes closer.
SilenceLengthFar(e) == EmptyChunk(FarMs)

\* The silence before a first chunk that is early by e.
SilenceLength(e) ==
  EmptyChunk(IF e < 0 THEN 0 ELSE IF e >= SecondMs THEN FarMs ELSE e)

\* A chunk of no bytes is not written.
Silence ==
  /\ Ready /\ overflow = 0 /\ buf # {}
  /\ LET e == -Late(Min(buf))
         len == SilenceLength(e)
     IN  /\ ~Due(Min(buf))
         /\ \/ Write(len) /\ raw' = len - e
            \/ len > 0 /\ WriteFails /\ raw' = None
  /\ UNCHANGED <<network, buf, initialized, playing, empties, closeIn, near>>

\* Mutant: silence puts off the closing of the device, too.
StarvePutsOff ==
  /\ Ready /\ overflow = 0 /\ buf = {}
  /\ Write(EmptyChunk(EmptyMs)) \/ WriteFails
  /\ empties' = Lesser(empties, MaxEmpty) + 1
  /\ playing' = (playing /\ empties' <= MaxEmpty)
  /\ raw' = None
  /\ PutOff
  /\ UNCHANGED <<network, buf, initialized, near>>

\* There is no chunk; it does not matter whether the device plays, since the time
\* of the chunk that is not there is 0.  After some of these it does not; they
\* are not counted any further.
Starve ==
  /\ Ready /\ overflow = 0 /\ buf = {}
  /\ Write(EmptyChunk(EmptyMs)) \/ WriteFails
  /\ empties' = Lesser(empties, MaxEmpty) + 1
  /\ playing' = (playing /\ empties' <= MaxEmpty)
  /\ raw' = None
  /\ UNCHANGED <<network, buf, initialized, closeIn, near>>

Handle == HandleRest \/ TakeChunk \/ Silence \/ Starve

-----------------------------------------------------------------------------
(* The server and the network.                                             *)

\* The next chunk of the stream is sent when there is room in the clients'
\* buffers.
Send ==
  /\ 0 < src /\ src <= BufferMs
  /\ Cardinality(coming) < MaxComing
  /\ coming' = coming \cup {src}
  /\ src' = src + ChunkMs
  /\ UNCHANGED <<reopens, buf, initialized, playing, empties, device, closeIn, near, raw>>

\* The source was idle, or its fifo was closed and opened again: the stream starts
\* afresh.  Clients are told to stop, which they may not hear.
Restart ==
  /\ src' = ColdStartMs
  /\ IF src <= 0 THEN UNCHANGED reopens
                 ELSE reopens < MaxReopens /\ reopens' = reopens + 1
  /\ \/ buf' = {} /\ raw' = None
     \/ UNCHANGED <<buf, raw>>
  /\ UNCHANGED <<coming, initialized, playing, empties, device, closeIn, near>>

\* intercom_handle_audio: old chunks are removed, the chunk is stored, and the
\* device is opened (alsaplayer_init) if it is not.
Arrive(l) ==
  /\ l \in coming /\ l > 0
  /\ coming' = coming \ {l}
  /\ buf' = {x \in buf : x >= 0} \cup {l}
  /\ raw' = IF buf # {} /\ Min(buf') = Min(buf) THEN raw ELSE None
  /\ IF initialized
       THEN UNCHANGED <<initialized, playing, empties, device, closeIn>>
       ELSE /\ initialized' = TRUE
            /\ playing' = FALSE /\ empties' = 0 /\ overflow' = 0
            /\ delay' = 0 /\ running' = FALSE
            /\ closeIn' = CloseMs
  /\ UNCHANGED <<src, reopens, near>>

-----------------------------------------------------------------------------
(* Time.                                                                   *)

Sooner(S, ms) == {x - ms : x \in S}

\* Chunks on the network are lost, or will be discarded, when it is too late for
\* them.
NetworkAfter(ms) ==
  /\ src' = IF src > ms THEN src - ms ELSE 0
  /\ coming' = Sooner(coming, ms) \ (-ms)..0
  /\ UNCHANGED reopens

\* A millisecond passes.  Before the device is opened again the old chunks in the
\* buffer are removed, and might as well be at once.
Elapse ==
  /\ NetworkAfter(1)
  /\ buf' = IF initialized THEN Sooner(buf, 1) ELSE Sooner(buf, 1) \cap Nat
  /\ closeIn' = IF closeIn > 0 THEN closeIn - 1 ELSE 0
  /\ delay' = IF running THEN delay - 1 ELSE delay
  /\ running' = (running /\ delay > 1)
  /\ UNCHANGED <<initialized, playing, empties, overflow, near>>

\* alsaplayer_handle gets a chunk of no bytes, again and again until it is later.
NothingToWrite ==
  /\ overflow = 0
  /\ IF buf = {} THEN EmptyChunk(EmptyMs) = 0
                 ELSE ~Due(Min(buf)) /\ SilenceLength(-Late(Min(buf))) = 0

\* Nothing is to be done.
Idle == (~Ready \/ NothingToWrite) /\ ~(initialized /\ closeIn = 0)

Tick ==
  /\ Idle
  /\ Elapse
  /\ raw' = IF raw = None \/ running THEN raw ELSE raw + 1

\* The client is not scheduled in time.
Stall ==
  /\ ~Idle /\ \A x \in buf : x > -MaxLateMs
  /\ Elapse
  /\ raw' = None

\* alsaplayer_uninit_task: the device plays what it holds (snd_pcm_drain), which
\* the client waits for, and is closed.
CloseTask ==
  /\ initialized /\ closeIn = 0
  /\ NetworkAfter(delay)
  /\ buf' = Sooner(buf, delay) \cap Nat
  /\ initialized' = FALSE /\ playing' = FALSE
  /\ delay' = 0 /\ running' = FALSE
  /\ raw' = None
  /\ UNCHANGED <<empties, overflow, closeIn, near>>

-----------------------------------------------------------------------------
Init ==
  /\ src = ColdStartMs /\ reopens = 0 /\ coming = {} /\ buf = {}
  /\ initialized = FALSE /\ playing = FALSE /\ empties = 0
  /\ overflow = 0 /\ delay = 0 /\ running = FALSE
  /\ closeIn = 0 /\ near = TRUE /\ raw = None

Next ==
  \/ Handle
  \/ Send \/ Restart \/ \E l \in coming : Arrive(l)
  \/ Tick \/ Stall \/ CloseTask

Spec == Init /\ [][Next]_vars
FairSpec == Spec /\ WF_vars(Handle) /\ WF_vars(Tick) /\ WF_vars(CloseTask)

-----------------------------------------------------------------------------
TypeOK ==
  /\ src \in 0..BufferMs + ChunkMs + ColdStartMs
  /\ reopens \in Nat
  /\ coming \subseteq 1..BufferMs + ColdStartMs
  /\ buf \subseteq Int
  /\ initialized \in BOOLEAN /\ playing \in BOOLEAN /\ running \in BOOLEAN
  /\ empties \in Nat /\ overflow \in Nat
  /\ delay \in 0..DeviceMs
  /\ closeIn \in 0..CloseMs
  /\ near \in BOOLEAN /\ raw \in Int \cup {None}

(***************************************************************************)
(* If only the player had a say in it, a chunk is taken no later and no    *)
(* earlier than it would have been without adjust_speed; if the chunk      *)
(* before was not near its time, this one is nearer; and it is never on    *)
(* the other side of its time.                                             *)
(***************************************************************************)
AdjustsTowards ==
  [][TakeChunk /\ raw # None =>
       LET e == Late(Min(buf))
       IN  /\ near \/ ~playing => e = raw
           /\ ~near /\ playing => e = 0 \/ Abs(e) < Abs(raw)
           /\ raw >= 0 => e >= 0
           /\ raw <= 0 => e <= 0]_vars

(***************************************************************************)
(* Playback starts on time, if only the player has a say in it: the        *)
(* silences that getchunk inserts lead up to the first chunk and never     *)
(* beyond it, although one that is as long as it takes does not always fit *)
(* into the uint16_t of its size, and then is shorter or is not played at  *)
(* all.                                                                    *)
(***************************************************************************)
StartsInTime ==
  [][TakeChunk /\ raw # None /\ ~playing => near']_vars

\* No chunk of the stream is missing from the buffer.
Steady == \A l \in buf : l = Min(buf) \/ l - ChunkMs \in buf

(***************************************************************************)
(* A client that is not disturbed any more, and whose buffer does not run  *)
(* empty, gets in sync with the stream and stays so.                       *)
(***************************************************************************)
InSync == <>[](raw # None /\ Steady) => <>[]near

(***************************************************************************)
(* A device is not kept open for nothing: unless chunks are taken again    *)
(* and again it is closed.                                                 *)
(***************************************************************************)
DeviceCloses == <>[]initialized => []<><<TakeChunk>>_vars

(***************************************************************************)
(* Playback starts although its instant was missed: the device is not      *)
(* closed with a first chunk in the buffer that is overdue, if only the    *)
(* player has a say in it.                                                 *)
(***************************************************************************)
Starts == [][CloseTask /\ ~playing => raw = None \/ raw <= 0]_vars

(***************************************************************************)
(* The device is not closed while it plays, if only the player has a say   *)
(* in it: chunks are taken often enough for the close task to be put off.  *)
(***************************************************************************)
ClosesIdle == [][CloseTask => raw = None \/ ~playing]_vars
=============================================================================
