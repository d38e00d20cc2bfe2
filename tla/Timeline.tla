------------------------------ MODULE Timeline ------------------------------
(***************************************************************************)
(* The play_at timestamps that the server gives to the chunks of a stream: *)
(* what inputpipe.c guarantees (InputPipe shows it) and what the server's  *)
(* packet store and the clients rely on (PacketBuffer, IntercomClient).    *)
(* Instants are in milliseconds.                                           *)
(***************************************************************************)
EXTENDS Integers

CONSTANTS
  BufferMs,     \* snapctx.bufferms
  ChunkMs,      \* read_ms, the duration of a chunk
  ColdStartMs   \* COLD_START_OFFSET_MS

ASSUME TimelineAssumption ==
  /\ BufferMs \in Nat
  /\ ChunkMs \in Nat \ {0}
  /\ ColdStartMs \in Nat \ {0}

\* The pipe is not read while the last play_at is further ahead than this.
FullLead == (BufferMs * 95) \div 100

\* How far ahead of the clock a chunk may be when it is sent.
ShortestLead == IF ColdStartMs < ChunkMs THEN ColdStartMs ELSE ChunkMs
LongestLead ==
  IF FullLead + ChunkMs > ColdStartMs THEN FullLead + 2 * ChunkMs
                                      ELSE ColdStartMs + ChunkMs

\* What may be sent at instant t after a chunk with play_at last: the next chunk
\* of the timeline, if the clock has not overtaken it, or one that starts it
\* afresh, with an order to the clients to stop.  The latter is sent when the
\* clock has overtaken play_at and when EPOLLHUP has zeroed it: then chunks sent
\* before may be later than it is.
Emissions(t, last) ==
  {[playAt |-> t + ColdStartMs, reset |-> TRUE]}
    \cup {e \in {[playAt |-> last + ChunkMs, reset |-> FALSE]} :
            t <= last /\ last <= t + FullLead}
=============================================================================
