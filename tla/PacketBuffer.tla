---------------------------- MODULE PacketBuffer ----------------------------
(***************************************************************************)
(* The server's retransmission store of one stream (intercom_srv.c,        *)
(* intercom.c).  Every audio packet that is sent is kept in                *)
(* s->packet_buffer and a task that fires bufferms later is posted with    *)
(* it.  The task is not told which packet it is for: it removes from the   *)
(* front, at least one packet, and goes on while the packet it has just    *)
(* removed was played more than bufferms ago.  A client that missed a      *)
(* packet asks for it by nonce and is answered from this store.            *)
(*                                                                         *)
(* Time is in milliseconds.  The field id of a packet and of a task is a   *)
(* history value (the how-manieth packet of the stream this is): it names  *)
(* the packet a task was posted for, which the code does not record.       *)
(***************************************************************************)
EXTENDS Integers, Sequences

CONSTANTS
  BufferMs,     \* snapctx.bufferms
  MinLead,      \* a chunk is sent at least this long before it is played
  MaxLead,      \* ... and at most this long (both are inputpipe.c's promise)
  MaxLate,      \* how late the main loop runs a task that is due
  NonceMax,     \* NONCE_MAX
  Clients,      \* clients of the stream
  MaxTime,      \* bound: the last instant of the model
  MaxPackets    \* bound: how many packets are sent

ASSUME PacketBufferAssumption ==
  /\ BufferMs \in Nat /\ MinLead \in Nat /\ MaxLead \in Nat /\ MaxLate \in Nat
  /\ MinLead <= MaxLead
  /\ NonceMax \in Nat \ {0} /\ MaxTime \in Nat /\ MaxPackets \in Nat

\* The main loop serves an expired timer before one more chunk could have been
\* played.  The code does not enforce it; RetainedUntilTimeout depends on it.
ASSUME PunctualAssumption == MaxLate <= MinLead

VARIABLES
  now,          \* the system clock
  nonce,        \* s->nonce, and the number of packets sent so far
  buffer,       \* s->packet_buffer
  tasks,        \* the pending remove_old_audiodata_tasks, earliest first
  clients,      \* s->clients
  answer        \* what the last REQUEST was answered with

vars == <<now, nonce, buffer, tasks, clients, answer>>

NoPacket == -1

Packet == [id : Nat, playAt : Int]
Task == [due : Int, id : Nat]

TypeOK ==
  /\ now \in Nat /\ nonce \in Nat
  /\ buffer \in Seq(Packet)
  /\ tasks \in Seq(Task)
  /\ clients \in SUBSET Clients
  /\ answer \in Nat \cup {NoPacket}

-----------------------------------------------------------------------------
\* The clock has run for longer than bufferms when the server starts.
Init ==
  /\ now = BufferMs
  /\ nonce = 0
  /\ buffer = <<>>
  /\ tasks = <<>>
  /\ clients = {}
  /\ answer = NoPacket

\* timeSubMs: the sign of the difference is dropped.
TimeSubMs(t, ms) == IF t < ms THEN ms - t ELSE t - ms

\* Mutant: a sequence number that wraps within the retention time.
NarrowNonce(id) == id % 2

\* get_nonce: the sequence number in the header of the id-th packet.
Nonce(id) == id % NonceMax

\* Mutant: >= for > in the loop condition.
OutdatedInclusive(p) == TimeSubMs(now, BufferMs) >= p.playAt

\* The condition under which remove_old_audiodata_task goes on after removing p.
Outdated(p) == TimeSubMs(now, BufferMs) > p.playAt

\* intercom_send_audio for a chunk the pipe has completed: store it, post the
\* task that removes it.  The lead of play_at over the clock is what
\* inputpipe_handle establishes (module InputPipe).  play_at may be earlier than
\* that of the packet before: EPOLLHUP on the fifo zeroes it.
SendAudio ==
  /\ nonce < MaxPackets
  /\ \E p \in now + MinLead .. now + MaxLead :
       buffer' = Append(buffer, [id |-> nonce, playAt |-> p])
  /\ tasks' = Append(tasks, [due |-> now + BufferMs, id |-> nonce])
  /\ nonce' = nonce + 1
  /\ UNCHANGED <<now, clients, answer>>

\* Mutant: while instead of do-while, only outdated packets are removed.
RemoveWhileOutdated ==
  /\ tasks # <<>>
  /\ tasks[1].due <= now
  /\ tasks' = Tail(tasks)
  /\ IF clients = {} \/ buffer = <<>>
     THEN UNCHANGED buffer
     ELSE \E k \in 0..Len(buffer) :
            /\ \A j \in 1..k : Outdated(buffer[j])
            /\ k = Len(buffer) \/ ~Outdated(buffer[k+1])
            /\ buffer' = SubSeq(buffer, k+1, Len(buffer))
  /\ UNCHANGED <<now, nonce, clients, answer>>

\* Mutant: no loop, one packet per task.
RemoveOne ==
  /\ tasks # <<>>
  /\ tasks[1].due <= now
  /\ tasks' = Tail(tasks)
  /\ IF clients = {} \/ buffer = <<>>
     THEN UNCHANGED buffer
     ELSE buffer' = Tail(buffer)
  /\ UNCHANGED <<now, nonce, clients, answer>>

\* remove_old_audiodata_task run by the task queue.  k packets are removed: the
\* last of them is the first one that is not outdated, or the store is empty.
RemoveOldAudiodata ==
  /\ tasks # <<>>
  /\ tasks[1].due <= now
  /\ tasks' = Tail(tasks)
  /\ IF clients = {} \/ buffer = <<>>
     THEN UNCHANGED buffer
     ELSE \E k \in 1..Len(buffer) :
            /\ \A j \in 1..k-1 : Outdated(buffer[j])
            /\ k = Len(buffer) \/ ~Outdated(buffer[k])
            /\ buffer' = SubSeq(buffer, k+1, Len(buffer))
  /\ UNCHANGED <<now, nonce, clients, answer>>

\* The REQUEST branch of intercom_handle_client_operation: the first packet of
\* the store with that nonce is sent again; a client that is in no stream gets
\* nothing, and neither does one that asks for a packet that is gone.
HandleRequest(c, n) ==
  /\ LET hits == {j \in 1..Len(buffer) : Nonce(buffer[j].id) = n}
     IN  IF c \in clients /\ hits # {}
         THEN \E j \in hits : (\A i \in hits : j <= i) /\ answer' = buffer[j].id
         ELSE answer' = NoPacket
  /\ UNCHANGED <<now, nonce, buffer, tasks, clients>>

\* stream_client_add and stream_client_remove, as far as this store sees them.
ClientAdd(c) ==
  /\ c \notin clients
  /\ clients' = clients \cup {c}
  /\ UNCHANGED <<now, nonce, buffer, tasks, answer>>

ClientRemove(c) ==
  /\ c \in clients
  /\ clients' = clients \ {c}
  /\ UNCHANGED <<now, nonce, buffer, tasks, answer>>

\* Time passes, but no task is left waiting for more than MaxLate.
Tick ==
  /\ now < MaxTime
  /\ tasks # <<>> => now < tasks[1].due + MaxLate
  /\ now' = now + 1
  /\ UNCHANGED <<nonce, buffer, tasks, clients, answer>>

Next ==
  \/ SendAudio
  \/ RemoveOldAudiodata
  \/ \E c \in Clients : ClientAdd(c) \/ ClientRemove(c)
  \/ \E c \in Clients, id \in 0..nonce : HandleRequest(c, Nonce(id))
  \/ Tick

Spec == Init /\ [][Next]_vars

-----------------------------------------------------------------------------
(***************************************************************************)
(* A packet is retained until its own task has fired: although a task      *)
(* takes whatever is at the front, and tasks that fire while there are no  *)
(* clients leave their packets behind, no task ever removes a packet that  *)
(* another pending task was posted for (intercom_srv.c:140, "we can always *)
(* remove the very first item on timeout").                                *)
(***************************************************************************)
RetainedUntilTimeout ==
  \A i \in DOMAIN tasks : \E j \in DOMAIN buffer : buffer[j].id = tasks[i].id

\* The packets at the front that no pending task was posted for.
Backlog == Len(buffer) - Len(tasks)

\* The pending tasks are those of the last packets of the store, in order.
TasksMatchBuffer ==
  /\ Len(tasks) <= Len(buffer)
  /\ \A i \in 1..Len(tasks) : tasks[i].id = buffer[Backlog + i].id

\* A packet whose task is pending was sent MinLead or more before play_at.
LeadKept ==
  \A i \in 1..Len(tasks) :
    tasks[i].due - BufferMs + MinLead <= buffer[Backlog + i].playAt

\* Tasks are posted with one delay, so they fire in order, none too late.
TasksInOrder ==
  /\ \A i, j \in 1..Len(tasks) : i <= j => tasks[i].due <= tasks[j].due
  /\ \A i \in 1..Len(tasks) : tasks[i].due <= now + BufferMs
  /\ tasks # <<>> => now <= tasks[1].due + MaxLate

(***************************************************************************)
(* The inductive invariant behind RetainedUntilTimeout: tasks and packets  *)
(* of the store stay paired off although the code does not link them, and  *)
(* whether or not the packets are in the order of play_at.                 *)
(***************************************************************************)
PairingInv ==
  /\ TypeOK
  /\ BufferMs <= now
  /\ TasksMatchBuffer
  /\ LeadKept
  /\ TasksInOrder

(***************************************************************************)
(* While there are clients, the number of packets left behind by tasks     *)
(* that found no client never grows: each task that fires removes at least *)
(* one packet.                                                             *)
(***************************************************************************)
BacklogNeverGrows == [][clients # {} => Backlog' <= Backlog]_vars

(***************************************************************************)
(* A task that removes packets flushes all that had piled up: a packet     *)
(* that was to be played more than bufferms ago is left behind only where  *)
(* the timeline had gone back (EPOLLHUP), after a packet that was to be    *)
(* played later than it.  In a store in the order of play_at none is left. *)
(***************************************************************************)
FlushComplete ==
  [][\A j \in 1..Len(buffer') :
       Len(buffer') < Len(buffer) /\ Outdated(buffer'[j]) =>
         \E i \in 1..Len(buffer) - Len(buffer') : buffer'[j].playAt < buffer[i].playAt]_vars

(***************************************************************************)
(* A client of the stream that requests a packet whose task is still       *)
(* pending is answered with that very packet.                              *)
(***************************************************************************)
PendingIsAnswered ==
  [][\A c \in clients, i \in DOMAIN tasks :
       HandleRequest(c, Nonce(tasks[i].id)) => answer' = tasks[i].id]_vars
=============================================================================
