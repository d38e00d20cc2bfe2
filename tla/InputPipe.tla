----------------------------- MODULE InputPipe -----------------------------
(***************************************************************************)
(* How the server reads the fifo of one stream (inputpipe.c, the part of   *)
(* server.c's loop that serves it, and stream_client_add and               *)
(* stream_client_remove of stream.c, which start and stop it).             *)
(*                                                                         *)
(* The clock is not a variable: lead is how far chunk.play_at is ahead of  *)
(* it, Past if it is behind.  A task is run at any time after it was       *)
(* posted, so rescheduling the idle task changes nothing here.  A task is  *)
(* a record with an identity, and a pointer to it may outlive it.          *)
(*                                                                         *)
(* The fifo, as epoll shows it: readable while a writer has it open (a     *)
(* writer is taken to have data), hung up when the last writer has closed  *)
(* it.  The loop handles the events of one epoll_wait one after the other  *)
(* and does not ask again: Poll reports, and by the time the report is     *)
(* handled, other events of the same batch (tasks, hellos, control         *)
(* requests) and other processes may have changed everything.              *)
(*                                                                         *)
(* Two such cases put the pipe off its rails, and derailed records that    *)
(* one of them has occurred: EPOLLIN is handled although inputpipe_hold    *)
(* has taken the fd out of epoll since it was reported, and read returns 0 *)
(* because another process has read the data and the last writer has gone. *)
(***************************************************************************)
EXTENDS Timeline, FiniteSets

CONSTANTS
  ChunkSize,    \* chunksize, in units that a read returns one or more of
  TaskIds,      \* bound: identities of tasks
  MaxClients    \* bound: how many clients listen to the stream

ASSUME InputPipeAssumption ==
  /\ ChunkSize \in Nat \ {0}
  /\ MaxClients \in Nat

VARIABLES
  clients,      \* VECTOR_LEN(s->clients)
  state,        \* inputpipe.state
  initialized,  \* inputpipe.initialized: the fifo is open
  watched,      \* the fd of the fifo is registered with epoll
  data,         \* data_read
  lead,         \* chunk.play_at, relative to the clock
  tasks,        \* the pending tasks of this pipe
  resumeTask,   \* the pointer resume_task
  idleTask,     \* the pointer idle_task
  fault,        \* "exit" once add_fd or del_fd failed, "freed" once a freed
                \* task was used
  writer,       \* some process has the fifo open for writing
  hup,          \* the fd reports EPOLLHUP
  event,        \* what epoll_wait reported of the fd, until it is handled
  out,          \* the chunk this step has sent, NoChunk if none
  sentLead,     \* history: play_at of the last chunk sent, relative to the clock
  derailed      \* history: a stale EPOLLIN was handled, or a read returned 0

fifoVars == <<writer, hup>>
pipeVars == <<state, initialized, watched, data, lead, tasks, resumeTask, idleTask, fault>>
vars == <<clients, pipeVars, fifoVars, event, out, sentLead, derailed>>

Past == -1
NoChunk == [playAt |-> Past, reset |-> FALSE]
NoTask == [kind |-> "none", id |-> "none"]
Task == [kind : {"resume", "idle"}, id : TaskIds]

\* Memory that a dangling pointer names is told apart from a new task.
Fresh(kind) == {t \in Task : t.kind = kind /\ t \notin tasks \cup {resumeTask, idleTask}}

-----------------------------------------------------------------------------
(* Pieces of the handlers.                                                 *)

\* The end of inputpipe_resume_read: the fifo is opened unless it is, and its
\* fd is registered; add_fd exits if it already was.  w is the registration
\* and i whether it is open when this is reached.
StartReading(w, i) ==
  /\ initialized' = TRUE
  /\ hup' = (IF i THEN hup ELSE FALSE)
  /\ watched' = TRUE
  /\ state' = "PLAYING"
  /\ resumeTask' = NoTask
  /\ fault' = IF w THEN "exit" ELSE fault

\* Mutant: the fd stays registered.
HoldWatching ==
  [watched |-> watched,
   tasks |-> tasks \ ({idleTask} \cup IF state = "THROTTLE" THEN {resumeTask} ELSE {}),
   resumeTask |-> IF state = "THROTTLE" THEN NoTask ELSE resumeTask,
   fault |-> fault]

\* inputpipe_hold with the set_idle it ends in: what becomes of the
\* registration, the tasks, the pointer and the process.  The state turns to
\* IDLE and idle_task to NULL.
Hold ==
  [watched |-> watched /\ state # "PLAYING",
   tasks |-> tasks \ ({idleTask} \cup IF state = "THROTTLE" THEN {resumeTask} ELSE {}),
   resumeTask |-> IF state = "THROTTLE" THEN NoTask ELSE resumeTask,
   fault |-> IF state = "PLAYING" /\ ~watched THEN "exit"
             ELSE IF \/ state = "THROTTLE" /\ resumeTask \notin tasks
                     \/ idleTask # NoTask /\ idleTask \notin tasks
                  THEN "freed" ELSE fault]

\* chunk_free_members sets play_at_tv_sec to 0, which is behind every clock.
FreedPlayAt == Past

\* Mutant: play_at moves with every part of a chunk that is read.
AtEveryRead == IF lead < 0 THEN ColdStartMs ELSE lead + ChunkMs

\* play_at when bytes of a chunk are read: an idle pipe puts it forward.
AtFirstRead ==
  IF state # "IDLE" THEN lead ELSE IF lead < 0 THEN ColdStartMs ELSE lead + ChunkMs

\* Mutant: a chunk that is late keeps its place in the timeline.
NeverReset(l) == [playAt |-> l + ChunkMs, reset |-> FALSE]

\* The play_at a complete chunk is sent with, and whether the timeline starts
\* afresh (inputpipe_handle returns 2).
Complete(l) ==
  [playAt |-> IF l < 0 THEN ColdStartMs ELSE l + ChunkMs, reset |-> l < 0]

-----------------------------------------------------------------------------
(* Events.                                                                 *)

\* epoll_wait reports the fd, which has been registered for EPOLLIN; a hangup is
\* reported in any case, and goes first.
Poll ==
  /\ event = "none" /\ watched /\ fault = "none"
  /\ hup \/ writer
  /\ event' = IF hup THEN "hup" ELSE "in"
  /\ out' = NoChunk
  /\ UNCHANGED <<clients, pipeVars, fifoVars, sentLead, derailed>>

\* Mutant: reading is not resumed.
ThrottleForGood ==
  /\ watched' = FALSE
  /\ state' = "THROTTLE"
  /\ fault' = IF watched THEN fault ELSE "exit"
  /\ out' = NoChunk
  /\ UNCHANGED <<clients, tasks, resumeTask, initialized, data, lead, idleTask, fifoVars, sentLead>>

\* The clients have all they can hold: loop stops watching the fd for a while.
\* del_fd ends the process if the fd is not registered.
Throttle ==
  /\ watched' = FALSE
  /\ state' = "THROTTLE"
  /\ \E t \in Fresh("resume") : tasks' = tasks \cup {t} /\ resumeTask' = t
  /\ fault' = IF watched THEN fault ELSE "exit"
  /\ out' = NoChunk
  /\ UNCHANGED <<clients, initialized, data, lead, idleTask, fifoVars, sentLead>>

\* inputpipe_handle reads n > 0 units; loop sends the chunk if it is complete.
ReadData(n) ==
  /\ n \in 1..ChunkSize - data
  /\ IF state = "IDLE"
     THEN /\ state' = "PLAYING"
          /\ \E t \in Fresh("idle") : tasks' = tasks \cup {t} /\ idleTask' = t
     ELSE UNCHANGED <<state, tasks, idleTask>>
  /\ IF data + n = ChunkSize
     THEN /\ data' = 0
          /\ out' = Complete(AtFirstRead)
          /\ lead' = out'.playAt
          /\ sentLead' = out'.playAt
     ELSE /\ data' = data + n
          /\ lead' = AtFirstRead
          /\ out' = NoChunk
          /\ UNCHANGED sentLead
  /\ UNCHANGED <<clients, initialized, watched, resumeTask, fault, fifoVars>>

\* read returns 0: the data has gone to another reader, and the writer has gone.
\* (While there is a writer, read fails instead and nothing changes at all.)
ReadNothing ==
  /\ ~writer
  /\ state' = "IDLE"
  /\ out' = NoChunk
  /\ UNCHANGED <<clients, initialized, watched, data, lead, tasks, resumeTask, idleTask,
                 fault, fifoVars, sentLead>>

\* EPOLLIN on the fifo.
HandlePipe ==
  /\ event = "in" /\ fault = "none"
  /\ event' = "none"
  /\ \/ /\ lead > FullLead
        /\ Throttle
        /\ derailed' = (derailed \/ ~watched)
     \/ /\ lead <= FullLead
        /\ \E n \in 1..ChunkSize : ReadData(n)
        /\ derailed' = (derailed \/ ~watched)
     \/ /\ lead <= FullLead
        /\ ReadNothing
        /\ derailed' = TRUE

\* inputpipe_uninit; closing the fd takes it out of epoll as well.
Uninit ==
  /\ tasks' = Hold.tasks
  /\ idleTask' = NoTask
  /\ data' = 0
  /\ lead' = FreedPlayAt

\* EPOLLHUP on the fifo: inputpipe_uninit, and inputpipe_resume_read, which
\* opens it again if there is a client.
HandleHup ==
  /\ event = "hup" /\ fault = "none"
  /\ event' = "none"
  /\ Uninit
  /\ IF clients > 0 /\ Hold.fault = "none"
     THEN StartReading(FALSE, FALSE)
     ELSE /\ initialized' = FALSE
          /\ watched' = FALSE
          /\ state' = "IDLE"
          /\ hup' = FALSE
          /\ resumeTask' = Hold.resumeTask
          /\ fault' = Hold.fault
  /\ out' = NoChunk
  /\ UNCHANGED <<clients, writer, sentLead, derailed>>

\* Mutant: only an idle pipe is resumed.
RunResumeIdle(t) ==
  /\ t \in tasks /\ t.kind = "resume" /\ fault = "none"
  /\ tasks' = tasks \ {t}
  /\ IF clients > 0 /\ state = "IDLE"
     THEN StartReading(watched, initialized)
     ELSE UNCHANGED <<state, initialized, watched, resumeTask, fault, hup>>
  /\ out' = NoChunk
  /\ UNCHANGED <<clients, data, lead, idleTask, writer, event, sentLead, derailed>>

\* The task queue runs inputpipe_resume_read.
RunResume(t) ==
  /\ t \in tasks /\ t.kind = "resume" /\ fault = "none"
  /\ tasks' = tasks \ {t}
  /\ IF clients > 0 /\ state # "PLAYING"
     THEN StartReading(watched, initialized)
     ELSE UNCHANGED <<state, initialized, watched, resumeTask, fault, hup>>
  /\ out' = NoChunk
  /\ UNCHANGED <<clients, data, lead, idleTask, writer, event, sentLead, derailed>>

\* The task queue runs set_idle: drop_task does nothing to the running task.
RunIdle(t) ==
  /\ t \in tasks /\ t.kind = "idle" /\ fault = "none"
  /\ tasks' = tasks \ {t, idleTask}
  /\ fault' = IF idleTask = NoTask \/ idleTask \in tasks THEN fault ELSE "freed"
  /\ state' = "IDLE"
  /\ idleTask' = NoTask
  /\ data' = 0
  /\ out' = NoChunk
  /\ UNCHANGED <<clients, initialized, watched, lead, resumeTask, fifoVars, event, sentLead, derailed>>

\* stream_client_add: the first client starts the pipe.
ClientAdd ==
  /\ clients < MaxClients /\ fault = "none"
  /\ clients' = clients + 1
  /\ IF clients = 0 /\ state = "IDLE"
     THEN /\ tasks' = tasks \ {resumeTask}
          /\ IF resumeTask = NoTask \/ resumeTask \in tasks
             THEN StartReading(watched, initialized)
             ELSE /\ fault' = "freed"
                  /\ UNCHANGED <<state, initialized, watched, resumeTask, hup>>
     ELSE UNCHANGED <<state, initialized, watched, tasks, resumeTask, fault, hup>>
  /\ out' = NoChunk
  /\ UNCHANGED <<data, lead, idleTask, writer, event, sentLead, derailed>>

\* stream_client_remove: the last client stops it.
ClientRemove ==
  /\ clients > 0 /\ fault = "none"
  /\ clients' = clients - 1
  /\ IF clients = 1
     THEN /\ watched' = Hold.watched
          /\ tasks' = Hold.tasks
          /\ resumeTask' = Hold.resumeTask
          /\ fault' = Hold.fault
          /\ state' = "IDLE"
          /\ idleTask' = NoTask
          /\ data' = 0
     ELSE UNCHANGED <<watched, tasks, resumeTask, fault, state, idleTask, data>>
  /\ out' = NoChunk
  /\ UNCHANGED <<initialized, lead, fifoVars, event, sentLead, derailed>>

\* The player opens and closes the fifo.
WriterOpen ==
  /\ ~writer
  /\ writer' = TRUE /\ hup' = FALSE /\ out' = NoChunk
  /\ UNCHANGED <<clients, pipeVars, event, sentLead, derailed>>

WriterClose ==
  /\ writer
  /\ writer' = FALSE /\ hup' = initialized /\ out' = NoChunk
  /\ UNCHANGED <<clients, pipeVars, event, sentLead, derailed>>

\* A millisecond passes.
Tick ==
  /\ lead' = IF lead < 0 THEN Past ELSE lead - 1
  /\ sentLead' = IF sentLead < 0 THEN Past ELSE sentLead - 1
  /\ out' = NoChunk
  /\ UNCHANGED <<clients, state, initialized, watched, data, tasks, resumeTask, idleTask,
                 fault, fifoVars, event, derailed>>

-----------------------------------------------------------------------------
Init ==
  /\ clients = 0
  /\ state = "IDLE" /\ initialized = FALSE /\ watched = FALSE
  /\ data = 0 /\ lead = Past
  /\ tasks = {} /\ resumeTask = NoTask /\ idleTask = NoTask
  /\ fault = "none"
  /\ writer \in BOOLEAN /\ hup = FALSE
  /\ event = "none" /\ out = NoChunk /\ sentLead = Past /\ derailed = FALSE

RunTask == \E t \in tasks : RunResume(t) \/ RunIdle(t)

Next ==
  \/ Poll \/ HandlePipe \/ HandleHup
  \/ \E t \in tasks : RunResume(t)
  \/ \E t \in tasks : RunIdle(t)
  \/ ClientAdd \/ ClientRemove
  \/ WriterOpen \/ WriterClose
  \/ Tick

Spec == Init /\ [][Next]_vars

\* The main loop serves what epoll reports and runs the tasks that are due; the
\* player, as long as it has the fifo open, goes on writing; time passes.
FairSpec ==
  /\ Spec
  /\ WF_vars(Poll) /\ WF_vars(HandlePipe) /\ WF_vars(HandleHup)
  /\ WF_vars(RunTask) /\ WF_vars(Tick)

-----------------------------------------------------------------------------
TypeOK ==
  /\ clients \in Nat
  /\ state \in {"IDLE", "PLAYING", "THROTTLE"}
  /\ initialized \in BOOLEAN /\ watched \in BOOLEAN
  /\ data \in 0..ChunkSize - 1
  /\ lead \in Int
  /\ tasks \subseteq Task
  /\ resumeTask \in Task \cup {NoTask} /\ idleTask \in Task \cup {NoTask}
  /\ fault \in {"none", "exit", "freed"}
  /\ writer \in BOOLEAN /\ hup \in BOOLEAN
  /\ event \in {"none", "in", "hup"}
  /\ sentLead \in Int /\ derailed \in BOOLEAN

(***************************************************************************)
(* Whatever is sent is the next chunk of the timeline, or starts it        *)
(* afresh a cold start ahead, across pauses, throttling, clients that come *)
(* and go and a fifo that is closed and opened again, as long as the pipe  *)
(* is not derailed.  IntercomClient relies on it.                          *)
(***************************************************************************)
SendsOnTimeline == [][out' # NoChunk /\ ~derailed' => out' \in Emissions(0, sentLead)]_vars

(***************************************************************************)
(* What SendsOnTimeline rests on: nothing is ever further ahead than the   *)
(* longest lead, and play_at is that of the last chunk that was sent, or   *)
(* it has passed, or EPOLLHUP has zeroed it, until the pipe is derailed.   *)
(***************************************************************************)
TimelineInv ==
  /\ TypeOK
  /\ lead \in Past..LongestLead /\ sentLead \in Past..LongestLead
  /\ ~derailed => lead \in {Past, sentLead}

\* State, epoll registration, tasks and clients agree.
Consistent ==
  /\ fault = "none"
  /\ idleTask = NoTask
  /\ state = "IDLE" <=> clients = 0
  /\ watched <=> state = "PLAYING"
  /\ state # "IDLE" => initialized
  /\ tasks = IF state = "THROTTLE" THEN {resumeTask} ELSE {}
  /\ state = "THROTTLE" <=> resumeTask # NoTask
  /\ state = "THROTTLE" => resumeTask.kind = "resume"

(***************************************************************************)
(* Only the pipe of a stream with clients is read: the states, the epoll   *)
(* registration, the resume task and the clients agree, whatever is done   *)
(* between an event and its handling, until the pipe is derailed.          *)
(***************************************************************************)
PipeInv == TypeOK /\ (~derailed => Consistent)

(***************************************************************************)
(* The server is not ended by add_fd or del_fd, and does not touch a task  *)
(* that has been freed, in whatever order clients come and go, the fifo is *)
(* closed and opened, and reading is throttled and resumed, until the pipe *)
(* is derailed.                                                            *)
(***************************************************************************)
NoFault == ~derailed => fault = "none"

(***************************************************************************)
(* A stream with clients is never forgotten: its fifo is watched, or there *)
(* is a task that will watch it again, until the pipe is derailed.         *)
(***************************************************************************)
NoStall ==
  ~derailed /\ clients > 0 => watched \/ \E t \in tasks : t.kind = "resume"

(***************************************************************************)
(* As long as there are clients and the player goes on writing, chunks are *)
(* sent; throttling is never for good, unless the pipe is derailed.        *)
(***************************************************************************)
KeepsSending ==
  (clients > 0 /\ writer) ~> (out # NoChunk \/ clients = 0 \/ ~writer \/ derailed)
=============================================================================
