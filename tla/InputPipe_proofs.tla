-------------------------- MODULE InputPipe_proofs --------------------------
(***************************************************************************)
(* Proofs about the reader of the fifo, for every buffer, chunk and read   *)
(* size and any number of clients.                                         *)
(***************************************************************************)
EXTENDS InputPipe, TLAPS

LEMMA Leads ==
  /\ FullLead \in Nat /\ ShortestLead \in Nat /\ LongestLead \in Nat
  /\ 1 <= ShortestLead /\ ShortestLead <= ColdStartMs /\ ShortestLead <= ChunkMs
  /\ FullLead + 2 * ChunkMs <= LongestLead /\ ColdStartMs + ChunkMs <= LongestLead
<1>1. FullLead \in Nat
  BY TimelineAssumption DEF FullLead
<1> QED BY <1>1, TimelineAssumption DEF ShortestLead, LongestLead

LEMMA NoTaskIsNoTask == NoTask \notin Task
BY DEF NoTask, Task

-----------------------------------------------------------------------------
(* Types.                                                                  *)

LEMMA HoldType ==
  ASSUME TypeOK
  PROVE  /\ Hold.watched \in BOOLEAN /\ Hold.tasks \subseteq Task
         /\ Hold.resumeTask \in Task \cup {NoTask}
         /\ Hold.fault \in {"none", "exit", "freed"}
BY DEF Hold, TypeOK

LEMMA StartReadingType ==
  ASSUME TypeOK, NEW w \in BOOLEAN, NEW i \in BOOLEAN, StartReading(w, i)
  PROVE  /\ initialized' \in BOOLEAN /\ hup' \in BOOLEAN /\ watched' \in BOOLEAN
         /\ state' \in {"IDLE", "PLAYING", "THROTTLE"}
         /\ resumeTask' \in Task \cup {NoTask}
         /\ fault' \in {"none", "exit", "freed"}
BY DEF StartReading, TypeOK

LEMMA HandlePipeTypes == ASSUME TypeOK, HandlePipe PROVE TypeOK'
<1> USE DEF TypeOK
<1>0. event' \in {"none", "in", "hup"} /\ derailed' \in BOOLEAN
  BY DEF HandlePipe
<1>1. ASSUME Throttle PROVE TypeOK'
  <2>1. PICK t \in Fresh("resume") : tasks' = tasks \cup {t} /\ resumeTask' = t
    BY <1>1 DEF Throttle
  <2>2. t \in Task
    BY <2>1 DEF Fresh
  <2> QED BY <1>0, <1>1, <2>1, <2>2 DEF Throttle, fifoVars
<1>2. ASSUME ReadNothing PROVE TypeOK'
  BY <1>0, <1>2 DEF ReadNothing, fifoVars
<1>3. ASSUME NEW n \in 1..ChunkSize, ReadData(n) PROVE TypeOK'
  <2>1. data' \in 0..ChunkSize - 1
    BY <1>3, InputPipeAssumption DEF ReadData
  <2>2. tasks' \subseteq Task /\ idleTask' \in Task \cup {NoTask}
        /\ state' \in {"IDLE", "PLAYING", "THROTTLE"}
    <3>1. CASE state = "IDLE"
      BY <1>3, <3>1 DEF ReadData, Fresh
    <3>2. CASE state # "IDLE"
      BY <1>3, <3>2 DEF ReadData
    <3> QED BY <3>1, <3>2
  <2>3. AtFirstRead \in Int /\ Complete(AtFirstRead).playAt \in Int
    BY TimelineAssumption DEF AtFirstRead, Complete
  <2>4. lead' \in Int /\ sentLead' \in Int
    BY <1>3, <2>3 DEF ReadData
  <2> QED BY <1>0, <1>3, <2>1, <2>2, <2>4 DEF ReadData, fifoVars
<1> QED BY <1>1, <1>2, <1>3 DEF HandlePipe

LEMMA NextTypes == TypeOK /\ [Next]_vars => TypeOK'
<1> SUFFICES ASSUME TypeOK, [Next]_vars PROVE TypeOK'
  OBVIOUS
<1>1. CASE HandlePipe
  BY <1>1, HandlePipeTypes
<1>2. CASE HandleHup
  <2>1. 0 \in 0..ChunkSize - 1
    BY InputPipeAssumption
  <2>2. CASE clients > 0 /\ Hold.fault = "none"
    <3>1. StartReading(FALSE, FALSE)
      BY <1>2, <2>2 DEF HandleHup
    <3>2. /\ tasks' = Hold.tasks /\ idleTask' = NoTask /\ data' = 0
          /\ lead' \in Int /\ event' = "none"
          /\ UNCHANGED <<clients, writer, sentLead, derailed>>
      BY <1>2 DEF HandleHup, Uninit, FreedPlayAt, Past
    <3> QED BY <2>1, <3>1, <3>2, HoldType, StartReadingType DEF TypeOK
  <2>3. CASE ~(clients > 0 /\ Hold.fault = "none")
    <3>1. lead' \in Int /\ tasks' = Hold.tasks /\ idleTask' = NoTask /\ data' = 0
      BY <1>2 DEF HandleHup, Uninit, FreedPlayAt, Past
    <3> QED BY <1>2, <2>1, <2>3, <3>1, HoldType DEF HandleHup, TypeOK
  <2> QED BY <2>2, <2>3
<1>3. ASSUME NEW t \in tasks, RunResume(t) PROVE TypeOK'
  <2>1. CASE clients > 0 /\ state # "PLAYING"
    BY <1>3, <2>1, StartReadingType DEF RunResume, TypeOK
  <2>2. CASE ~(clients > 0 /\ state # "PLAYING")
    BY <1>3, <2>2 DEF RunResume, TypeOK
  <2> QED BY <2>1, <2>2
<1>4. ASSUME NEW t \in tasks, RunIdle(t) PROVE TypeOK'
  BY <1>4, InputPipeAssumption DEF RunIdle, TypeOK, fifoVars
<1>5. CASE ClientAdd
  <2>1. clients' \in Nat
    BY <1>5 DEF ClientAdd, TypeOK
  <2>2. CASE StartReading(watched, initialized)
    BY <1>5, <2>1, <2>2, StartReadingType DEF ClientAdd, TypeOK
  <2>3. CASE ~StartReading(watched, initialized)
    BY <1>5, <2>1, <2>3 DEF ClientAdd, TypeOK
  <2> QED BY <2>2, <2>3
<1>6. CASE ClientRemove
  <2>1. clients' \in Nat /\ 0 \in 0..ChunkSize - 1
    BY <1>6, InputPipeAssumption DEF ClientRemove, TypeOK
  <2> QED BY <1>6, <2>1, HoldType DEF ClientRemove, TypeOK, fifoVars
<1>7. CASE WriterOpen
  BY <1>7 DEF WriterOpen, TypeOK, pipeVars
<1>8. CASE WriterClose
  BY <1>8 DEF WriterClose, TypeOK, pipeVars
<1>9. CASE Tick
  BY <1>9 DEF Tick, TypeOK, Past, fifoVars
<1>10. CASE Poll
  BY <1>10 DEF Poll, TypeOK, pipeVars, fifoVars
<1>11. CASE UNCHANGED vars
  BY <1>11 DEF vars, pipeVars, fifoVars, TypeOK
<1> QED BY <1>1, <1>2, <1>3, <1>4, <1>5, <1>6, <1>7, <1>8, <1>9, <1>10, <1>11 DEF Next

-----------------------------------------------------------------------------
(* The states of the pipe, until it is derailed.                           *)

LEMMA InitTypes == Init => TypeOK
<1> SUFFICES ASSUME Init PROVE TypeOK
  OBVIOUS
<1>1. 0 \in 0..ChunkSize - 1 /\ Past \in Int
  BY InputPipeAssumption DEF Past
<1> QED BY <1>1 DEF Init, TypeOK

LEMMA InitPipe == Init => PipeInv
<1> SUFFICES ASSUME Init PROVE PipeInv
  OBVIOUS
<1>1. TypeOK
  BY InitTypes
<1> QED BY <1>1 DEF Init, PipeInv, Consistent

\* A consistent pipe, by its state.
LEMMA PipeStates ==
  ASSUME TypeOK, Consistent
  PROVE  \/ /\ state = "IDLE" /\ clients = 0 /\ ~watched /\ tasks = {} /\ resumeTask = NoTask
         \/ /\ state = "PLAYING" /\ clients > 0 /\ watched /\ initialized
            /\ tasks = {} /\ resumeTask = NoTask
         \/ /\ state = "THROTTLE" /\ clients > 0 /\ ~watched /\ initialized
            /\ tasks = {resumeTask} /\ resumeTask \in Task /\ resumeTask.kind = "resume"
<1>1. clients = 0 \/ clients > 0
  BY DEF Consistent, TypeOK
<1> QED BY <1>1 DEF Consistent, TypeOK

\* Stopping a pipe that is consistent is clean.
LEMMA HoldClean ==
  ASSUME TypeOK, Consistent
  PROVE  /\ ~Hold.watched /\ Hold.tasks = {} /\ Hold.resumeTask = NoTask
         /\ Hold.fault = "none"
<1>1. idleTask = NoTask /\ fault = "none"
  BY DEF Consistent
<1> QED BY <1>1, PipeStates, NoTaskIsNoTask DEF Hold

\* What EPOLLIN does unless it derails the pipe.
LEMMA OnRails ==
  ASSUME HandlePipe, ~derailed'
  PROVE  /\ ~derailed /\ watched
         /\ \/ lead > FullLead /\ Throttle
            \/ lead <= FullLead /\ \E n \in 1..ChunkSize : ReadData(n)
BY DEF HandlePipe

LEMMA DerailedForGood ==
  ASSUME [Next]_vars, ~derailed'
  PROVE  ~derailed
<1>1. HandlePipe => ~derailed
  BY DEF HandlePipe
<1>2. \A t \in tasks : RunResume(t) \/ RunIdle(t) => derailed' = derailed
  BY DEF RunResume, RunIdle
<1>3. Poll \/ HandleHup \/ ClientAdd \/ ClientRemove => derailed' = derailed
  BY DEF Poll, HandleHup, ClientAdd, ClientRemove
<1>4. WriterOpen \/ WriterClose \/ Tick \/ UNCHANGED vars => derailed' = derailed
  BY DEF WriterOpen, WriterClose, Tick, vars
<1> QED BY <1>1, <1>2, <1>3, <1>4 DEF Next

LEMMA NextPipe == PipeInv /\ [Next]_vars => PipeInv'
<1> SUFFICES ASSUME PipeInv, [Next]_vars, ~derailed' PROVE Consistent'
  BY NextTypes DEF PipeInv
<1>1. ~derailed
  BY DerailedForGood
<1> USE <1>1 DEF PipeInv
<1>2. idleTask = NoTask /\ fault = "none" /\ clients \in Nat
  BY DEF Consistent, TypeOK
<1>3. CASE HandlePipe
  <2>1. state = "PLAYING" /\ watched /\ clients > 0 /\ initialized /\ tasks = {}
    BY <1>3, OnRails, PipeStates
  <2>2. ASSUME Throttle PROVE Consistent'
    <3>1. PICK t \in Fresh("resume") : tasks' = tasks \cup {t} /\ resumeTask' = t
      BY <2>2 DEF Throttle
    <3>2. t \in Task /\ t.kind = "resume" /\ t # NoTask /\ tasks' = {t}
      BY <2>1, <3>1, NoTaskIsNoTask DEF Fresh
    <3> QED BY <1>2, <2>1, <2>2, <3>1, <3>2 DEF Throttle, Consistent
  <2>3. ASSUME NEW n \in 1..ChunkSize, ReadData(n) PROVE Consistent'
    <3>1. UNCHANGED <<clients, state, initialized, watched, tasks, resumeTask, idleTask, fault>>
      BY <2>1, <2>3 DEF ReadData
    <3> QED BY <3>1 DEF Consistent
  <2> QED BY <1>3, <2>2, <2>3, OnRails
<1>5. CASE HandleHup
  <2>1. tasks' = {} /\ idleTask' = NoTask /\ clients' = clients
    BY <1>5, HoldClean DEF HandleHup, Uninit
  <2>2. CASE clients > 0
    <3>1. StartReading(FALSE, FALSE)
      BY <1>5, <2>2, HoldClean DEF HandleHup
    <3> QED BY <1>2, <2>1, <2>2, <3>1 DEF StartReading, Consistent
  <2>3. CASE clients = 0
    <3>1. ~watched' /\ state' = "IDLE" /\ resumeTask' = NoTask /\ fault' = "none"
      BY <1>2, <1>5, <2>3, HoldClean DEF HandleHup
    <3> QED BY <2>1, <2>3, <3>1 DEF Consistent
  <2> QED BY <1>2, <2>2, <2>3
<1>6. ASSUME NEW t \in tasks, RunResume(t) PROVE Consistent'
  <2>1. state = "THROTTLE" /\ clients > 0 /\ ~watched /\ tasks = {t}
    BY <1>6, PipeStates
  <2>2. /\ StartReading(watched, initialized) /\ tasks' = {}
        /\ UNCHANGED <<clients, idleTask>>
    BY <1>6, <2>1 DEF RunResume
  <2> QED BY <1>2, <2>1, <2>2 DEF StartReading, Consistent
<1>7. ASSUME NEW t \in tasks, RunIdle(t) PROVE FALSE
  BY <1>7, PipeStates DEF RunIdle
<1>8. CASE ClientAdd
  <2>1. clients' = clients + 1 /\ idleTask' = idleTask
    BY <1>8 DEF ClientAdd
  <2>2. CASE clients = 0
    <3>1. state = "IDLE" /\ ~watched /\ tasks = {} /\ resumeTask = NoTask
      BY <2>2, PipeStates
    <3>2. StartReading(watched, initialized) /\ tasks' = {}
      BY <1>8, <2>2, <3>1 DEF ClientAdd
    <3> QED BY <1>2, <2>1, <2>2, <3>1, <3>2 DEF StartReading, Consistent
  <2>3. CASE clients # 0
    <3>1. UNCHANGED <<state, initialized, watched, tasks, resumeTask, fault>>
      BY <1>8, <2>3 DEF ClientAdd
    <3>2. clients' # 0
      BY <1>2, <2>1
    <3> QED BY <2>1, <2>3, <3>1, <3>2 DEF Consistent
  <2> QED BY <2>2, <2>3
<1>9. CASE ClientRemove
  <2>1. clients > 0 /\ clients' = clients - 1
    BY <1>9 DEF ClientRemove
  <2>2. CASE clients = 1
    <3>1. /\ ~watched' /\ tasks' = {} /\ resumeTask' = NoTask /\ fault' = "none"
          /\ state' = "IDLE" /\ idleTask' = NoTask
      BY <1>9, <2>2, HoldClean DEF ClientRemove
    <3> QED BY <2>1, <2>2, <3>1 DEF Consistent
  <2>3. CASE clients # 1
    <3>1. UNCHANGED <<state, initialized, watched, tasks, resumeTask, fault, idleTask>>
      BY <1>9, <2>3 DEF ClientRemove
    <3>2. clients' # 0 /\ clients # 0
      BY <1>2, <2>1, <2>3
    <3> QED BY <3>1, <3>2 DEF Consistent
  <2> QED BY <2>2, <2>3
<1>10. CASE Poll \/ WriterOpen \/ WriterClose \/ Tick \/ UNCHANGED vars
  <2>1. UNCHANGED <<clients, state, initialized, watched, tasks, resumeTask, idleTask, fault>>
    BY <1>10 DEF Poll, WriterOpen, WriterClose, Tick, vars, pipeVars
  <2> QED BY <2>1 DEF Consistent
<1> QED BY <1>3, <1>5, <1>6, <1>7, <1>8, <1>9, <1>10 DEF Next

(***************************************************************************)
(* States, registration, tasks and clients agree until the pipe is         *)
(* derailed.                                                               *)
(***************************************************************************)
THEOREM PipeCorrect == Spec => []PipeInv
BY InitPipe, NextPipe, PTL DEF Spec

(***************************************************************************)
(* The server neither exits nor uses a freed task because of the pipe,     *)
(* until that is derailed.                                                 *)
(***************************************************************************)
THEOREM NoFaultHolds == Spec => []NoFault
<1>1. PipeInv => NoFault
  BY DEF PipeInv, Consistent, NoFault
<1> QED BY <1>1, PipeCorrect, PTL

(***************************************************************************)
(* A stream with clients is watched or about to be, until the pipe is      *)
(* derailed.                                                               *)
(***************************************************************************)
THEOREM NoStallHolds == Spec => []NoStall
<1>1. PipeInv => NoStall
  BY PipeStates DEF PipeInv, NoStall
<1> QED BY <1>1, PipeCorrect, PTL

-----------------------------------------------------------------------------
(* The timeline.                                                           *)

\* A read puts play_at forward by a chunk at most, or restarts it.
LEMMA AtFirstReadBounds ==
  ASSUME TimelineInv, lead <= FullLead
  PROVE  /\ AtFirstRead \in Int /\ Past <= AtFirstRead
         /\ AtFirstRead + ChunkMs <= LongestLead
         /\ state # "IDLE" => AtFirstRead = lead
<1>1. lead \in Int /\ Past <= lead
  BY Leads DEF TimelineInv, TypeOK, Past
<1> QED BY <1>1, Leads, TimelineAssumption DEF AtFirstRead, Past

\* A complete chunk is neither late nor too early.
LEMMA CompleteBounds ==
  ASSUME TimelineInv, lead <= FullLead
  PROVE  /\ Complete(AtFirstRead).playAt \in Int
         /\ ShortestLead <= Complete(AtFirstRead).playAt
         /\ Complete(AtFirstRead).playAt <= LongestLead
<1> DEFINE l == AtFirstRead
<1>1. l \in Int /\ Past <= l /\ l + ChunkMs <= LongestLead
  BY AtFirstReadBounds
<1> HIDE DEF l
<1>2. Complete(l).playAt = IF l < 0 THEN ColdStartMs ELSE l + ChunkMs
  BY DEF Complete
<1>3. /\ Complete(l).playAt \in Int
      /\ ShortestLead <= Complete(l).playAt
      /\ Complete(l).playAt <= LongestLead
  BY <1>1, <1>2, Leads, TimelineAssumption
<1> QED BY <1>3 DEF l

\* A complete chunk is sent on the timeline.
LEMMA CompleteOnTimeline ==
  ASSUME TimelineInv, lead <= FullLead, ~derailed, state # "IDLE"
  PROVE  Complete(AtFirstRead) \in Emissions(0, sentLead)
<1> DEFINE l == AtFirstRead
<1>1. l = lead /\ lead \in Int /\ sentLead \in Int
  BY AtFirstReadBounds DEF TimelineInv, TypeOK
<1>2. lead = Past \/ lead = sentLead
  BY DEF TimelineInv
<1>3. ColdStartMs = 0 + ColdStartMs
  BY TimelineAssumption
<1> HIDE DEF l
<1>4. ASSUME l < 0 PROVE Complete(l) \in Emissions(0, sentLead)
  <2>1. Complete(l) = [playAt |-> ColdStartMs, reset |-> TRUE]
    BY <1>4, Zenon DEF Complete
  <2>2. Complete(l) = [playAt |-> 0 + ColdStartMs, reset |-> TRUE]
    BY ONLY <2>1, <1>3, Zenon
  <2> QED BY <2>2, Zenon DEF Emissions
<1>5. ASSUME ~(l < 0) PROVE Complete(l) \in Emissions(0, sentLead)
  <2>1. sentLead = l
    BY <1>1, <1>2, <1>5 DEF Past
  <2>2. Complete(l) = [playAt |-> l + ChunkMs, reset |-> FALSE]
    <3>1. (l < 0) = FALSE
      BY <1>5
    <3>2. (IF l < 0 THEN ColdStartMs ELSE l + ChunkMs) = l + ChunkMs
      BY <1>5
    <3> QED BY <3>1, <3>2, Zenon DEF Complete
  <2>3. 0 <= sentLead /\ sentLead <= 0 + FullLead
    BY <1>1, <1>5, <2>1, Leads
  <2>4. Complete(l) = [playAt |-> sentLead + ChunkMs, reset |-> FALSE]
    BY ONLY <2>1, <2>2, Zenon
  <2> QED BY <2>3, <2>4, Zenon DEF Emissions
<1>6. Complete(l) \in Emissions(0, sentLead)
  BY <1>4, <1>5
<1> QED BY <1>6 DEF l

LEMMA InitTimeline == Init => TimelineInv
<1> SUFFICES ASSUME Init PROVE TimelineInv
  OBVIOUS
<1>1. Past \in Past..LongestLead
  BY Leads DEF Past
<1> QED BY <1>1, InitTypes DEF Init, TimelineInv

\* Steps that read are the only ones to move play_at, apart from the clock and
\* EPOLLHUP.
LEMMA NextTimeline == PipeInv /\ TimelineInv /\ [Next]_vars => TimelineInv'
<1> SUFFICES ASSUME PipeInv, TimelineInv, [Next]_vars PROVE TimelineInv'
  OBVIOUS
<1>1. TypeOK'
  BY NextTypes DEF TimelineInv
<1>2. lead \in Past..LongestLead /\ sentLead \in Past..LongestLead
  BY DEF TimelineInv
<1>3. ~derailed' => ~derailed
  BY DerailedForGood
<1>4. ~derailed => lead \in {Past, sentLead}
  BY DEF TimelineInv
<1> SUFFICES /\ lead' \in Past..LongestLead /\ sentLead' \in Past..LongestLead
             /\ ~derailed' => lead' \in {Past, sentLead'}
  BY <1>1 DEF TimelineInv
<1>5. CASE UNCHANGED <<lead, sentLead>>
  BY <1>2, <1>3, <1>4, <1>5
<1>6. CASE Tick
  <2>1. /\ lead' = (IF lead < 0 THEN Past ELSE lead - 1)
        /\ sentLead' = (IF sentLead < 0 THEN Past ELSE sentLead - 1)
    BY <1>6 DEF Tick
  <2>2. lead' \in Past..LongestLead /\ sentLead' \in Past..LongestLead
    BY <1>2, <2>1, Leads DEF Past
  <2>3. lead = Past => lead' = Past
    BY <2>1 DEF Past
  <2> QED BY <1>3, <1>4, <2>1, <2>2, <2>3
<1>7. CASE HandleHup
  <2>1. lead' = Past /\ sentLead' = sentLead
    BY <1>7 DEF HandleHup, Uninit, FreedPlayAt
  <2> QED BY <1>2, <2>1, Leads DEF Past
<1>8. ASSUME HandlePipe, lead <= FullLead, NEW n \in 1..ChunkSize, ReadData(n)
      PROVE  /\ lead' \in Past..LongestLead /\ sentLead' \in Past..LongestLead
             /\ ~derailed' => lead' \in {Past, sentLead'}
  <2>1. CASE data + n = ChunkSize
    <3>1. lead' = Complete(AtFirstRead).playAt /\ sentLead' = Complete(AtFirstRead).playAt
      BY <1>8, <2>1 DEF ReadData
    <3>2. lead' \in Past..LongestLead
      BY <1>8, <3>1, CompleteBounds, Leads DEF Past
    <3> QED BY <3>1, <3>2
  <2>2. CASE data + n # ChunkSize
    <3>1. lead' = AtFirstRead /\ sentLead' = sentLead
      BY <1>8, <2>2 DEF ReadData
    <3>2. lead' \in Past..LongestLead
      BY <1>8, <3>1, AtFirstReadBounds, Leads, TimelineAssumption DEF Past
    <3>3. ~derailed' => state = "PLAYING"
      BY <1>8, OnRails, PipeStates DEF PipeInv
    <3> QED BY <1>2, <1>3, <1>4, <1>8, <3>1, <3>2, <3>3, AtFirstReadBounds
  <2> QED BY <2>1, <2>2
<1>9. CASE HandlePipe
  BY <1>5, <1>8, <1>9 DEF HandlePipe, Throttle, ReadNothing
<1>10. ASSUME NEW t \in tasks, RunResume(t) \/ RunIdle(t)
       PROVE  UNCHANGED <<lead, sentLead>>
  BY <1>10 DEF RunResume, RunIdle
<1>11. Poll \/ ClientAdd \/ ClientRemove \/ WriterOpen \/ WriterClose \/ UNCHANGED vars
       => UNCHANGED <<lead, sentLead>>
  BY DEF Poll, ClientAdd, ClientRemove, WriterOpen, WriterClose, vars, pipeVars
<1> QED BY <1>5, <1>6, <1>7, <1>9, <1>10, <1>11 DEF Next

(***************************************************************************)
(* chunk.play_at is that of the last chunk sent, or has passed, or was     *)
(* zeroed by EPOLLHUP, until the pipe is derailed, and never further ahead *)
(* than the longest lead.                                                  *)
(***************************************************************************)
THEOREM TimelineCorrect == Spec => []TimelineInv
BY InitTimeline, NextTimeline, PipeCorrect, PTL DEF Spec

\* A chunk is sent by a read only.
LEMMA NextSends ==
  PipeInv /\ TimelineInv /\ [Next]_vars
  => [out' # NoChunk /\ ~derailed' => out' \in Emissions(0, sentLead)]_vars
<1> SUFFICES ASSUME PipeInv, TimelineInv, Next, out' # NoChunk, ~derailed'
             PROVE  out' \in Emissions(0, sentLead)
  OBVIOUS
<1>1. HandlePipe
  BY DEF Next, Poll, HandleHup, RunResume, RunIdle, ClientAdd, ClientRemove, WriterOpen,
         WriterClose, Tick
<1>2. ~Throttle
  BY DEF Throttle
<1>3. lead <= FullLead
  BY <1>1, <1>2, OnRails
<1>4. PICK n \in 1..ChunkSize : ReadData(n)
  BY <1>1, <1>2, OnRails
<1>5. out' = Complete(AtFirstRead)
  BY <1>4 DEF ReadData
<1>6. ~derailed /\ state # "IDLE"
  BY <1>1, OnRails, PipeStates DEF PipeInv
<1> QED BY <1>3, <1>5, <1>6, CompleteOnTimeline

(***************************************************************************)
(* What IntercomClient assumes of the chunks that are sent.                *)
(***************************************************************************)
THEOREM SendsOnTimelineHolds == Spec => SendsOnTimeline
BY TimelineCorrect, PipeCorrect, NextSends, PTL DEF Spec, SendsOnTimeline

-----------------------------------------------------------------------------
(***************************************************************************)
(* No chunk is sent more than bufferms ahead of the clock if the buffer    *)
(* holds 40 chunks (2.5 % of it per chunk) and a cold start.  Then a       *)
(* packet is in the server's store until it has been played                *)
(* (PlayableIsKept of PacketBuffer_proofs).                                *)
(***************************************************************************)
THEOREM LongestLeadFits ==
  ASSUME 40 * ChunkMs <= BufferMs, ColdStartMs + ChunkMs <= BufferMs
  PROVE  LongestLead <= BufferMs
<1>1. BufferMs \in Nat /\ ChunkMs \in Nat /\ ColdStartMs \in Nat
  BY TimelineAssumption
<1>2. FullLead \in Nat /\ 100 * FullLead <= 95 * BufferMs
  BY <1>1 DEF FullLead
<1>3. FullLead + 2 * ChunkMs <= BufferMs
  BY ONLY <1>1, <1>2, 40 * ChunkMs <= BufferMs
<1> QED BY <1>1, <1>2, <1>3 DEF LongestLead
=============================================================================
