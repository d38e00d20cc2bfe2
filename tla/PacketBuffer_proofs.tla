------------------------ MODULE PacketBuffer_proofs ------------------------
(***************************************************************************)
(* Proofs about the server's retransmission store, for every bufferms,     *)
(* every lead and every lateness of the main loop within the lead.         *)
(***************************************************************************)
EXTENDS PacketBuffer, SequenceTheorems, TLAPS

USE DEF Backlog

\* The typing facts the steps below use.
LEMMA Basics ==
  ASSUME PairingInv
  PROVE  /\ now \in Nat /\ nonce \in Nat
         /\ buffer \in Seq(Packet) /\ tasks \in Seq(Task)
         /\ Len(buffer) \in Nat /\ Len(tasks) \in Nat /\ Len(tasks) <= Len(buffer)
         /\ \A i \in 1..Len(buffer) : buffer[i].playAt \in Int
         /\ \A i \in 1..Len(tasks) : tasks[i].due \in Int
<1>1. /\ now \in Nat /\ nonce \in Nat
      /\ buffer \in Seq(Packet) /\ tasks \in Seq(Task)
      /\ Len(tasks) <= Len(buffer)
  BY DEF PairingInv, TypeOK, TasksMatchBuffer
<1>2. Len(buffer) \in Nat /\ Len(tasks) \in Nat
  BY <1>1, LenProperties
<1>3. ASSUME NEW i \in 1..Len(buffer) PROVE buffer[i].playAt \in Int
  <2>1. buffer[i] \in Packet
    BY <1>1, ElementOfSeq
  <2> QED BY <2>1 DEF Packet
<1>4. ASSUME NEW i \in 1..Len(tasks) PROVE tasks[i].due \in Int
  <2>1. tasks[i] \in Task
    BY <1>1, ElementOfSeq
  <2> QED BY <2>1 DEF Task
<1> QED BY <1>1, <1>2, <1>3, <1>4

(***************************************************************************)
(* The loop of remove_old_audiodata_task stops at the packet the task was  *)
(* posted for at the latest, since that packet is not outdated.            *)
(***************************************************************************)
LEMMA StopsAtOwnPacket ==
  ASSUME PairingInv, tasks # <<>>,
         NEW k \in 1..Len(buffer),
         \A j \in 1..k-1 : Outdated(buffer[j])
  PROVE  k <= Backlog + 1
<1>1. /\ Len(tasks) \in Nat /\ Len(buffer) \in Nat /\ now \in Nat
      /\ Len(tasks) <= Len(buffer) /\ tasks \in Seq(Task)
      /\ \A i \in 1..Len(buffer) : buffer[i].playAt \in Int
      /\ \A i \in 1..Len(tasks) : tasks[i].due \in Int
  BY Basics
<1>a. 1 <= Len(tasks)
  BY <1>1, EmptySeq
<1> DEFINE own == Backlog + 1
<1>2. own \in 1..Len(buffer) /\ 1 \in 1..Len(tasks)
  BY <1>1, <1>a
<1>3. buffer[own].playAt \in Int /\ tasks[1].due \in Int
  BY <1>1, <1>2
<1>4. tasks[1].due - BufferMs + MinLead <= buffer[own].playAt
  BY <1>2 DEF PairingInv, LeadKept
<1>5. now <= tasks[1].due + MaxLate /\ BufferMs <= now
  BY DEF PairingInv, TasksInOrder
<1>6. ~Outdated(buffer[own])
  <2> HIDE DEF own
  <2>1. now - BufferMs <= buffer[own].playAt
    <3>1. /\ now \in Nat /\ BufferMs \in Nat /\ MinLead \in Nat /\ MaxLate \in Nat
          /\ MaxLate <= MinLead
      BY <1>1, PacketBufferAssumption, PunctualAssumption
    <3> DEFINE x == buffer[own].playAt
               d == tasks[1].due
    <3>2. /\ x \in Int /\ d \in Int /\ (d - BufferMs) + MinLead <= x
          /\ now <= d + MaxLate
      BY <1>3, <1>4, <1>5
    <3> HIDE DEF x, d
    <3>3. now - BufferMs <= x
      BY ONLY <3>1, <3>2
    <3> QED BY <3>3 DEF x
  <2>2. TimeSubMs(now, BufferMs) = now - BufferMs
    BY <1>1, <1>5, PacketBufferAssumption DEF TimeSubMs
  <2> QED BY <1>1, <1>3, <2>1, <2>2, PacketBufferAssumption DEF Outdated
<1>7. ASSUME ~(k <= own) PROVE FALSE
  <2>1. own \in 1..k-1
    BY <1>1, <1>2, <1>7
  <2> QED BY <2>1, <1>6
<1> QED BY <1>7

\* Dropping the first k elements of a sequence.
LEMMA DropFirst ==
  ASSUME NEW S, NEW s \in Seq(S), NEW k \in Nat, k <= Len(s)
  PROVE  /\ SubSeq(s, k+1, Len(s)) \in Seq(S)
         /\ Len(SubSeq(s, k+1, Len(s))) = Len(s) - k
         /\ \A i \in 1..Len(s) - k : SubSeq(s, k+1, Len(s))[i] = s[i+k]
<1>1. Len(s) \in Nat
  BY LenProperties
<1>2. k+1 \in 1..Len(s)+1
  BY <1>1
<1> DEFINE d == SubSeq(s, k+1, Len(s))
<1>3. /\ d \in Seq(S)
      /\ Len(d) = IF k+1 <= Len(s) THEN Len(s) - (k+1) + 1 ELSE 0
      /\ \A i \in 1..Len(s) - (k+1) + 1 : d[i] = s[(k+1)+i-1]
  BY <1>1, <1>2, SubSeqProperties
<1> HIDE DEF d
<1>4. Len(d) = Len(s) - k
  BY <1>1, <1>3
<1>5. ASSUME NEW i \in 1..Len(s) - k PROVE d[i] = s[i+k]
  <2>1. i \in 1..Len(s) - (k+1) + 1 /\ (k+1)+i-1 = i+k
    BY <1>1
  <2> QED BY <2>1, <1>3
<1> QED BY <1>3, <1>4, <1>5 DEF d

\* What an expiring task does to the two sequences: one task and k packets go
\* from the front, no packet of another pending task among them, and at least
\* one if there is a client.
LEMMA RemoveShifts ==
  ASSUME PairingInv, RemoveOldAudiodata
  PROVE  /\ tasks' \in Seq(Task) /\ Len(tasks') = Len(tasks) - 1 /\ 1 <= Len(tasks)
         /\ \A i \in 1..Len(tasks') : tasks'[i] = tasks[i+1]
         /\ \E k \in 0..Backlog+1 :
              /\ clients # {} => k >= 1
              /\ k >= 1 => (k = Len(buffer) \/ ~Outdated(buffer[k]))
              /\ buffer' \in Seq(Packet) /\ Len(buffer') = Len(buffer) - k
              /\ \A i \in 1..Len(buffer') : buffer'[i] = buffer[i+k]
<1>1. /\ tasks \in Seq(Task) /\ buffer \in Seq(Packet)
      /\ Len(tasks) \in Nat /\ Len(buffer) \in Nat /\ Len(tasks) <= Len(buffer)
  BY Basics
<1>a. tasks # <<>> /\ tasks' = Tail(tasks)
  BY DEF RemoveOldAudiodata
<1>b. 1 <= Len(tasks)
  BY <1>1, <1>a, EmptySeq
<1>2. /\ tasks' \in Seq(Task) /\ Len(tasks') = Len(tasks) - 1
      /\ \A i \in 1..Len(tasks') : tasks'[i] = tasks[i+1]
  BY <1>1, <1>a, HeadTailProperties
<1>3. CASE clients = {}
  <2>1. buffer' = buffer
    BY <1>3 DEF RemoveOldAudiodata
  <2>2. 0 \in 0..Backlog+1
    BY <1>1
  <2> QED BY <1>1, <1>b, <1>2, <1>3, <2>1, <2>2
<1>4. CASE clients # {}
  <2>1. buffer # <<>>
    BY <1>1, <1>b, EmptySeq
  <2>2. PICK k \in 1..Len(buffer) :
          /\ \A j \in 1..k-1 : Outdated(buffer[j])
          /\ k = Len(buffer) \/ ~Outdated(buffer[k])
          /\ buffer' = SubSeq(buffer, k+1, Len(buffer))
    BY <1>4, <2>1 DEF RemoveOldAudiodata
  <2>a. k <= Backlog + 1
    BY <1>a, <2>2, StopsAtOwnPacket
  <2>3. k \in 0..Backlog+1
    BY <1>1, <2>a
  <2>4. k+1 \in 1..Len(buffer)+1
    BY <1>1
  <2>5. /\ buffer' \in Seq(Packet)
        /\ Len(buffer') = Len(buffer) - k
        /\ \A i \in 1..Len(buffer) - k : buffer'[i] = buffer[i+k]
    BY <1>1, <2>2, <2>4, DropFirst
  <2>6. k >= 1 /\ \A i \in 1..Len(buffer') : buffer'[i] = buffer[i+k]
    BY <2>5, <1>1
  <2> QED BY <1>b, <1>2, <2>2, <2>3, <2>5, <2>6
<1> QED BY <1>3, <1>4

-----------------------------------------------------------------------------
THEOREM InitPairing == Init => PairingInv
BY PacketBufferAssumption
   DEF Init, PairingInv, TypeOK, NoPacket, TasksMatchBuffer, LeadKept,
       TasksInOrder

LEMMA SendPairing == PairingInv /\ SendAudio => PairingInv'
<1> SUFFICES ASSUME PairingInv, SendAudio PROVE PairingInv'
  OBVIOUS
<1>1. PICK p \in now + MinLead .. now + MaxLead :
        buffer' = Append(buffer, [id |-> nonce, playAt |-> p])
  BY DEF SendAudio
<1> DEFINE np == [id |-> nonce, playAt |-> p]
           nt == [due |-> now + BufferMs, id |-> nonce]
           B == Len(buffer)
           T == Len(tasks)
<1>2. /\ now \in Nat /\ nonce \in Nat
      /\ buffer \in Seq(Packet) /\ tasks \in Seq(Task)
      /\ B \in Nat /\ T \in Nat /\ T <= B
      /\ \A i \in 1..B : buffer[i].playAt \in Int
      /\ \A i \in 1..T : tasks[i].due \in Int
  BY Basics
<1>c. BufferMs \in Nat /\ MinLead \in Nat /\ MaxLate \in Nat /\ MaxLead \in Nat
  BY PacketBufferAssumption
<1>p. p \in Int /\ now + MinLead <= p
  BY <1>2, <1>c
<1>u. /\ now' = now /\ clients' = clients /\ answer' = answer /\ nonce' = nonce + 1
      /\ tasks' = Append(tasks, nt)
  BY DEF SendAudio
<1>3. np \in Packet /\ nt \in Task
  BY <1>2, <1>c, <1>p DEF Packet, Task
<1>6. np.id = nonce /\ np.playAt = p /\ nt.id = nonce /\ nt.due = now + BufferMs
  OBVIOUS
<1> HIDE DEF np, nt
<1>4. /\ buffer' \in Seq(Packet) /\ Len(buffer') = B + 1
      /\ \A i \in 1..B : buffer'[i] = buffer[i]
      /\ buffer'[B + 1] = np
  BY <1>1, <1>2, <1>3, AppendProperties DEF np
<1>5. /\ tasks' \in Seq(Task) /\ Len(tasks') = T + 1
      /\ \A i \in 1..T : tasks'[i] = tasks[i]
      /\ tasks'[T + 1] = nt
  BY <1>2, <1>3, <1>u, AppendProperties
<1> HIDE DEF B, T
<1>o. /\ \A i \in 1..T : tasks[i].due <= now + BufferMs
      /\ \A i, j \in 1..T : i <= j => tasks[i].due <= tasks[j].due
      /\ \A i \in 1..T : tasks[i].id = buffer[B - T + i].id
      /\ \A i \in 1..T : tasks[i].due - BufferMs + MinLead <= buffer[B - T + i].playAt
  BY DEF B, T, PairingInv, TasksInOrder, TasksMatchBuffer, LeadKept
<1>7. TypeOK'
  BY <1>1, <1>2, <1>p, <1>u, <1>4, <1>5 DEF PairingInv, TypeOK
<1>s. /\ Backlog' = B - T
      /\ \A i \in 1..Len(tasks') : i \in 1..T \/ i = T + 1
      /\ \A i \in 1..Len(buffer') : i \in 1..B \/ i = B + 1
      /\ \A i \in 1..T : B - T + i \in 1..B
      /\ B - T + (T + 1) = B + 1
  <2>1. Len(buffer') = B + 1 /\ Len(tasks') = T + 1 /\ B \in Nat /\ T \in Nat /\ T <= B
    BY <1>2, <1>4, <1>5
  <2>2. Backlog' = B - T
    BY <2>1 DEF Backlog
  <2> QED BY ONLY <2>1, <2>2
<1>8. TasksMatchBuffer'
  <2>1. ASSUME NEW i \in 1..Len(tasks')
        PROVE  tasks'[i].id = buffer'[B - T + i].id
    <3>1. CASE i \in 1..T
      BY <3>1, <1>s, <1>o, <1>4, <1>5
    <3>2. CASE i = T + 1
      BY <3>2, <1>s, <1>4, <1>5, <1>6
    <3> QED BY <3>1, <3>2, <1>s
  <2>2. Len(tasks') <= Len(buffer')
    BY <1>2, <1>4, <1>5
  <2>3. \A i \in 1..Len(tasks') : tasks'[i].id = buffer'[Backlog' + i].id
    BY <2>1, <1>s
  <2> HIDE DEF Backlog
  <2> QED BY <2>2, <2>3 DEF TasksMatchBuffer
<1>9. LeadKept'
  <2>1. ASSUME NEW i \in 1..Len(tasks')
        PROVE  tasks'[i].due - BufferMs + MinLead <= buffer'[B - T + i].playAt
    <3>1. CASE i \in 1..T
      <4>1. tasks'[i] = tasks[i] /\ buffer'[B - T + i] = buffer[B - T + i]
        BY <3>1, <1>s, <1>4, <1>5
      <4> QED BY ONLY <3>1, <4>1, <1>o
    <3>2. CASE i = T + 1
      <4>1. tasks'[i] = nt /\ buffer'[B - T + i] = np
        BY <3>2, <1>s, <1>4, <1>5
      <4> QED BY <4>1, <1>6, <1>2, <1>c, <1>p
    <3> QED BY <3>1, <3>2, <1>s
  <2> QED BY <2>1, <1>s DEF LeadKept
<1>10. TasksInOrder'
  <2>1. ASSUME NEW i \in 1..Len(tasks') PROVE tasks'[i].due <= now + BufferMs
    <3>1. CASE i \in 1..T
      BY <3>1, <1>o, <1>5
    <3>2. CASE i = T + 1
      BY <3>2, <1>5, <1>6, <1>2, <1>c
    <3> QED BY <3>1, <3>2, <1>s
  <2>2. ASSUME NEW i \in 1..Len(tasks'), NEW j \in 1..Len(tasks'), i <= j
        PROVE  tasks'[i].due <= tasks'[j].due
    <3>1. CASE j \in 1..T
      <4>1. i \in 1..T
        BY <3>1, <2>2, <1>2, <1>5
      <4> QED BY <3>1, <4>1, <2>2, <1>o, <1>5
    <3>2. CASE j = T + 1
      <4>1. tasks'[j].due = now + BufferMs
        BY <3>2, <1>5, <1>6
      <4> QED BY <4>1, <2>1
    <3> QED BY <3>1, <3>2, <1>s
  <2>4. now <= tasks'[1].due + MaxLate
    <3>1. CASE T = 0
      <4>1. tasks'[1] = nt
        BY <3>1, <1>5
      <4> QED BY <4>1, <1>6, <1>2, <1>c
    <3>2. CASE T # 0
      <4>1. 1 \in 1..T /\ tasks # <<>>
        BY <3>2, <1>2, EmptySeq DEF T
      <4>2. tasks'[1] = tasks[1]
        BY <4>1, <1>5
      <4> QED BY <4>1, <4>2 DEF PairingInv, TasksInOrder
    <3> QED BY <3>1, <3>2
  <2> QED BY <2>1, <2>2, <2>4, <1>u DEF TasksInOrder
<1>12. (BufferMs <= now)'
  BY <1>u DEF PairingInv
<1> QED BY <1>7, <1>8, <1>9, <1>10, <1>12 DEF PairingInv

LEMMA RemovePairing == PairingInv /\ RemoveOldAudiodata => PairingInv'
<1> SUFFICES ASSUME PairingInv, RemoveOldAudiodata PROVE PairingInv'
  OBVIOUS
<1> DEFINE B == Len(buffer)
           T == Len(tasks)
<1>1. /\ now \in Nat /\ B \in Nat /\ T \in Nat /\ T <= B
      /\ \A i \in 1..B : buffer[i].playAt \in Int
      /\ \A i \in 1..T : tasks[i].due \in Int
  BY Basics
<1>c. BufferMs \in Nat /\ MaxLate \in Nat
  BY PacketBufferAssumption
<1>u. /\ now' = now /\ nonce' = nonce /\ clients' = clients
      /\ answer' = answer
  BY DEF RemoveOldAudiodata
<1>3. /\ tasks' \in Seq(Task) /\ Len(tasks') = T - 1 /\ 1 <= T
      /\ \A i \in 1..Len(tasks') : tasks'[i] = tasks[i+1]
  BY RemoveShifts
<1>4. PICK k \in 0..(B-T)+1 :
        /\ buffer' \in Seq(Packet) /\ Len(buffer') = B - k
        /\ \A i \in 1..Len(buffer') : buffer'[i] = buffer[i+k]
  BY RemoveShifts
<1>o. /\ \A i \in 1..T : tasks[i].due <= now + BufferMs
      /\ \A i, j \in 1..T : i <= j => tasks[i].due <= tasks[j].due
      /\ tasks # <<>> => now <= tasks[1].due + MaxLate
      /\ \A i \in 1..T : tasks[i].id = buffer[B - T + i].id
      /\ \A i \in 1..T : tasks[i].due - BufferMs + MinLead <= buffer[B - T + i].playAt
  BY DEF PairingInv, TasksInOrder, TasksMatchBuffer, LeadKept
<1>n. tasks # <<>>
  BY DEF RemoveOldAudiodata
<1>t. TypeOK'
  BY <1>u, <1>3, <1>4 DEF PairingInv, TypeOK
<1>s. Backlog' = (B - k) - (T - 1)
  BY <1>3, <1>4
<1> HIDE DEF B, T
<1>d. /\ \A i \in 1..Len(tasks') : i+1 \in 1..T
      /\ \A i \in 1..Len(buffer') : i+k \in 1..B
  <2>1. /\ B \in Nat /\ T \in Nat /\ k \in Nat
        /\ Len(tasks') = T - 1 /\ Len(buffer') = B - k
    BY <1>1, <1>3, <1>4
  <2>2. \A i \in 1..T-1 : i+1 \in 1..T
    BY ONLY <2>1
  <2>3. \A i \in 1..B-k : i+k \in 1..B
    BY ONLY <2>1
  <2> QED BY ONLY <2>1, <2>2, <2>3
<1>5. TasksInOrder'
  <2>1. ASSUME NEW i \in 1..Len(tasks') PROVE tasks'[i].due <= now + BufferMs
    BY <1>d, <1>3, <1>o
  <2>2. ASSUME NEW i \in 1..Len(tasks'), NEW j \in 1..Len(tasks'), i <= j
        PROVE  tasks'[i].due <= tasks'[j].due
    <3>1. i+1 <= j+1
      BY <2>2, <1>3, <1>1
    <3> QED BY <3>1, <1>d, <1>3, <1>o
  <2>3. ASSUME tasks' # <<>> PROVE now <= tasks'[1].due + MaxLate
    <3>1. 1 \in 1..Len(tasks') /\ 1 \in 1..T /\ 1+1 \in 1..T
      BY <2>3, <1>3, <1>d, <1>1, EmptySeq
    <3>2. tasks'[1] = tasks[1+1] /\ tasks[1].due <= tasks[1+1].due
      BY <3>1, <1>3, <1>o
    <3>3. tasks[1].due \in Int /\ tasks[1+1].due \in Int
      BY <3>1, <1>1
    <3> QED BY <3>2, <3>3, <1>o, <1>n, <1>1, <1>c
  <2> QED BY <2>1, <2>2, <2>3, <1>u DEF TasksInOrder
<1>6. ASSUME NEW i \in 1..Len(tasks')
      PROVE  buffer'[Backlog' + i] = buffer[B - T + (i+1)]
  <2>1. /\ Backlog' + i \in 1..Len(buffer')
        /\ (Backlog' + i) + k = B - T + (i+1)
    BY <1>1, <1>3, <1>4, <1>s
  <2>2. buffer'[Backlog' + i] = buffer[(Backlog' + i) + k]
    BY <2>1, <1>4
  <2> QED BY <2>1, <2>2
<1>7. TasksMatchBuffer'
  <2>1. ASSUME NEW i \in 1..Len(tasks')
        PROVE  tasks'[i].id = buffer'[Backlog' + i].id
    BY <1>6, <1>d, <1>3, <1>o
  <2>2. Len(tasks') <= Len(buffer')
    BY <1>1, <1>3, <1>4
  <2> QED BY <2>1, <2>2 DEF TasksMatchBuffer
<1>8. LeadKept'
  <2>1. ASSUME NEW i \in 1..Len(tasks')
        PROVE  tasks'[i].due - BufferMs + MinLead <= buffer'[Backlog' + i].playAt
    BY <1>6, <1>d, <1>3, <1>o
  <2> QED BY <2>1 DEF LeadKept
<1>12. (BufferMs <= now)'
  BY <1>u DEF PairingInv
<1> QED BY <1>t, <1>5, <1>7, <1>8, <1>12 DEF PairingInv

\* A step that leaves the store, the tasks and the clock alone.
LEMMA QuietPairing ==
  ASSUME PairingInv, UNCHANGED <<now, nonce, buffer, tasks>>, TypeOK'
  PROVE  PairingInv'
BY DEF PairingInv, TasksMatchBuffer, LeadKept, TasksInOrder

LEMMA TickPairing == PairingInv /\ Tick => PairingInv'
<1> SUFFICES ASSUME PairingInv, Tick PROVE PairingInv'
  OBVIOUS
<1>1. now \in Nat /\ \A i \in 1..Len(tasks) : tasks[i].due \in Int
  BY Basics
<1>2. tasks \in Seq(Task) /\ Len(tasks) \in Nat
  BY Basics
<1>c. BufferMs \in Nat /\ MaxLate \in Nat
  BY PacketBufferAssumption
<1>u. /\ now' = now + 1 /\ nonce' = nonce /\ buffer' = buffer /\ tasks' = tasks
      /\ clients' = clients /\ answer' = answer
  BY DEF Tick
<1>3. TypeOK'
  BY <1>1, <1>u DEF PairingInv, TypeOK
<1>4. TasksInOrder'
  <2>1. ASSUME tasks # <<>> PROVE now + 1 <= tasks[1].due + MaxLate
    <3>1. 1 \in 1..Len(tasks)
      BY <2>1, <1>2, EmptySeq
    <3>2. now < tasks[1].due + MaxLate
      BY <2>1 DEF Tick
    <3> QED BY <3>1, <3>2, <1>1, <1>c
  <2>2. \A i \in 1..Len(tasks) : tasks[i].due <= now + 1 + BufferMs
    BY <1>1, <1>c DEF PairingInv, TasksInOrder
  <2> QED BY <2>1, <2>2, <1>u DEF PairingInv, TasksInOrder
<1>5. BufferMs <= now + 1
  BY <1>1, <1>c DEF PairingInv
<1> QED BY <1>u, <1>3, <1>4, <1>5
        DEF PairingInv, TasksMatchBuffer, LeadKept

LEMMA RequestAnswerType ==
  ASSUME PairingInv, NEW c, NEW n, HandleRequest(c, n)
  PROVE  TypeOK'
<1>1. CASE answer' = NoPacket
  BY <1>1 DEF PairingInv, TypeOK, HandleRequest
<1>2. ASSUME NEW j \in 1..Len(buffer), answer' = buffer[j].id PROVE TypeOK'
  <2>1. buffer \in Seq(Packet)
    BY Basics
  <2>2. buffer[j] \in Packet
    BY <2>1, ElementOfSeq
  <2>3. buffer[j].id \in Nat
    BY <2>2 DEF Packet
  <2> QED BY <1>2, <2>3 DEF PairingInv, TypeOK, HandleRequest
<1>3. answer' = NoPacket \/ \E j \in 1..Len(buffer) : answer' = buffer[j].id
  BY DEF HandleRequest
<1> QED BY <1>1, <1>2, <1>3

LEMMA NextPairing == PairingInv /\ [Next]_vars => PairingInv'
<1> SUFFICES ASSUME PairingInv, [Next]_vars PROVE PairingInv'
  OBVIOUS
<1>1. CASE SendAudio
  BY <1>1, SendPairing
<1>2. CASE RemoveOldAudiodata
  BY <1>2, RemovePairing
<1>3. ASSUME NEW c \in Clients, ClientAdd(c) \/ ClientRemove(c) PROVE PairingInv'
  <2>1. TypeOK'
    BY <1>3 DEF ClientAdd, ClientRemove, PairingInv, TypeOK
  <2> QED BY <1>3, <2>1, QuietPairing DEF ClientAdd, ClientRemove
<1>4. ASSUME NEW c \in Clients, NEW id \in 0..nonce, HandleRequest(c, Nonce(id))
      PROVE  PairingInv'
  <2>1. TypeOK'
    BY <1>4, RequestAnswerType
  <2> QED BY <1>4, <2>1, QuietPairing DEF HandleRequest
<1>5. CASE Tick
  BY <1>5, TickPairing
<1>6. CASE UNCHANGED vars
  <2>1. TypeOK'
    BY <1>6 DEF vars, PairingInv, TypeOK
  <2> QED BY <1>6, <2>1, QuietPairing DEF vars
<1> QED BY <1>1, <1>2, <1>3, <1>4, <1>5, <1>6 DEF Next

(***************************************************************************)
(* Tasks and packets of the store stay paired off in every reachable       *)
(* state.                                                                  *)
(***************************************************************************)
THEOREM PairingCorrect == Spec => []PairingInv
BY InitPairing, NextPairing, PTL DEF Spec

(***************************************************************************)
(* No packet is dropped from the retransmission store before the task that *)
(* was posted for it has fired, whatever clients come and go.              *)
(***************************************************************************)
THEOREM RetainedUntilTimeoutHolds == Spec => []RetainedUntilTimeout
<1>1. PairingInv => RetainedUntilTimeout
  <2> SUFFICES ASSUME PairingInv, NEW i \in DOMAIN tasks
               PROVE  \E j \in DOMAIN buffer : buffer[j].id = tasks[i].id
    BY DEF RetainedUntilTimeout
  <2>1. i \in 1..Len(tasks) /\ Len(tasks) \in Nat /\ Len(buffer) \in Nat
    BY DEF PairingInv, TypeOK
  <2>2. Backlog + i \in DOMAIN buffer
    BY <2>1 DEF PairingInv, TypeOK, TasksMatchBuffer
  <2> QED BY <2>1, <2>2 DEF PairingInv, TasksMatchBuffer
<1> QED BY <1>1, PairingCorrect, PTL

\* Every other action leaves the store at least as long as it was, and moves
\* neither a task nor a packet except to add one of each.
LEMMA OnlyRemoveShortens ==
  ASSUME PairingInv, [Next]_vars, ~RemoveOldAudiodata
  PROVE  /\ Len(buffer) <= Len(buffer')
         /\ Backlog' = Backlog
<1>1. Len(buffer) \in Nat /\ Len(tasks) \in Nat /\ buffer \in Seq(Packet)
      /\ tasks \in Seq(Task) /\ nonce \in Nat /\ now \in Nat
  BY Basics
<1>2. CASE SendAudio
  <2>1. PICK p \in now + MinLead .. now + MaxLead :
          buffer' = Append(buffer, [id |-> nonce, playAt |-> p])
    BY <1>2 DEF SendAudio
  <2>2. p \in Int /\ BufferMs \in Nat
    BY <1>1, PacketBufferAssumption
  <2>3. [id |-> nonce, playAt |-> p] \in Packet
        /\ [due |-> now + BufferMs, id |-> nonce] \in Task
    BY <1>1, <2>2 DEF Packet, Task
  <2>4. Len(buffer') = Len(buffer) + 1
    BY <1>1, <2>1, <2>3, AppendProperties
  <2>5. Len(tasks') = Len(tasks) + 1
    BY <1>1, <1>2, <2>3, AppendProperties DEF SendAudio
  <2> QED BY <1>1, <2>4, <2>5
<1>3. CASE UNCHANGED <<buffer, tasks>>
  BY <1>1, <1>3
<1>4. SendAudio \/ UNCHANGED <<buffer, tasks>>
  BY DEF Next, ClientAdd, ClientRemove, HandleRequest, Tick, vars
<1> QED BY <1>2, <1>3, <1>4

(***************************************************************************)
(* While there is a client, no step lets the backlog of packets that lost  *)
(* their task grow.                                                        *)
(***************************************************************************)
THEOREM BacklogNeverGrowsHolds == Spec => BacklogNeverGrows
<1>1. PairingInv /\ [Next]_vars => [clients # {} => Backlog' <= Backlog]_vars
  <2> SUFFICES ASSUME PairingInv, [Next]_vars, clients # {}
               PROVE  Backlog' <= Backlog
    OBVIOUS
  <2>1. Len(buffer) \in Nat /\ Len(tasks) \in Nat
    BY Basics
  <2>2. CASE RemoveOldAudiodata
    <3>1. Len(tasks') = Len(tasks) - 1
      BY <2>2, RemoveShifts
    <3>2. PICK k \in 0..Backlog+1 : k >= 1 /\ Len(buffer') = Len(buffer) - k
      BY <2>2, RemoveShifts
    <3> QED BY <2>1, <3>1, <3>2
  <2>3. CASE ~RemoveOldAudiodata
    BY <2>1, <2>3, OnlyRemoveShortens
  <2> QED BY <2>2, <2>3
<1> QED BY <1>1, PairingCorrect, PTL DEF Spec, BacklogNeverGrows

(***************************************************************************)
(* A task that removes packets leaves one behind that was to be played     *)
(* more than bufferms ago only where the timeline had gone back.           *)
(***************************************************************************)
THEOREM FlushCompleteHolds == Spec => FlushComplete
<1>1. ASSUME PairingInv, [Next]_vars, Len(buffer') < Len(buffer),
             NEW j \in 1..Len(buffer'), Outdated(buffer'[j])
      PROVE  \E i \in 1..Len(buffer) - Len(buffer') : buffer'[j].playAt < buffer[i].playAt
  <2>1. /\ Len(buffer) \in Nat /\ now \in Nat
        /\ \A i \in 1..Len(buffer) : buffer[i].playAt \in Int
    BY <1>1, Basics
  <2>2. RemoveOldAudiodata
    <3> SUFFICES ASSUME ~RemoveOldAudiodata PROVE FALSE
      OBVIOUS
    <3>1. Len(buffer) <= Len(buffer')
      BY <1>1, OnlyRemoveShortens
    <3>2. Len(buffer') \in Nat
      <4>1. PairingInv'
        BY <1>1, NextPairing
      <4> QED BY <4>1, LenProperties DEF PairingInv, TypeOK
    <3> QED BY <3>1, <3>2, <2>1, <1>1
  <2>3. PICK k \in 0..Backlog+1 :
          /\ k >= 1 => (k = Len(buffer) \/ ~Outdated(buffer[k]))
          /\ Len(buffer') = Len(buffer) - k
          /\ \A i \in 1..Len(buffer') : buffer'[i] = buffer[i+k]
    BY <1>1, <2>2, RemoveShifts
  <2>4. /\ k >= 1 /\ k # Len(buffer) /\ k \in 1..Len(buffer)
        /\ j+k \in 1..Len(buffer) /\ k <= j+k
    BY <1>1, <2>1, <2>3
  <2>5. buffer'[j] = buffer[j+k] /\ ~Outdated(buffer[k])
    BY <1>1, <2>3, <2>4
  <2>6. buffer[k].playAt \in Int /\ buffer[j+k].playAt \in Int
    BY <2>1, <2>4
  <2>7. TimeSubMs(now, BufferMs) \in Int
    BY <2>1, PacketBufferAssumption DEF TimeSubMs
  <2>8. buffer[j+k].playAt < buffer[k].playAt
    BY <1>1, <2>5, <2>6, <2>7 DEF Outdated
  <2>9. k \in 1..Len(buffer) - Len(buffer')
    BY <2>1, <2>3, <2>4
  <2> QED BY <2>5, <2>8, <2>9
<1>2. PairingInv /\ [Next]_vars =>
        [\A j \in 1..Len(buffer') :
           Len(buffer') < Len(buffer) /\ Outdated(buffer'[j]) =>
             \E i \in 1..Len(buffer) - Len(buffer') :
               buffer'[j].playAt < buffer[i].playAt]_vars
  BY <1>1
<1> QED BY <1>2, PairingCorrect, PTL DEF Spec, FlushComplete

-----------------------------------------------------------------------------
(***************************************************************************)
(* The packets of the store are the last ones that were sent, one after    *)
(* the other: packets enter at the back and leave at the front only.       *)
(***************************************************************************)
Consecutive ==
  /\ Len(buffer) <= nonce
  /\ \A i \in 1..Len(buffer) : buffer[i].id = (nonce - Len(buffer)) + (i - 1)

\* a % n, and its quotient.
LEMMA DivMod ==
  ASSUME NEW a \in Nat, NEW n \in Nat \ {0}
  PROVE  a % n = a - n * (a \div n) /\ a \div n \in Int
OBVIOUS

LEMMA Multiple ==
  ASSUME NEW n \in Nat \ {0}, NEW q \in Int, q >= 1
  PROVE  n * q >= n
OBVIOUS

\* Two numbers less than n apart have different residues.
LEMMA ResiduesDiffer ==
  ASSUME NEW n \in Nat \ {0}, NEW a \in Nat, NEW b \in Nat,
         a < b, b - a < n
  PROVE  a % n # b % n
<1> SUFFICES ASSUME a % n = b % n PROVE FALSE
  OBVIOUS
<1> DEFINE q == (b \div n) - (a \div n)
<1>1. q \in Int /\ b - a = n * (b \div n) - n * (a \div n)
  BY DivMod
<1>2. b - a = n * q
  BY <1>1, DivMod
<1>3. n * q > 0 /\ n * q < n
  BY <1>2
<1> QED BY <1>1, <1>3, Multiple

LEMMA NextConsecutive ==
  ASSUME PairingInv, Consecutive, [Next]_vars
  PROVE  Consecutive'
<1>1. /\ Len(buffer) \in Nat /\ Len(tasks) \in Nat /\ buffer \in Seq(Packet)
      /\ nonce \in Nat /\ now \in Nat /\ Len(tasks) <= Len(buffer)
  BY Basics
<1>2. CASE SendAudio
  <2>1. PICK p \in now + MinLead .. now + MaxLead :
          buffer' = Append(buffer, [id |-> nonce, playAt |-> p])
    BY <1>2 DEF SendAudio
  <2> DEFINE np == [id |-> nonce, playAt |-> p]
  <2>2. np \in Packet /\ np.id = nonce
    BY <1>1, PacketBufferAssumption DEF Packet
  <2> HIDE DEF np
  <2>3. /\ Len(buffer') = Len(buffer) + 1
        /\ \A i \in 1..Len(buffer) : buffer'[i] = buffer[i]
        /\ buffer'[Len(buffer) + 1] = np
    BY <1>1, <2>1, <2>2, AppendProperties DEF np
  <2>4. nonce' = nonce + 1
    BY <1>2 DEF SendAudio
  <2>5. ASSUME NEW i \in 1..Len(buffer')
        PROVE  buffer'[i].id = (nonce' - Len(buffer')) + (i - 1)
    <3>1. CASE i \in 1..Len(buffer)
      <4>1. buffer'[i].id = (nonce - Len(buffer)) + (i - 1)
        BY <3>1, <2>3 DEF Consecutive
      <4> QED BY <4>1, <3>1, <2>3, <2>4, <1>1
    <3>2. CASE i = Len(buffer) + 1
      BY <3>2, <2>2, <2>3, <2>4, <1>1
    <3> QED BY <3>1, <3>2, <2>3, <1>1
  <2> QED BY <2>3, <2>4, <2>5, <1>1 DEF Consecutive
<1>3. CASE RemoveOldAudiodata
  <2>1. PICK k \in 0..Backlog+1 :
          /\ Len(buffer') = Len(buffer) - k
          /\ \A i \in 1..Len(buffer') : buffer'[i] = buffer[i+k]
    BY <1>3, RemoveShifts
  <2>2. nonce' = nonce
    BY <1>3 DEF RemoveOldAudiodata
  <2>3. ASSUME NEW i \in 1..Len(buffer')
        PROVE  buffer'[i].id = (nonce' - Len(buffer')) + (i - 1)
    <3>1. i + k \in 1..Len(buffer)
      BY <2>1, <1>1
    <3>2. buffer[i+k].id = (nonce - Len(buffer)) + (i + k - 1)
      BY <3>1 DEF Consecutive
    <3> QED BY <3>2, <2>1, <2>2, <1>1
  <2> QED BY <2>1, <2>2, <2>3, <1>1 DEF Consecutive
<1>4. CASE UNCHANGED <<buffer, nonce>>
  BY <1>4 DEF Consecutive
<1>5. SendAudio \/ RemoveOldAudiodata \/ UNCHANGED <<buffer, nonce>>
  BY DEF Next, ClientAdd, ClientRemove, HandleRequest, Tick, vars
<1> QED BY <1>2, <1>3, <1>4, <1>5

LEMMA ConsecutiveCorrect == Spec => []Consecutive
<1>1. Init => Consecutive
  BY DEF Init, Consecutive
<1>2. PairingInv /\ Consecutive /\ [Next]_vars => Consecutive'
  BY NextConsecutive
<1> QED BY <1>1, <1>2, PairingCorrect, PTL DEF Spec

(***************************************************************************)
(* A request for a packet whose task is pending is answered with that very *)
(* packet as long as the store holds no more than NONCE_MAX packets.  It   *)
(* is what the code relies on and does not enforce: a stream without       *)
(* clients stores every packet it sends.                                   *)
(***************************************************************************)
THEOREM PendingIsAnsweredHolds ==
  Spec /\ [](Len(buffer) <= NonceMax) => PendingIsAnswered
<1>1. ASSUME PairingInv, Consecutive, Len(buffer) <= NonceMax,
             NEW c \in clients, NEW i \in DOMAIN tasks,
             HandleRequest(c, Nonce(tasks[i].id))
      PROVE  answer' = tasks[i].id
  <2>1. /\ Len(buffer) \in Nat /\ Len(tasks) \in Nat /\ nonce \in Nat
        /\ tasks \in Seq(Task) /\ Len(tasks) <= Len(buffer)
    BY <1>1, Basics
  <2> DEFINE own == Backlog + i
             n == Nonce(tasks[i].id)
             hits == {j \in 1..Len(buffer) : Nonce(buffer[j].id) = n}
  <2>2. i \in 1..Len(tasks)
    BY <2>1, <1>1
  <2>3. own \in 1..Len(buffer)
    BY <2>1, <2>2
  <2>4. buffer[own].id = tasks[i].id
    BY <2>2, <1>1 DEF PairingInv, TasksMatchBuffer
  <2> HIDE DEF own
  <2>5. ASSUME NEW j \in 1..Len(buffer), NEW l \in 1..Len(buffer), j < l
        PROVE  Nonce(buffer[j].id) # Nonce(buffer[l].id)
    <3>1. /\ buffer[j].id = (nonce - Len(buffer)) + (j - 1)
          /\ buffer[l].id = (nonce - Len(buffer)) + (l - 1)
          /\ Len(buffer) <= nonce
      BY <1>1 DEF Consecutive
    <3>2. /\ buffer[j].id \in Nat /\ buffer[l].id \in Nat
          /\ buffer[j].id < buffer[l].id
          /\ buffer[l].id - buffer[j].id < NonceMax
      BY <3>1, <2>1, <2>5, <1>1, PacketBufferAssumption
    <3> QED BY <3>2, ResiduesDiffer, PacketBufferAssumption DEF Nonce
  <2>6. \A j \in hits : j = own
    <3> SUFFICES ASSUME NEW j \in 1..Len(buffer),
                        Nonce(buffer[j].id) = Nonce(buffer[own].id), j # own
                 PROVE  FALSE
      BY <2>4
    <3>1. j < own \/ own < j
      BY <2>1, <2>3
    <3> QED BY <3>1, <2>3, <2>5
  <2>7. own \in hits
    BY <2>3, <2>4
  <2>8. PICK j \in hits : answer' = buffer[j].id
    BY <1>1, <2>7 DEF HandleRequest
  <2> QED BY <2>4, <2>6, <2>8
<1>2. PairingInv /\ Consecutive /\ (Len(buffer) <= NonceMax) /\ [Next]_vars =>
        [\A c \in clients, i \in DOMAIN tasks :
           HandleRequest(c, Nonce(tasks[i].id)) => answer' = tasks[i].id]_vars
  BY <1>1
<1> QED BY <1>2, PairingCorrect, ConsecutiveCorrect, PTL DEF Spec, PendingIsAnswered

-----------------------------------------------------------------------------
(***************************************************************************)
(* A packet is at most MaxLead ahead of the clock when it is sent, and its *)
(* task is due bufferms after that.                                        *)
(***************************************************************************)
LeadBounded ==
  /\ \A i \in 1..Len(tasks) :
       buffer[Backlog + i].playAt <= (tasks[i].due - BufferMs) + MaxLead
  /\ \A i \in 1..Backlog : buffer[i].playAt <= (now - BufferMs) + MaxLead

LEMMA SendLead ==
  ASSUME PairingInv, LeadBounded, SendAudio
  PROVE  LeadBounded'
<1> DEFINE B == Len(buffer)
           T == Len(tasks)
<1>1. /\ now \in Nat /\ nonce \in Nat /\ B \in Nat /\ T \in Nat /\ T <= B
      /\ buffer \in Seq(Packet) /\ tasks \in Seq(Task)
  BY Basics
<1>c. BufferMs \in Nat /\ MinLead \in Nat /\ MaxLead \in Nat
  BY PacketBufferAssumption
<1>2. PICK p \in now + MinLead .. now + MaxLead :
        buffer' = Append(buffer, [id |-> nonce, playAt |-> p])
  BY DEF SendAudio
<1>p. p \in Int /\ p <= now + MaxLead
  BY <1>1, <1>c
<1> DEFINE np == [id |-> nonce, playAt |-> p]
           nt == [due |-> now + BufferMs, id |-> nonce]
<1>3. np \in Packet /\ nt \in Task /\ np.playAt = p /\ nt.due = now + BufferMs
  BY <1>1, <1>c, <1>p DEF Packet, Task
<1>u. tasks' = Append(tasks, nt) /\ buffer' = Append(buffer, np) /\ now' = now
  BY <1>2 DEF SendAudio
<1> HIDE DEF np, nt
<1>4. /\ Len(buffer') = B + 1
      /\ \A i \in 1..B : buffer'[i] = buffer[i]
      /\ buffer'[B + 1] = np
  BY <1>1, <1>3, <1>u, AppendProperties
<1>5. /\ Len(tasks') = T + 1
      /\ \A i \in 1..T : tasks'[i] = tasks[i]
      /\ tasks'[T + 1] = nt
  BY <1>1, <1>3, <1>u, AppendProperties
<1>o. /\ \A i \in 1..T : buffer[(B - T) + i].playAt <= (tasks[i].due - BufferMs) + MaxLead
      /\ \A i \in 1..B - T : buffer[i].playAt <= (now - BufferMs) + MaxLead
  BY DEF LeadBounded
<1>s. Backlog' = B - T
  BY <1>1, <1>4, <1>5
<1> HIDE DEF B, T
<1>6. ASSUME NEW i \in 1..Len(tasks')
      PROVE  buffer'[(B - T) + i].playAt <= (tasks'[i].due - BufferMs) + MaxLead
  <2>1. CASE i \in 1..T
    <3>1. (B - T) + i \in 1..B
      BY <1>1, <2>1
    <3>2. tasks'[i] = tasks[i] /\ buffer'[(B - T) + i] = buffer[(B - T) + i]
      BY <2>1, <3>1, <1>4, <1>5
    <3> QED BY ONLY <2>1, <3>2, <1>o
  <2>2. CASE i = T + 1
    <3>1. (B - T) + i = B + 1
      BY <1>1, <2>2
    <3>2. tasks'[i].due = now + BufferMs /\ buffer'[(B - T) + i].playAt = p
      BY <2>2, <3>1, <1>3, <1>4, <1>5
    <3>3. p <= ((now + BufferMs) - BufferMs) + MaxLead
      BY ONLY <1>1, <1>c, <1>p
    <3> QED BY <3>2, <3>3
  <2>3. i \in 1..T \/ i = T + 1
    BY <1>1, <1>5
  <2> QED BY <2>1, <2>2, <2>3
<1>7. ASSUME NEW i \in 1..B - T
      PROVE  buffer'[i].playAt <= (now - BufferMs) + MaxLead
  <2>1. i \in 1..B
    BY <1>1
  <2>2. buffer'[i] = buffer[i]
    BY <2>1, <1>4
  <2> QED BY <2>2, <1>o
<1> QED BY <1>6, <1>7, <1>s, <1>u DEF LeadBounded

\* What is at the front of the store up to the packet of the task that fires.
LEMMA FrontIsOld ==
  ASSUME PairingInv, LeadBounded, RemoveOldAudiodata, NEW i \in 1..Backlog + 1
  PROVE  buffer[i].playAt <= (now - BufferMs) + MaxLead
<1>1. /\ now \in Nat /\ Len(buffer) \in Nat /\ Len(tasks) \in Nat
      /\ Len(tasks) <= Len(buffer) /\ tasks \in Seq(Task)
      /\ \A j \in 1..Len(tasks) : tasks[j].due \in Int
      /\ \A j \in 1..Len(buffer) : buffer[j].playAt \in Int
  BY Basics
<1>2. CASE i \in 1..Backlog
  BY <1>2 DEF LeadBounded
<1>3. CASE i = Backlog + 1
  <2>1. 1 \in 1..Len(tasks) /\ tasks[1].due <= now
    <3>1. tasks # <<>> /\ tasks[1].due <= now
      BY DEF RemoveOldAudiodata
    <3> QED BY <1>1, <3>1, EmptySeq
  <2>2. buffer[i].playAt <= (tasks[1].due - BufferMs) + MaxLead
    BY <1>3, <2>1 DEF LeadBounded
  <2>3. i \in 1..Len(buffer)
    BY <1>1, <1>3, <2>1
  <2>4. buffer[i].playAt \in Int /\ tasks[1].due \in Int
    BY <1>1, <2>1, <2>3
  <2>5. BufferMs \in Nat /\ MaxLead \in Nat
    BY PacketBufferAssumption
  <2> DEFINE p == buffer[i].playAt
             d == tasks[1].due
  <2>6. now \in Int /\ p \in Int /\ d \in Int /\ d <= now /\ p <= (d - BufferMs) + MaxLead
    BY <1>1, <2>1, <2>2, <2>4
  <2> HIDE DEF p, d
  <2>7. p <= (now - BufferMs) + MaxLead
    BY ONLY <2>5, <2>6
  <2> QED BY <2>7 DEF p
<1>4. i \in 1..Backlog \/ i = Backlog + 1
  BY <1>1
<1> QED BY <1>2, <1>3, <1>4

LEMMA RemoveLead ==
  ASSUME PairingInv, LeadBounded, RemoveOldAudiodata
  PROVE  LeadBounded'
<1> DEFINE B == Len(buffer)
           T == Len(tasks)
<1>1. now \in Nat /\ B \in Nat /\ T \in Nat /\ T <= B
  BY Basics
<1>2. /\ Len(tasks') = T - 1 /\ 1 <= T
      /\ \A i \in 1..Len(tasks') : tasks'[i] = tasks[i+1]
  BY RemoveShifts
<1>3. PICK k \in 0..(B-T)+1 :
        /\ Len(buffer') = B - k
        /\ \A i \in 1..Len(buffer') : buffer'[i] = buffer[i+k]
  BY RemoveShifts
<1>o. \A i \in 1..T : buffer[(B - T) + i].playAt <= (tasks[i].due - BufferMs) + MaxLead
  BY DEF LeadBounded
<1>f. \A i \in 1..(B - T) + 1 : buffer[i].playAt <= (now - BufferMs) + MaxLead
  BY FrontIsOld
<1>u. now' = now
  BY DEF RemoveOldAudiodata
<1>s. Backlog' = (B - k) - (T - 1)
  BY <1>2, <1>3
<1> HIDE DEF B, T
<1>4. ASSUME NEW i \in 1..Len(tasks')
      PROVE  buffer'[Backlog' + i].playAt <= (tasks'[i].due - BufferMs) + MaxLead
  <2>1. /\ Backlog' + i \in 1..Len(buffer') /\ i+1 \in 1..T
        /\ (Backlog' + i) + k = (B - T) + (i+1)
    BY <1>1, <1>2, <1>3, <1>s
  <2>2. buffer'[Backlog' + i] = buffer[(B - T) + (i+1)]
    BY <2>1, <1>3
  <2> QED BY <2>1, <2>2, <1>2, <1>o
<1>5. ASSUME NEW i \in 1..Backlog'
      PROVE  buffer'[i].playAt <= (now - BufferMs) + MaxLead
  <2>1. i \in 1..Len(buffer') /\ i + k \in 1..(B - T) + 1
    BY <1>1, <1>2, <1>3, <1>s
  <2> QED BY <2>1, <1>3, <1>f
<1> QED BY <1>4, <1>5, <1>u DEF LeadBounded

LEMMA NextLead ==
  ASSUME PairingInv, LeadBounded, [Next]_vars
  PROVE  LeadBounded'
<1>1. CASE SendAudio
  BY <1>1, SendLead
<1>2. CASE RemoveOldAudiodata
  BY <1>2, RemoveLead
<1>3. CASE UNCHANGED <<now, buffer, tasks>>
  BY <1>3 DEF LeadBounded
<1>4. CASE Tick
  <2>1. now' = now + 1 /\ buffer' = buffer /\ tasks' = tasks
    BY <1>4 DEF Tick
  <2>2. /\ now \in Nat /\ Len(buffer) \in Nat /\ Len(tasks) \in Nat
        /\ \A i \in 1..Len(buffer) : buffer[i].playAt \in Int
    BY Basics
  <2>3. BufferMs \in Nat /\ MaxLead \in Nat
    BY PacketBufferAssumption
  <2>4. ASSUME NEW i \in 1..Backlog
        PROVE  buffer[i].playAt <= ((now + 1) - BufferMs) + MaxLead
    <3>1. buffer[i].playAt <= (now - BufferMs) + MaxLead
      BY DEF LeadBounded
    <3>2. i \in 1..Len(buffer)
      BY <2>2
    <3>3. buffer[i].playAt \in Int
      BY <2>2, <3>2
    <3> QED BY ONLY <2>2, <2>3, <3>1, <3>3
  <2> QED BY <2>1, <2>4 DEF LeadBounded
<1>5. SendAudio \/ RemoveOldAudiodata \/ Tick \/ UNCHANGED <<now, buffer, tasks>>
  BY DEF Next, ClientAdd, ClientRemove, HandleRequest, vars
<1> QED BY <1>1, <1>2, <1>3, <1>4, <1>5

LEMMA LeadCorrect == Spec => []LeadBounded
<1>1. Init => LeadBounded
  BY DEF Init, LeadBounded
<1>2. PairingInv /\ LeadBounded /\ [Next]_vars => LeadBounded'
  BY NextLead
<1> QED BY <1>1, <1>2, PairingCorrect, PTL DEF Spec

(***************************************************************************)
(* The packets that leave the store were to be played by the time that is  *)
(* MaxLead ahead of bufferms ago.                                          *)
(***************************************************************************)
NoneRemovedEarly ==
  [][\A i \in 1..Len(buffer) - Len(buffer') :
       buffer[i].playAt <= (now - BufferMs) + MaxLead]_vars

(***************************************************************************)
(* However many packets a run of remove_old_audiodata_task removes, and    *)
(* whatever had piled up, it takes none that is to be played later than    *)
(* MaxLead - bufferms from now.                                            *)
(***************************************************************************)
THEOREM NoneRemovedEarlyHolds == Spec => NoneRemovedEarly
<1>1. ASSUME PairingInv, LeadBounded, [Next]_vars,
             NEW i \in 1..Len(buffer) - Len(buffer')
      PROVE  buffer[i].playAt <= (now - BufferMs) + MaxLead
  <2>1. Len(buffer) \in Nat /\ Len(tasks) \in Nat
    BY <1>1, Basics
  <2>2. CASE RemoveOldAudiodata
    <3>1. PICK k \in 0..Backlog+1 : Len(buffer') = Len(buffer) - k
      BY <1>1, <2>2, RemoveShifts
    <3>2. i \in 1..Backlog + 1
      BY <2>1, <3>1
    <3> QED BY <1>1, <2>2, <3>2, FrontIsOld
  <2>3. CASE ~RemoveOldAudiodata
    <3>1. Len(buffer) <= Len(buffer')
      BY <1>1, <2>3, OnlyRemoveShortens
    <3>2. Len(buffer') \in Nat
      <4>1. PairingInv'
        BY <1>1, NextPairing
      <4> QED BY <4>1, LenProperties DEF PairingInv, TypeOK
    <3> QED BY <2>1, <3>1, <3>2
  <2> QED BY <2>2, <2>3
<1>2. PairingInv /\ LeadBounded /\ [Next]_vars =>
        [\A i \in 1..Len(buffer) - Len(buffer') :
           buffer[i].playAt <= (now - BufferMs) + MaxLead]_vars
  BY <1>1
<1> QED BY <1>2, PairingCorrect, LeadCorrect, PTL DEF Spec, NoneRemovedEarly

(***************************************************************************)
(* Where no chunk is sent more than bufferms ahead, the store never        *)
(* removes a packet that a client could still play.  LongestLeadFits       *)
(* (InputPipe_proofs) says for which configurations that is so.            *)
(***************************************************************************)
THEOREM PlayableIsKept ==
  ASSUME MaxLead <= BufferMs
  PROVE  Spec => [][\A i \in 1..Len(buffer) - Len(buffer') : buffer[i].playAt <= now]_vars
<1>1. ASSUME PairingInv, LeadBounded, [Next]_vars,
             NEW i \in 1..Len(buffer) - Len(buffer'),
             \A j \in 1..Len(buffer) - Len(buffer') :
               buffer[j].playAt <= (now - BufferMs) + MaxLead
      PROVE  buffer[i].playAt <= now
  <2>1. /\ now \in Nat /\ Len(buffer) \in Nat
        /\ \A j \in 1..Len(buffer) : buffer[j].playAt \in Int
    BY <1>1, Basics
  <2>2. Len(buffer') \in Nat
    <3>1. PairingInv'
      BY <1>1, NextPairing
    <3> QED BY <3>1, LenProperties DEF PairingInv, TypeOK
  <2>3. i \in 1..Len(buffer)
    BY <2>1, <2>2
  <2> DEFINE x == buffer[i].playAt
  <2>4. x \in Int /\ x <= (now - BufferMs) + MaxLead
    BY <1>1, <2>1, <2>3
  <2>5. BufferMs \in Nat /\ MaxLead \in Nat /\ MaxLead <= BufferMs
    BY PacketBufferAssumption
  <2> HIDE DEF x
  <2>6. x <= now
    BY ONLY <2>1, <2>4, <2>5
  <2> QED BY <2>6 DEF x
<1>2. PairingInv /\ LeadBounded /\ [Next]_vars
        /\ [\A i \in 1..Len(buffer) - Len(buffer') :
              buffer[i].playAt <= (now - BufferMs) + MaxLead]_vars =>
        [\A i \in 1..Len(buffer) - Len(buffer') : buffer[i].playAt <= now]_vars
  BY <1>1
<1> QED BY <1>2, PairingCorrect, LeadCorrect, NoneRemovedEarlyHolds, PTL
        DEF Spec, NoneRemovedEarly

-----------------------------------------------------------------------------
\* The arithmetic on seconds and nanoseconds that TimeSubMs and the plain sums
\* of the other modules stand for.
TS == INSTANCE Timespec

LEMMA BillionIsNat == TS!Billion \in Nat
BY DEF TS!Billion, TS!NsecPerMs

\* The fields of a normalised timespec.
LEMMA TimespecFields ==
  ASSUME NEW t \in TS!Timespec
  PROVE  t.sec \in Nat /\ t.nsec \in Nat /\ t.nsec < TS!Billion
<1>1. t.sec \in Nat /\ t.nsec \in 0..TS!Billion - 1
  BY DEF TS!Timespec
<1> QED BY <1>1, BillionIsNat

\* A timespec is its fields.
LEMMA TimespecMade ==
  ASSUME NEW s \in Nat, NEW n \in Nat, n < TS!Billion
  PROVE  [sec |-> s, nsec |-> n] \in TS!Timespec
<1>1. n \in 0..TS!Billion - 1
  BY BillionIsNat
<1> QED BY <1>1 DEF TS!Timespec

USE DEF TS!Billion, TS!NsecPerMs

\* Quotient and remainder of the two divisions the code makes.
LEMMA CarryDivides ==
  ASSUME NEW n \in Nat
  PROVE  /\ n \div TS!Billion \in Nat /\ n % TS!Billion \in Nat
         /\ n % TS!Billion < TS!Billion
         /\ n = TS!Billion * (n \div TS!Billion) + (n % TS!Billion)
OBVIOUS

LEMMA MsDivides ==
  ASSUME NEW n \in Nat
  PROVE  /\ n \div 1000 \in Nat /\ n % 1000 \in Nat /\ n % 1000 < 1000
         /\ n = 1000 * (n \div 1000) + (n % 1000)
OBVIOUS

LEMMA NanosIsNat ==
  ASSUME NEW t \in TS!Timespec
  PROVE  TS!Nanos(t) \in Nat
<1> DEFINE a == t.sec
           b == t.nsec
<1>1. a \in Nat /\ b \in Nat /\ TS!Nanos(t) = TS!Billion * a + b
  BY TimespecFields DEF TS!Nanos
<1> HIDE DEF a, b
<1> QED BY ONLY <1>1

(***************************************************************************)
(* timespec_cmp compares the instants: fields of normalised timespecs in   *)
(* the order of seconds and nanoseconds.                                   *)
(***************************************************************************)
THEOREM CmpExact ==
  ASSUME NEW t \in TS!Timespec, NEW u \in TS!Timespec
  PROVE  /\ TS!Cmp(t, u) < 0 <=> TS!Nanos(t) < TS!Nanos(u)
         /\ TS!Cmp(t, u) > 0 <=> TS!Nanos(t) > TS!Nanos(u)
         /\ TS!Cmp(t, u) \in -1..1
<1>1. /\ t.sec \in Nat /\ t.nsec \in Nat /\ t.nsec < TS!Billion
      /\ u.sec \in Nat /\ u.nsec \in Nat /\ u.nsec < TS!Billion
  BY TimespecFields
<1>2. /\ TS!Nanos(t) = TS!Billion * t.sec + t.nsec
      /\ TS!Nanos(u) = TS!Billion * u.sec + u.nsec
  BY DEF TS!Nanos
<1>3. CASE t.sec < u.sec
  <2>1. TS!Cmp(t, u) = -1
    BY <1>1, <1>3 DEF TS!Cmp
  <2> QED BY ONLY <1>1, <1>2, <1>3, <2>1
<1>4. CASE t.sec > u.sec
  <2>1. TS!Cmp(t, u) = 1
    BY <1>1, <1>4 DEF TS!Cmp
  <2> QED BY ONLY <1>1, <1>2, <1>4, <2>1
<1>5. CASE t.sec = u.sec /\ t.nsec < u.nsec
  <2>1. TS!Cmp(t, u) = -1
    BY <1>1, <1>5 DEF TS!Cmp
  <2> QED BY ONLY <1>1, <1>2, <1>5, <2>1
<1>6. CASE t.sec = u.sec /\ t.nsec > u.nsec
  <2>1. TS!Cmp(t, u) = 1
    BY <1>1, <1>6 DEF TS!Cmp
  <2> QED BY ONLY <1>1, <1>2, <1>6, <2>1
<1>7. CASE t.sec = u.sec /\ t.nsec = u.nsec
  <2>1. TS!Cmp(t, u) = 0
    BY <1>1, <1>7 DEF TS!Cmp
  <2> QED BY ONLY <1>1, <1>2, <1>7, <2>1
<1> QED BY ONLY <1>1, <1>3, <1>4, <1>5, <1>6, <1>7

(***************************************************************************)
(* timeAdd is addition, and its result is normalised, for a second operand *)
(* with any number of nanoseconds.                                         *)
(***************************************************************************)
THEOREM TimeAddExact ==
  ASSUME NEW t \in TS!Timespec, NEW s \in Nat, NEW n \in Nat
  PROVE  /\ TS!TimeAdd(t, [sec |-> s, nsec |-> n]) \in TS!Timespec
         /\ TS!Nanos(TS!TimeAdd(t, [sec |-> s, nsec |-> n]))
              = TS!Nanos(t) + TS!Billion * s + n
<1>1. t.sec \in Nat /\ t.nsec \in Nat /\ t.nsec < TS!Billion
  BY TimespecFields
<1> DEFINE m == t.nsec + n
           q == m \div TS!Billion
           r == m % TS!Billion
<1>2. TS!TimeAdd(t, [sec |-> s, nsec |-> n]) = [sec |-> t.sec + s + q, nsec |-> r]
  BY DEF TS!TimeAdd
<1>3. m \in Nat /\ q \in Nat /\ r \in Nat /\ r < TS!Billion /\ m = TS!Billion * q + r
  BY <1>1, CarryDivides
<1> HIDE DEF q, r
<1>4. t.sec + s + q \in Nat
  BY <1>1, <1>3
<1>5. [sec |-> t.sec + s + q, nsec |-> r] \in TS!Timespec
  BY <1>3, <1>4, TimespecMade
<1>6. TS!Nanos([sec |-> t.sec + s + q, nsec |-> r]) = TS!Billion * (t.sec + s + q) + r
  BY DEF TS!Nanos
<1>7. TS!Nanos(t) = TS!Billion * t.sec + t.nsec
  BY DEF TS!Nanos
<1>8. TS!Billion * (t.sec + s + q) + r = TS!Nanos(t) + TS!Billion * s + n
  <2> DEFINE a == t.sec
             b == t.nsec
  <2>1. /\ a \in Nat /\ b \in Nat /\ q \in Nat /\ r \in Nat /\ s \in Nat /\ n \in Nat
        /\ b + n = TS!Billion * q + r /\ TS!Nanos(t) = TS!Billion * a + b
    BY <1>1, <1>3, <1>7
  <2> HIDE DEF a, b
  <2>2. TS!Billion * (a + s + q) + r = (TS!Billion * a + b) + TS!Billion * s + n
    BY ONLY <2>1
  <2> QED BY <2>1, <2>2 DEF a
<1> QED BY <1>2, <1>5, <1>6, <1>8

\* The borrow of timeSub leaves a normalised timespec and no negative seconds.
LEMMA DifferenceExact ==
  ASSUME NEW t \in TS!Timespec, NEW u \in TS!Timespec, TS!Nanos(u) <= TS!Nanos(t)
  PROVE  /\ TS!Difference(t, u) \in TS!Timespec
         /\ TS!Nanos(TS!Difference(t, u)) = TS!Nanos(t) - TS!Nanos(u)
<1>1. /\ t.sec \in Nat /\ t.nsec \in Nat /\ t.nsec < TS!Billion
      /\ u.sec \in Nat /\ u.nsec \in Nat /\ u.nsec < TS!Billion
  BY TimespecFields
<1>2. /\ TS!Nanos(t) = TS!Billion * t.sec + t.nsec
      /\ TS!Nanos(u) = TS!Billion * u.sec + u.nsec
  BY DEF TS!Nanos
<1>3. CASE t.nsec >= u.nsec
  <2> DEFINE s == t.sec - u.sec
             n == t.nsec - u.nsec
  <2>1. TS!Difference(t, u) = [sec |-> s, nsec |-> n]
    BY <1>3 DEF TS!Difference
  <2>2. /\ s \in Nat /\ n \in Nat /\ n < TS!Billion
        /\ TS!Billion * s + n = TS!Nanos(t) - TS!Nanos(u)
    BY ONLY <1>1, <1>2, <1>3, TS!Nanos(u) <= TS!Nanos(t)
  <2> HIDE DEF s, n
  <2>3. TS!Nanos([sec |-> s, nsec |-> n]) = TS!Billion * s + n
    BY DEF TS!Nanos
  <2> QED BY <2>1, <2>2, <2>3, TimespecMade
<1>4. CASE ~(t.nsec >= u.nsec)
  <2> DEFINE s == (t.sec - u.sec) - 1
             n == (TS!Billion - u.nsec) + t.nsec
  <2>1. TS!Difference(t, u) = [sec |-> s, nsec |-> n]
    BY <1>4 DEF TS!Difference
  <2>2. /\ s \in Nat /\ n \in Nat /\ n < TS!Billion
        /\ TS!Billion * s + n = TS!Nanos(t) - TS!Nanos(u)
    BY ONLY <1>1, <1>2, <1>4, TS!Nanos(u) <= TS!Nanos(t)
  <2> HIDE DEF s, n
  <2>3. TS!Nanos([sec |-> s, nsec |-> n]) = TS!Billion * s + n
    BY DEF TS!Nanos
  <2> QED BY <2>1, <2>2, <2>3, TimespecMade
<1> QED BY <1>3, <1>4

(***************************************************************************)
(* timeSub gives the distance of two instants and, apart from it, its      *)
(* sign; the result is normalised and its seconds, which the code keeps in *)
(* an unsigned number, never go below zero.                                *)
(***************************************************************************)
THEOREM TimeSubExact ==
  ASSUME NEW t \in TS!Timespec, NEW u \in TS!Timespec
  PROVE  /\ TS!TimeSub(t, u).time \in TS!Timespec
         /\ TS!Nanos(t) >= TS!Nanos(u) =>
              /\ TS!TimeSub(t, u).sign = 1
              /\ TS!Nanos(TS!TimeSub(t, u).time) = TS!Nanos(t) - TS!Nanos(u)
         /\ TS!Nanos(t) < TS!Nanos(u) =>
              /\ TS!TimeSub(t, u).sign = -1
              /\ TS!Nanos(TS!TimeSub(t, u).time) = TS!Nanos(u) - TS!Nanos(t)
<1>1. TS!Nanos(t) \in Nat /\ TS!Nanos(u) \in Nat
  BY NanosIsNat
<1>2. TS!Cmp(t, u) < 0 <=> TS!Nanos(t) < TS!Nanos(u)
  BY CmpExact
<1> HIDE DEF TS!Billion, TS!NsecPerMs
<1>3. CASE TS!Nanos(t) < TS!Nanos(u)
  <2>1. TS!TimeSub(t, u).time = TS!Difference(u, t) /\ TS!TimeSub(t, u).sign = -1
    BY <1>2, <1>3 DEF TS!TimeSub
  <2>2. ~(TS!Nanos(t) >= TS!Nanos(u)) /\ TS!Nanos(t) <= TS!Nanos(u)
    BY <1>1, <1>3
  <2>3. /\ TS!Difference(u, t) \in TS!Timespec
        /\ TS!Nanos(TS!Difference(u, t)) = TS!Nanos(u) - TS!Nanos(t)
    BY <2>2, DifferenceExact
  <2> QED BY ONLY <2>1, <2>2, <2>3
<1>4. CASE ~(TS!Nanos(t) < TS!Nanos(u))
  <2>1. TS!TimeSub(t, u).time = TS!Difference(t, u) /\ TS!TimeSub(t, u).sign = 1
    BY <1>2, <1>4 DEF TS!TimeSub
  <2>2. TS!Nanos(u) <= TS!Nanos(t)
    BY <1>1, <1>4
  <2>3. /\ TS!Difference(t, u) \in TS!Timespec
        /\ TS!Nanos(TS!Difference(t, u)) = TS!Nanos(t) - TS!Nanos(u)
    BY <2>2, DifferenceExact
  <2> QED BY ONLY <1>4, <2>1, <2>3
<1> QED BY <1>3, <1>4

\* The timespec made of a number of milliseconds.
LEMMA OfMsExact ==
  ASSUME NEW ms \in Nat
  PROVE  /\ TS!OfMs(ms) \in TS!Timespec
         /\ TS!Nanos(TS!OfMs(ms)) = TS!NsecPerMs * ms
<1> DEFINE q == ms \div 1000
           r == ms % 1000
           n == r * TS!NsecPerMs
<1>1. q \in Nat /\ r \in Nat /\ r < 1000 /\ ms = 1000 * q + r
  BY MsDivides
<1>2. TS!OfMs(ms) = [sec |-> q, nsec |-> n]
  BY DEF TS!OfMs
<1> HIDE DEF q, r
<1>3. n \in Nat /\ n < TS!Billion /\ TS!Billion * q + n = TS!NsecPerMs * ms
  BY ONLY <1>1, ms \in Nat
<1> HIDE DEF n
<1>4. [sec |-> q, nsec |-> n] \in TS!Timespec
  BY <1>1, <1>3, TimespecMade
<1>5. TS!Nanos([sec |-> q, nsec |-> n]) = TS!Billion * q + n
  BY DEF TS!Nanos
<1> QED BY <1>2, <1>3, <1>4, <1>5

(***************************************************************************)
(* timeAddMs adds that many milliseconds.                                  *)
(***************************************************************************)
THEOREM TimeAddMsExact ==
  ASSUME NEW t \in TS!Timespec, NEW ms \in Nat
  PROVE  /\ TS!TimeAddMs(t, ms) \in TS!Timespec
         /\ TS!Nanos(TS!TimeAddMs(t, ms)) = TS!Nanos(t) + TS!NsecPerMs * ms
<1>1. TS!OfMs(ms) \in TS!Timespec /\ TS!Nanos(TS!OfMs(ms)) = TS!NsecPerMs * ms
  BY OfMsExact
<1> DEFINE s == TS!OfMs(ms).sec
           n == TS!OfMs(ms).nsec
<1>2. s \in Nat /\ n \in Nat
  BY <1>1, TimespecFields
<1>3. TS!OfMs(ms) = [sec |-> s, nsec |-> n]
  BY DEF TS!OfMs
<1>4. TS!Nanos(TS!OfMs(ms)) = TS!Billion * s + n
  BY DEF TS!Nanos
<1> HIDE DEF s, n, TS!Billion, TS!NsecPerMs
<1>5. TS!TimeAddMs(t, ms) = TS!TimeAdd(t, [sec |-> s, nsec |-> n])
  BY <1>3 DEF TS!TimeAddMs
<1>6. /\ TS!TimeAddMs(t, ms) \in TS!Timespec
      /\ TS!Nanos(TS!TimeAddMs(t, ms)) = TS!Nanos(t) + TS!Billion * s + n
  BY <1>2, <1>5, TimeAddExact
<1>7. TS!Nanos(t) + TS!Billion * s + n = TS!Nanos(t) + TS!NsecPerMs * ms
  <2>1. TS!Billion * s + n = TS!NsecPerMs * ms
    BY <1>1, <1>4
  <2>2. TS!Nanos(t) \in Nat /\ TS!Billion * s \in Nat
    BY <1>2, NanosIsNat DEF TS!Billion, TS!NsecPerMs
  <2> QED BY <1>2, <2>1, <2>2
<1> QED BY <1>6, <1>7

(***************************************************************************)
(* settime computes the instant a task is due at, however many             *)
(* milliseconds are asked for.                                             *)
(***************************************************************************)
THEOREM SetTimeExact ==
  ASSUME NEW t \in TS!Timespec, NEW timeout \in Nat, NEW millisecs \in Nat
  PROVE  /\ TS!SetTime(t, timeout, millisecs) \in TS!Timespec
         /\ TS!Nanos(TS!SetTime(t, timeout, millisecs))
              = TS!Nanos(t) + TS!Billion * timeout + millisecs * TS!NsecPerMs
<1> DEFINE n == millisecs * TS!NsecPerMs
<1>1. n \in Nat
  OBVIOUS
<1>2. TS!SetTime(t, timeout, millisecs) = TS!TimeAdd(t, [sec |-> timeout, nsec |-> n])
  BY DEF TS!SetTime
<1> HIDE DEF n, TS!Billion, TS!NsecPerMs
<1> QED BY <1>1, <1>2, TimeAddExact DEF n

(***************************************************************************)
(* timeSubMs on seconds and nanoseconds is the subtraction that forgets    *)
(* the sign of this module's TimeSubMs: exactly that where the instant is  *)
(* a whole number of milliseconds.                                         *)
(***************************************************************************)
THEOREM TimeSubMsExact ==
  ASSUME NEW t \in TS!Timespec, NEW ms \in Nat
  PROVE  /\ TS!TimeSubMs(t, ms) \in TS!Timespec
         /\ TS!Nanos(t) >= TS!NsecPerMs * ms =>
              TS!Nanos(TS!TimeSubMs(t, ms)) = TS!Nanos(t) - TS!NsecPerMs * ms
         /\ \A m \in Nat : TS!Nanos(t) = TS!NsecPerMs * m =>
              TS!Nanos(TS!TimeSubMs(t, ms)) = TS!NsecPerMs * TimeSubMs(m, ms)
<1> DEFINE u == TS!OfMs(ms)
           d == TS!TimeSubMs(t, ms)
           a == TS!Nanos(t)
           b == TS!NsecPerMs * ms
<1>1. u \in TS!Timespec /\ TS!Nanos(u) = b
  BY OfMsExact
<1>2. d = TS!TimeSub(t, u).time
  BY DEF TS!TimeSubMs
<1>3. a \in Nat /\ b \in Nat
  BY <1>1, NanosIsNat
<1> HIDE DEF u, d, TS!Billion, TS!NsecPerMs
<1>4. /\ d \in TS!Timespec
      /\ a >= b => TS!Nanos(d) = a - b
      /\ a < b => TS!Nanos(d) = b - a
  BY <1>1, <1>2, TimeSubExact
<1>5. ASSUME NEW m \in Nat, a = TS!NsecPerMs * m
      PROVE  TS!Nanos(d) = TS!NsecPerMs * TimeSubMs(m, ms)
  <2>1. CASE m < ms
    <3>1. a < b /\ b - a = TS!NsecPerMs * (ms - m)
      BY ONLY <1>5, <2>1, m \in Nat, ms \in Nat DEF TS!NsecPerMs
    <3>2. TimeSubMs(m, ms) = ms - m
      BY <2>1 DEF TimeSubMs
    <3> QED BY <1>4, <3>1, <3>2
  <2>2. CASE ~(m < ms)
    <3>1. a >= b /\ a - b = TS!NsecPerMs * (m - ms)
      BY ONLY <1>5, <2>2, m \in Nat, ms \in Nat DEF TS!NsecPerMs
    <3>2. TimeSubMs(m, ms) = m - ms
      BY <2>2 DEF TimeSubMs
    <3> QED BY <1>4, <3>1, <3>2
  <2> QED BY <2>1, <2>2
<1> QED BY <1>4, <1>5 DEF d

(***************************************************************************)
(* The condition remove_old_audiodata_task loops on, as the code computes  *)
(* it, is Outdated, for a clock and a play_at in whole milliseconds.       *)
(***************************************************************************)
THEOREM OutdatedExact ==
  ASSUME NEW ctime \in TS!Timespec, NEW play \in TS!Timespec, NEW p,
         now \in Nat, p.playAt \in Nat,
         TS!Nanos(ctime) = TS!NsecPerMs * now,
         TS!Nanos(play) = TS!NsecPerMs * p.playAt
  PROVE  Outdated(p) <=> TS!Cmp(TS!TimeSubMs(ctime, BufferMs), play) > 0
<1> DEFINE age == TS!TimeSubMs(ctime, BufferMs)
           x == TimeSubMs(now, BufferMs)
           y == p.playAt
<1>1. BufferMs \in Nat
  BY PacketBufferAssumption
<1>2. x \in Nat /\ y \in Nat
  BY <1>1 DEF TimeSubMs
<1> HIDE DEF TS!Billion, TS!NsecPerMs
<1>3. age \in TS!Timespec /\ TS!Nanos(age) = TS!NsecPerMs * x
  BY <1>1, TimeSubMsExact
<1> HIDE DEF age
<1>4. TS!Cmp(age, play) > 0 <=> TS!Nanos(age) > TS!Nanos(play)
  BY <1>3, CmpExact
<1> HIDE DEF x, y
<1>5. TS!Nanos(age) > TS!Nanos(play) <=> x > y
  <2>1. TS!Nanos(play) = TS!NsecPerMs * y
    BY DEF y
  <2> QED BY ONLY <1>2, <1>3, <2>1 DEF TS!NsecPerMs
<1> QED BY <1>4, <1>5 DEF age, x, y, Outdated

(***************************************************************************)
(* timespec_isnear holds exactly if the two instants are no more than so   *)
(* many milliseconds apart, as long as the clock has run for that long:    *)
(* before, timeSubMs would reflect the lower end of the interval.          *)
(***************************************************************************)
THEOREM IsNearExact ==
  ASSUME NEW t1 \in TS!Timespec, NEW t2 \in TS!Timespec, NEW ms \in Nat,
         TS!Nanos(t1) >= TS!NsecPerMs * ms
  PROVE  TS!IsNear(t1, t2, ms) <=>
           /\ TS!Nanos(t2) <= TS!Nanos(t1) + TS!NsecPerMs * ms
           /\ TS!Nanos(t1) <= TS!Nanos(t2) + TS!NsecPerMs * ms
<1> DEFINE hi == TS!TimeAddMs(t1, ms)
           lo == TS!TimeSubMs(t1, ms)
           a == TS!Nanos(t1)
           b == TS!Nanos(t2)
           w == TS!NsecPerMs * ms
<1>1. w \in Nat
  OBVIOUS
<1> HIDE DEF TS!Billion, TS!NsecPerMs
<1>2. hi \in TS!Timespec /\ TS!Nanos(hi) = a + w
  BY TimeAddMsExact
<1>3. lo \in TS!Timespec /\ TS!Nanos(lo) = a - w
  BY TimeSubMsExact
<1>4. a \in Nat /\ b \in Nat
  BY NanosIsNat
<1>5. TS!IsNear(t1, t2, ms) <=>
        \/ TS!Cmp(t2, hi) <= 0 /\ TS!Cmp(t2, t1) >= 0
        \/ TS!Cmp(t2, lo) >= 0 /\ TS!Cmp(t2, t1) <= 0
  BY DEF TS!IsNear
<1> HIDE DEF hi, lo
<1>6. /\ TS!Cmp(t2, hi) <= 0 <=> b <= a + w
      /\ TS!Cmp(t2, lo) >= 0 <=> b >= a - w
  <2>1. /\ TS!Cmp(t2, hi) > 0 <=> b > a + w
        /\ TS!Cmp(t2, lo) < 0 <=> b < a - w
        /\ TS!Cmp(t2, hi) \in -1..1 /\ TS!Cmp(t2, lo) \in -1..1
    BY <1>2, <1>3, CmpExact
  <2> HIDE DEF a, b, w
  <2> QED BY <1>1, <1>4, <2>1
<1>7. /\ TS!Cmp(t2, t1) >= 0 <=> b >= a
      /\ TS!Cmp(t2, t1) <= 0 <=> b <= a
  <2>1. /\ TS!Cmp(t2, t1) > 0 <=> b > a
        /\ TS!Cmp(t2, t1) < 0 <=> b < a
        /\ TS!Cmp(t2, t1) \in -1..1
    BY CmpExact
  <2> HIDE DEF a, b
  <2> QED BY <1>4, <2>1
<1>8. TS!IsNear(t1, t2, ms) <=> (b <= a + w /\ b >= a) \/ (b >= a - w /\ b <= a)
  BY ONLY <1>5, <1>6, <1>7
<1>9. (b <= a + w /\ b >= a) \/ (b >= a - w /\ b <= a) <=> b <= a + w /\ a <= b + w
  <2> HIDE DEF a, b, w
  <2> QED BY ONLY <1>1, <1>4
<1> QED BY <1>8, <1>9
=============================================================================
