----------------------- MODULE IntercomClient_proofs -----------------------
(***************************************************************************)
(* Proofs about the client's bookkeeping of lost packets, for every buffer *)
(* and chunk size, every number of retries, and with a network that loses, *)
(* reorders and duplicates; about the array heap of pqueue.c, what it      *)
(* keeps and when it is in order; and about the room in the receive        *)
(* buffer.                                                                 *)
(***************************************************************************)
EXTENDS IntercomClient, FiniteSetTheorems, SequenceTheorems, WellFoundedInduction,
        NaturalsInduction, TLAPS

LEMMA RetriesType == Retries \in 0..255
BY TimelineAssumption, IntercomClientAssumption DEF Retries

LEMMA ElementsType == Elements \in Nat /\ Elements >= 1
BY TimelineAssumption DEF Elements

\* Counting tasks by the retries they have left.
LEMMA MoveCount ==
  ASSUME NEW f \in [0..Retries -> Nat], NEW r \in 0..Retries, f[r] > 0,
         r - 1 \in 0..Retries
  PROVE  /\ RetryTask(f, r) \in [0..Retries -> Nat]
         /\ RetryTask(f, r)[r-1] > 0
<1>1. f[r] - 1 \in Nat /\ f[r-1] + 1 \in Nat /\ f[r-1] + 1 > 0 /\ r # r - 1
  BY RetriesType
<1> DEFINE g == [f EXCEPT ![r] = @ - 1]
<1>2. g \in [0..Retries -> Nat] /\ g[r-1] = f[r-1]
  BY <1>1
<1>3. [g EXCEPT ![r-1] = @ + 1] \in [0..Retries -> Nat]
      /\ [g EXCEPT ![r-1] = @ + 1][r-1] > 0
  BY <1>1, <1>2
<1> QED BY <1>3 DEF RetryTask

LEMMA EndCount ==
  ASSUME NEW f \in [0..Retries -> Nat], NEW r \in 0..Retries, f[r] > 0
  PROVE  EndTask(f, r) \in [0..Retries -> Nat]
<1>1. f[r] - 1 \in Nat
  OBVIOUS
<1> QED BY <1>1 DEF EndTask

LEMMA AddCount ==
  ASSUME NEW f \in [0..Retries -> Nat]
  PROVE  /\ NewTask(f) \in [0..Retries -> Nat]
         /\ \A q \in 0..Retries : f[q] <= NewTask(f)[q]
         /\ NewTask(f)[Retries] > 0
<1>1. Retries \in 0..Retries /\ f[Retries] \in Nat
  BY RetriesType
<1>2. NewTask(f) \in [0..Retries -> Nat]
  BY <1>1 DEF NewTask
<1>3. NewTask(f)[Retries] = f[Retries] + 1
  BY <1>1 DEF NewTask
<1>4. \A q \in 0..Retries : q # Retries => NewTask(f)[q] = f[q]
  BY <1>1 DEF NewTask
<1>5. \A q \in 0..Retries : f[q] <= NewTask(f)[q]
  <2> SUFFICES ASSUME NEW q \in 0..Retries
               PROVE  f[q] <= NewTask(f)[q]
    OBVIOUS
  <2>1. f[q] \in Nat
    OBVIOUS
  <2>2. CASE q = Retries
    BY <2>1, <2>2, <1>3
  <2>3. CASE q # Retries
    BY <2>1, <2>3, <1>4
  <2> QED BY <2>2, <2>3
<1> QED BY <1>1, <1>2, <1>3, <1>5

LEMMA FiniteNonces ==
  /\ IsFiniteSet(Nonces)
  /\ \A S : S \subseteq Nonces => IsFiniteSet(S) /\ Cardinality(S) \in Nat
<1>1. IsFiniteSet(Nonces)
  BY FS_Interval, IntercomClientAssumption DEF Nonces
<1>2. ASSUME NEW S, S \subseteq Nonces PROVE IsFiniteSet(S) /\ Cardinality(S) \in Nat
  BY <1>1, <1>2, FS_Subset, FS_CardinalityType
<1> QED BY <1>1, <1>2

(***************************************************************************)
(* limit_missing_packets never drops a number that has just been added:    *)
(* those are the greatest, and fewer than the buffer has elements.         *)
(***************************************************************************)
LEMMA LimitKeepsNew ==
  ASSUME NEW S, S \subseteq Nonces, NEW size \in Nat, NEW T \in LimitMissing(S, size),
         NEW low \in Nat, NEW high \in Nat, high - low < size + 1,
         \A x \in S : x < high,
         NEW y \in S, low < y
  PROVE  y \in T
<1> SUFFICES ASSUME y \notin T PROVE FALSE
  OBVIOUS
<1>1. /\ T \subseteq S /\ T # S
      /\ \A x \in T : y < x
      /\ Cardinality(T) = size
  BY DEF LimitMissing
<1>2. y \in Nat /\ \A x \in S : x \in Int
  BY DEF Nonces
<1>3. T \subseteq (y+1)..(high-1)
  BY <1>1, <1>2
<1>4. /\ IsFiniteSet((y+1)..(high-1))
      /\ Cardinality((y+1)..(high-1)) =
           IF y+1 > high-1 THEN 0 ELSE (high-1) - (y+1) + 1
  BY <1>2, FS_Interval
<1>5. Cardinality(T) <= Cardinality((y+1)..(high-1))
  BY <1>3, <1>4, FS_Subset
<1>6. y < high
  OBVIOUS
<1> QED BY <1>1, <1>2, <1>4, <1>5, <1>6

-----------------------------------------------------------------------------
THEOREM InitClient == Init => ClientInv
<1> SUFFICES ASSUME Init PROVE ClientInv
  OBVIOUS
<1>1. sent = <<>> /\ Len(sent) = 0 /\ sent \in Seq(Nat)
  BY DEF Init
<1>2. ClientTypes
  <2>1. 0 \in Nonces /\ MaxPackets \in Nat
    BY IntercomClientAssumption DEF Nonces
  <2>2. requests \in [Nonces -> [0..Retries -> Nat]]
    BY DEF Init
  <2>3. /\ now \in Nat /\ last \in Nonces /\ capacity \in {0, Elements}
        /\ Len(sent) <= MaxPackets /\ changes \in Nat /\ epoch \in 0..Len(sent)
    BY <1>1, <2>1 DEF Init
  <2>4. ops \subseteq {Stop} /\ missing \subseteq Nonces /\ arrived \subseteq Nonces
        /\ givenUp \subseteq Nonces /\ astray \in BOOLEAN
    BY DEF Init
  <2> QED BY <1>1, <2>2, <2>3, <2>4 DEF ClientTypes
<1>3. Cardinality({}) = 0
  BY FS_EmptySet
<1>4. Sent = {}
  BY <1>1 DEF Sent
<1> QED BY <1>1, <1>2, <1>3, <1>4
        DEF Init, ClientInv, MissingBelowLast, MissingBounded, MissingIsPending,
            TimelineInOrder, LastHasArrived, LossIsRequested

\* Sending adds a packet a chunk's duration after the one before it, or one that
\* starts the timeline afresh.
LEMMA SendAudioCases ==
  ASSUME ClientTypes, SendAudio
  PROVE  /\ sent \in Seq(Nat) /\ Len(sent) \in Nat /\ now \in Nat
         /\ Len(sent) < MaxPackets
         /\ \E p \in Nat :
              /\ sent' = Append(sent, p)
              /\ \/ epoch' = Len(sent)
                 \/ /\ epoch' = epoch
                    /\ sent # <<>> =>
                         /\ p = sent[Len(sent)] + ChunkMs
                         /\ sent[Len(sent)] <= now + FullLead
<1> DEFINE L == Len(sent)
           lastPlayAt == IF sent = <<>> THEN 0 ELSE sent[L]
<1>1. sent \in Seq(Nat) /\ L \in Nat /\ now \in Nat /\ L < MaxPackets
  BY LenProperties DEF ClientTypes, SendAudio
<1>2. lastPlayAt \in Nat
  <2>1. CASE sent = <<>>
    BY <2>1
  <2>2. CASE sent # <<>>
    <3>1. L \in 1..L
      BY <1>1, <2>2, EmptySeq
    <3> QED BY <3>1, <1>1, <2>2, ElementOfSeq
  <2> QED BY <2>1, <2>2
<1>3. PICK e \in Emissions(now, lastPlayAt) :
        /\ sent' = Append(sent, e.playAt)
        /\ epoch' = IF e.reset THEN L ELSE epoch
  BY DEF SendAudio
<1>4. ColdStartMs \in Nat /\ ChunkMs \in Nat
  BY TimelineAssumption
<1>5. CASE e = [playAt |-> now + ColdStartMs, reset |-> TRUE]
  <2>1. e.playAt \in Nat /\ e.reset = TRUE
    BY <1>1, <1>4, <1>5
  <2>2. epoch' = L
    BY <1>3, <2>1
  <2> QED BY <1>1, <1>3, <2>1, <2>2
<1>6. CASE e = [playAt |-> lastPlayAt + ChunkMs, reset |-> FALSE]
           /\ lastPlayAt <= now + FullLead
  <2> HIDE DEF lastPlayAt
  <2>1. e.playAt = lastPlayAt + ChunkMs /\ e.reset = FALSE
    BY <1>6
  <2>2. e.playAt \in Nat
    BY <1>2, <1>4, <2>1
  <2>3. epoch' = epoch
    BY <1>3, <2>1
  <2>4. sent # <<>> => lastPlayAt = sent[L]
    BY DEF lastPlayAt
  <2> QED BY <1>1, <1>3, <1>6, <2>1, <2>2, <2>3, <2>4
<1> QED BY <1>5, <1>6 DEF Emissions

\* Sending changes nothing the client has.
LEMMA SendAudioClient == ClientInv /\ SendAudio => ClientInv'
<1> SUFFICES ASSUME ClientInv, SendAudio PROVE ClientInv'
  OBVIOUS
<1> DEFINE L == Len(sent)
<1>t. ClientTypes
  BY DEF ClientInv
<1>1. sent \in Seq(Nat) /\ L \in Nat /\ now \in Nat /\ L < MaxPackets
  BY <1>t, SendAudioCases
<1>2. \A i \in 1..L : sent[i] \in Nat
  BY <1>1, ElementOfSeq
<1>3. PICK p \in Nat :
        /\ sent' = Append(sent, p)
        /\ \/ epoch' = L
           \/ /\ epoch' = epoch
              /\ sent # <<>> => p = sent[L] + ChunkMs
  BY <1>t, SendAudioCases
<1>6. /\ sent' \in Seq(Nat) /\ Len(sent') = L + 1
      /\ \A i \in 1..L : sent'[i] = sent[i]
      /\ sent'[L + 1] = p
  BY <1>1, <1>3, AppendProperties
<1>u. /\ now' = now /\ arrived' = arrived /\ givenUp' = givenUp
      /\ capacity' = capacity /\ last' = last /\ missing' = missing
      /\ requests' = requests /\ astray' = astray
  BY DEF SendAudio, clientVars, historyVars
<1>e. epoch \in 0..L /\ epoch' \in 0..L
  BY <1>1, <1>3 DEF ClientInv, ClientTypes
<1>7. ClientTypes'
  <2>1. ops' \subseteq {Stop} /\ changes' \in Nat
    BY DEF ClientInv, ClientTypes, SendAudio
  <2>2. Len(sent') <= MaxPackets /\ epoch' \in 0..Len(sent')
    BY <1>1, <1>6, <1>e, IntercomClientAssumption
  <2> QED BY <1>6, <1>u, <2>1, <2>2 DEF ClientInv, ClientTypes
<1>8. \A i \in 1..L : epoch' < i => epoch' = epoch /\ sent[i] < p
  <2> SUFFICES ASSUME NEW i \in 1..L, epoch' < i PROVE epoch' = epoch /\ sent[i] < p
    OBVIOUS
  <2>1. sent # <<>> /\ L \in 1..L
    BY <1>1, EmptySeq
  <2>2. epoch' = epoch /\ p = sent[L] + ChunkMs
    BY <1>1, <1>3, <2>1
  <2>3. sent[i] \in Nat /\ sent[L] \in Nat /\ ChunkMs \in Nat \ {0}
    BY <1>2, <2>1, TimelineAssumption
  <2>4. sent[i] <= sent[L]
    <3>1. CASE i = L
      BY <3>1, <2>3
    <3>2. CASE i < L
      BY <3>2, <2>1, <2>2, <2>3 DEF ClientInv, TimelineInOrder
    <3> QED BY <3>1, <3>2, <1>1
  <2> HIDE DEF L
  <2> QED BY <2>2, <2>3, <2>4
<1> HIDE DEF L
<1>9. TimelineInOrder'
  <2> SUFFICES ASSUME NEW i \in 1..Len(sent'), NEW j \in 1..Len(sent'),
                      epoch' < i, i < j
               PROVE  sent'[i] < sent'[j]
    BY DEF TimelineInOrder
  <2>1. i \in 1..L
    BY <1>1, <1>6
  <2>2. epoch < i
    BY <2>1, <1>8
  <2>3. CASE j \in 1..L
    BY <2>1, <2>2, <2>3, <1>6 DEF ClientInv, TimelineInOrder, L
  <2>4. CASE j = L + 1
    BY <2>1, <2>4, <1>6, <1>8
  <2> QED BY <2>3, <2>4, <1>1, <1>6
<1>10. Sent' = Sent \cup {L} /\ Sent \subseteq Sent' /\ Sent = 0..L-1
  BY <1>1, <1>6 DEF Sent, L
<1>11. LastHasArrived'
  BY <1>10, <1>u DEF ClientInv, LastHasArrived
<1>12. LossIsRequested'
  <2> SUFFICES ASSUME ~astray', NEW k \in Sent', k # 0, k >= epoch', SilentlyLost(k)'
               PROVE  FALSE
    BY DEF LossIsRequested
  <2>1. k < last /\ last \in Nat /\ last # 0
    BY <1>u, <1>10, <1>1 DEF SilentlyLost, ClientInv, ClientTypes, Nonces
  <2>2. last \in 0..L-1
    BY <2>1, <1>10, <1>u DEF ClientInv, LastHasArrived
  <2>3. k \in Sent /\ k + 1 \in 1..L /\ epoch' < k + 1
    BY <2>1, <2>2, <1>1, <1>10, <1>e
  <2>4. PlayAt(k)' = PlayAt(k)
    BY <2>3, <1>6 DEF PlayAt
  <2>5. SilentlyLost(k) /\ k >= epoch
    BY <2>3, <2>4, <1>u, <1>8 DEF SilentlyLost
  <2> QED BY <2>3, <2>5, <1>u DEF ClientInv, LossIsRequested
<1> QED BY <1>7, <1>9, <1>11, <1>12, <1>u
        DEF ClientInv, MissingBelowLast, MissingBounded, MissingIsPending, Pending

\* The packets a client may wait for, by number.
LEMMA SubsetBounded ==
  ASSUME ClientInv, NEW T, T \subseteq missing
  PROVE  Cardinality(T) <= capacity
<1>1. missing \subseteq Nonces
  BY DEF ClientInv, ClientTypes
<1>2. IsFiniteSet(missing) /\ Cardinality(missing) \in Nat /\ Cardinality(T) \in Nat
  BY <1>1, FiniteNonces
<1>3. Cardinality(T) <= Cardinality(missing)
  BY <1>2, FS_Subset
<1>4. capacity \in Nat
  BY ElementsType DEF ClientInv, ClientTypes
<1> QED BY <1>2, <1>3, <1>4 DEF ClientInv, MissingBounded

\* A step that takes packets out of missing_packets only to give them up, or
\* because they are too late, and leaves every remaining one its task.
LEMMA StopClient ==
  ASSUME ClientInv, HandleStop, UNCHANGED <<now, sent, epoch, arrived, givenUp>>,
         ops' \subseteq ops, astray' \in BOOLEAN, changes' \in Nat
  PROVE  ClientInv'
<1>1. ClientTypes'
  BY IntercomClientAssumption DEF HandleStop, ClientInv, ClientTypes, Nonces
<1>2. Cardinality({}) = 0
  BY FS_EmptySet
<1>3. LossIsRequested'
  <2> SUFFICES ASSUME NEW k \in Sent', SilentlyLost(k)' PROVE FALSE
    BY DEF LossIsRequested
  <2>1. k < 0 /\ k \in 0..Len(sent) - 1
    BY DEF SilentlyLost, HandleStop, Sent
  <2>2. Len(sent) \in Nat
    BY LenProperties DEF ClientInv, ClientTypes
  <2> QED BY <2>1, <2>2
<1> QED BY <1>1, <1>2, <1>3
        DEF HandleStop, ClientInv, MissingBelowLast, MissingBounded, MissingIsPending,
            TimelineInOrder, LastHasArrived

LEMMA RequestTaskClient ==
  ASSUME ClientInv, NEW n \in Nonces, NEW r \in 0..Retries, RequestTask(n, r)
  PROVE  ClientInv'
<1>1. /\ now' = now /\ sent' = sent /\ epoch' = epoch /\ arrived' = arrived /\ ops' = ops
      /\ capacity' = capacity /\ last' = last /\ astray' = astray /\ changes' = changes
      /\ givenUp' = givenUp \cup (missing \ missing')
      /\ missing' = IF r = 0 THEN missing \ {n} ELSE missing
      /\ requests' = AfterTask(n, r) /\ requests[n][r] > 0
  BY DEF RequestTask, RemoveRequest
<1>2. missing' \subseteq missing /\ missing \subseteq Nonces
  BY <1>1 DEF ClientInv, ClientTypes
<1>3. requests \in [Nonces -> [0..Retries -> Nat]] /\ requests[n] \in [0..Retries -> Nat]
  BY DEF ClientInv, ClientTypes
<1>4. r - 1 \in 0..Retries \/ r = 0
  BY RetriesType
<1>5. requests' \in [Nonces -> [0..Retries -> Nat]]
  <2>1. ASSUME r > 0 PROVE RetryTask(requests[n], r) \in [0..Retries -> Nat]
    <3>1. r - 1 \in 0..Retries
      BY <2>1, <1>4
    <3> QED BY <3>1, <1>1, <1>3, MoveCount
  <2>2. EndTask(requests[n], r) \in [0..Retries -> Nat]
    BY <1>1, <1>3, EndCount
  <2> QED BY <2>1, <2>2, <1>1, <1>3 DEF AfterTask
<1>6. ClientTypes'
  BY <1>1, <1>2, <1>5 DEF ClientInv, ClientTypes
<1>7. MissingIsPending'
  <2> SUFFICES ASSUME NEW m \in missing' PROVE Pending(m)'
    BY DEF MissingIsPending
  <2>1. PICK q \in 0..Retries : requests[m][q] > 0
    BY <1>2 DEF ClientInv, MissingIsPending, Pending
  <2>2. CASE m # n
    <3>1. requests'[m] = requests[m]
      BY <1>1, <1>2, <1>3, <2>2 DEF AfterTask
    <3> QED BY <2>1, <3>1 DEF Pending
  <2>3. CASE m = n
    <3>1. r > 0 /\ n \in missing /\ r - 1 \in 0..Retries
      BY <2>3, <1>1, <1>2, <1>4, RetriesType
    <3>2. requests'[n] = RetryTask(requests[n], r)
      BY <3>1, <1>1, <1>3 DEF AfterTask
    <3>3. requests'[n][r-1] > 0
      BY <3>1, <3>2, <1>1, <1>3, MoveCount
    <3> QED BY <2>3, <3>1, <3>3 DEF Pending
  <2> QED BY <2>2, <2>3
<1>8. MissingBounded'
  BY <1>1, <1>2, SubsetBounded DEF MissingBounded
<1>9. LossIsRequested'
  <2> SUFFICES ASSUME ~astray', NEW k \in Sent', k # 0, k >= epoch', SilentlyLost(k)'
               PROVE  FALSE
    BY DEF LossIsRequested
  <2>1. SilentlyLost(k) /\ k \in Sent
    BY <1>1 DEF SilentlyLost, Sent, PlayAt
  <2> QED BY <1>1, <2>1 DEF ClientInv, LossIsRequested
<1> QED BY <1>1, <1>2, <1>6, <1>7, <1>8, <1>9
        DEF ClientInv, MissingBelowLast, TimelineInOrder, LastHasArrived, Sent

\* Storing a chunk: the gap before it, if any, is requested or declared lost.
LEMMA StoreClient ==
  ASSUME IntWideEnough, ClientInv, NEW n \in Sent, StoreChunk(n),
         UNCHANGED <<now, sent, epoch, ops, changes>>, arrived' = arrived \cup {n}
  PROVE  ClientInv'
<1> DEFINE cap == BufferCapacity
           pending == missing \ {n}
           ahead == ~IsNextChunk(n) /\ n >= last
           huge == ahead /\ n - last >= cap
<1>1. PICK from \in IF ahead /\ ~huge THEN RequestFrom(n, cap) ELSE {n} :
        LET lost == {i \in from..n-1 : i \notin pending}
        IN  /\ missing' \in LimitMissing(pending \cup lost, cap)
            /\ requests' = SendRequests(lost)
  BY DEF StoreChunk, RemoveRequest
<1> DEFINE lost == {i \in from..n-1 : i \notin pending}
<1>2. /\ capacity' = cap
      /\ last' = IF n > last THEN n ELSE last
      /\ givenUp' = givenUp \cup ((pending \ missing') \cup IF huge THEN 0..n-1 ELSE {})
      /\ missing' \in LimitMissing(pending \cup lost, cap)
      /\ requests' = SendRequests(lost)
      /\ astray' = (astray /\ ~huge)
  BY <1>1 DEF StoreChunk, RemoveRequest
<1>a. astray' \in BOOLEAN /\ (~astray' => ~astray \/ huge)
  <2> HIDE DEF huge
  <2> QED BY <1>2, Zenon DEF ClientInv, ClientTypes
<1>3. /\ now \in Nat /\ Len(sent) \in Nat /\ Len(sent) <= MaxPackets
      /\ last \in Nat /\ n \in Nat /\ n < Len(sent) /\ MaxPackets \in Nat
  BY LenProperties, IntercomClientAssumption DEF ClientInv, ClientTypes, Nonces, Sent
<1>4. cap \in Nat /\ cap >= 1 /\ (capacity = 0 \/ capacity = cap) /\ cap = Elements
  BY ElementsType DEF BufferCapacity, ClientInv, ClientTypes
<1> HIDE DEF cap
<1>5. ahead /\ ~huge => from = last + 1
  <2> SUFFICES ASSUME ahead, ~huge PROVE from = last + 1
    OBVIOUS
  <2>1. from \in RequestFrom(n, cap)
    BY <1>1
  <2>2. n - cap < last /\ n < IntMax /\ last <= n /\ IntMax \in Nat
    BY <1>3, <1>4, IntercomClientAssumption DEF IntWideEnough
  <2>3. ToInt(last) = last /\ ToInt(n - cap) = n - cap
    BY <2>2, <1>3, <1>4 DEF ToInt
  <2> QED BY <2>1, <2>2, <2>3, <1>3, <1>4 DEF RequestFrom
<1>6. ~(ahead /\ ~huge) => lost = {}
  BY <1>1, <1>3
<1>7. lost \subseteq Nonces /\ \A i \in lost : i \in Nat /\ last < i /\ i < n
  BY <1>3, <1>5, <1>6 DEF Nonces
<1>8. pending \subseteq Nonces /\ \A i \in pending : i \in Nat /\ i < last
  <2>1. missing \subseteq Nonces /\ \A i \in missing : i < last
    BY DEF ClientInv, ClientTypes, MissingBelowLast
  <2>2. Nonces \subseteq Nat
    BY <1>3 DEF Nonces
  <2> QED BY <2>1, <2>2
<1>z. last <= last' /\ n <= last' /\ last' \in Nat
  BY <1>2, <1>3
<1> HIDE DEF lost
<1>9. /\ missing' \subseteq pending \cup lost
      /\ Cardinality(missing') <= cap
  BY <1>2 DEF LimitMissing
<1>10. MissingBounded'
  BY <1>2, <1>9 DEF MissingBounded
<1>11. MissingBelowLast'
  <2> SUFFICES ASSUME NEW m \in missing' PROVE m < last'
    BY DEF MissingBelowLast
  <2> HIDE DEF pending
  <2>1. m \in pending \/ m \in lost
    BY <1>9
  <2> QED BY <2>1, <1>3, <1>7, <1>8, <1>z
<1>12. /\ requests \in [Nonces -> [0..Retries -> Nat]]
       /\ Retries \in 0..Retries
  BY RetriesType DEF ClientInv, ClientTypes
<1>13. ASSUME NEW m \in Nonces
       PROVE  /\ requests'[m] \in [0..Retries -> Nat]
              /\ \A q \in 0..Retries : requests[m][q] <= requests'[m][q]
              /\ m \in lost => requests'[m][Retries] > 0
  <2>1. requests'[m] = IF m \in lost THEN NewTask(requests[m]) ELSE requests[m]
    BY <1>2 DEF SendRequests
  <2>2. requests[m] \in [0..Retries -> Nat] /\ requests[m][Retries] \in Nat
    BY <1>12
  <2>3. CASE m \in lost
    <3>1. requests'[m] = NewTask(requests[m])
      BY <2>1, <2>3
    <3>2. /\ NewTask(requests[m]) \in [0..Retries -> Nat]
          /\ \A q \in 0..Retries : requests[m][q] <= NewTask(requests[m])[q]
          /\ NewTask(requests[m])[Retries] > 0
      BY <2>2, AddCount
    <3> QED BY <3>1, <3>2
  <2>4. CASE m \notin lost
    <3>1. requests'[m] = requests[m]
      BY <2>1, <2>4
    <3>2. \A q \in 0..Retries : requests[m][q] \in Nat
      BY <2>2
    <3>3. \A q \in 0..Retries : requests[m][q] <= requests'[m][q]
      BY <3>1, <3>2
    <3> QED BY <3>1, <3>3, <2>2, <2>4
  <2> QED BY <2>3, <2>4
<1>14. requests' \in [Nonces -> [0..Retries -> Nat]]
  BY <1>2, <1>13 DEF SendRequests
<1>15. MissingIsPending'
  <2> SUFFICES ASSUME NEW m \in missing' PROVE Pending(m)'
    BY DEF MissingIsPending
  <2>1. m \in Nonces
    BY <1>7, <1>8, <1>9
  <2>2. CASE m \in lost
    BY <2>1, <2>2, <1>12, <1>13 DEF Pending
  <2>3. CASE m \in pending
    <3>1. PICK q \in 0..Retries : requests[m][q] > 0
      BY <2>3 DEF ClientInv, MissingIsPending, Pending
    <3>2. requests[m][q] \in Nat /\ requests'[m][q] \in Nat
      BY <2>1, <1>12, <1>13
    <3>3. requests'[m][q] > 0
      BY <3>1, <3>2, <2>1, <1>13
    <3> QED BY <3>3 DEF Pending
  <2> QED BY <2>2, <2>3, <1>9
<1>16. ClientTypes'
  <2>1. givenUp' \subseteq Nonces
    <3>1. givenUp \subseteq Nonces /\ 0..n-1 \subseteq Nonces
      BY <1>3 DEF ClientInv, ClientTypes, Nonces
    <3> HIDE DEF pending, huge
    <3> QED BY <3>1, <1>2, <1>8
  <2>2. arrived' \subseteq Nonces /\ last' \in Nonces
    BY <1>2, <1>3 DEF ClientInv, ClientTypes, Nonces
  <2>3. missing' \subseteq Nonces
    BY <1>7, <1>8, <1>9
  <2> QED BY <2>1, <2>2, <2>3, <1>2, <1>4, <1>14, <1>a DEF ClientInv, ClientTypes
<1>17. LastHasArrived'
  <2>1. n \in arrived' /\ Sent' = Sent /\ arrived \subseteq arrived'
    BY DEF Sent
  <2>2. huge => last' = n
    BY <1>2, <1>3
  <2> QED BY <2>1, <2>2, <1>2, <1>a DEF ClientInv, LastHasArrived
<1>18. LossIsRequested'
  <2> SUFFICES ASSUME ~astray', NEW k \in Sent', k # 0, k >= epoch', SilentlyLost(k)'
               PROVE  FALSE
    BY DEF LossIsRequested
  <2>1. /\ k \in Sent /\ k \in Nat /\ k < last' /\ PlayAt(k) > now
        /\ k \notin arrived /\ k # n /\ k \notin givenUp' /\ k \notin missing'
    BY <1>3 DEF SilentlyLost, Sent, PlayAt
  <2>0. ~huge /\ ~astray
    <3>1. huge => k < n /\ 0..n-1 \subseteq givenUp'
      BY <2>1, <1>2, <1>3
    <3>2. ~huge
      BY <3>1, <2>1, <1>3
    <3> QED BY <3>2, <1>a
  <2>2. CASE k < last
    <3>1. k \in missing
      BY <2>0, <2>1, <2>2, <1>2 DEF ClientInv, LossIsRequested, SilentlyLost
    <3> QED BY <3>1, <2>1, <1>2
  <2>3. CASE k = last
    BY <2>0, <2>1, <2>3 DEF ClientInv, LastHasArrived
  <2>4. CASE last < k
    <3>1. k < n /\ n > last
      BY <2>1, <2>4, <1>2, <1>3
    <3>2. ahead
      BY <3>1, <2>1, <2>4, <1>3 DEF IsNextChunk
    <3>3. ~huge
      BY <2>0
    <3>4. k \in pending \cup lost
      BY <3>1, <3>2, <3>3, <2>1, <2>4, <1>3, <1>5 DEF lost
    <3>5. n - last < cap + 1
      BY <3>2, <3>3, <1>3, <1>4
    <3>6. \A x \in pending \cup lost : x < n
      <4> SUFFICES ASSUME NEW x \in pending \cup lost PROVE x < n
        OBVIOUS
      <4> HIDE DEF pending
      <4> QED BY <1>3, <1>7, <1>8, <3>1
    <3>7. k \in missing'
      BY <1>2, <1>3, <1>4, <1>7, <1>8, <2>4, <3>4, <3>5, <3>6, LimitKeepsNew
    <3> QED BY <3>7, <2>1
  <2> QED BY <2>1, <2>2, <2>3, <2>4, <1>3
<1> QED BY <1>10, <1>11, <1>15, <1>16, <1>17, <1>18 DEF ClientInv, TimelineInOrder

\* Discarding a late chunk: what is no longer waited for is late as well.
LEMMA DiscardClient ==
  ASSUME ClientInv, NEW n \in Sent, DiscardChunk(n),
         UNCHANGED <<now, sent, epoch, ops, changes>>, arrived' = arrived \cup {n}
  PROVE  ClientInv'
<1>1. /\ capacity' = BufferCapacity /\ PlayAt(n) <= now
      /\ last' = IF n > last THEN n ELSE last
      /\ missing' = {m \in missing : m > n /\ m # n}
      /\ requests' = requests /\ givenUp' = givenUp /\ astray' = astray
  BY DEF DiscardChunk, RemoveRequest
<1>2. /\ now \in Nat /\ Len(sent) \in Nat /\ Len(sent) <= MaxPackets /\ sent \in Seq(Nat)
      /\ last \in Nat /\ n \in Nat /\ n < Len(sent) /\ MaxPackets \in Nat
  BY LenProperties, IntercomClientAssumption DEF ClientInv, ClientTypes, Nonces, Sent
<1>3. missing' \subseteq missing /\ missing \subseteq Nonces
  BY <1>1 DEF ClientInv, ClientTypes
<1>4. BufferCapacity = Elements /\ (capacity = 0 \/ capacity = Elements)
  BY ElementsType DEF BufferCapacity, ClientInv, ClientTypes
<1>5. MissingBounded'
  <2>1. Cardinality(missing') <= capacity /\ Cardinality(missing') \in Nat
    BY <1>3, SubsetBounded, FiniteNonces
  <2> QED BY <2>1, <1>1, <1>4, ElementsType DEF MissingBounded
<1>6. MissingBelowLast'
  BY <1>1, <1>2, <1>3 DEF ClientInv, MissingBelowLast, Nonces
<1>7. ClientTypes'
  <2>1. last' \in Nonces /\ arrived' \subseteq Nonces
    BY <1>1, <1>2 DEF ClientInv, ClientTypes, Nonces
  <2> QED BY <2>1, <1>1, <1>3, <1>4 DEF ClientInv, ClientTypes
<1>8. LastHasArrived'
  BY <1>1 DEF ClientInv, LastHasArrived, Sent
<1>9. LossIsRequested'
  <2> SUFFICES ASSUME ~astray', NEW k \in Sent', k # 0, k >= epoch', SilentlyLost(k)'
               PROVE  FALSE
    BY DEF LossIsRequested
  <2>1. /\ k \in Sent /\ k \in Nat /\ k < Len(sent) /\ k < last' /\ PlayAt(k) > now
        /\ k \notin arrived /\ k # n /\ k \notin givenUp /\ k \notin missing'
    BY <1>1, <1>2 DEF SilentlyLost, Sent, PlayAt
  <2>2. ~(k < n)
    <3> SUFFICES ASSUME k < n PROVE FALSE
      OBVIOUS
    <3>1. k+1 \in 1..Len(sent) /\ n+1 \in 1..Len(sent) /\ k+1 < n+1 /\ epoch < k+1
      BY <2>1, <1>2 DEF ClientInv, ClientTypes
    <3>2. sent[k+1] < sent[n+1]
      BY <3>1 DEF ClientInv, TimelineInOrder
    <3>3. sent[k+1] \in Nat /\ sent[n+1] \in Nat
      BY <3>1, <1>2, ElementOfSeq
    <3>4. sent[k+1] > now /\ sent[n+1] <= now /\ now \in Nat
      BY <2>1, <1>1, <1>2 DEF PlayAt
    <3> QED BY ONLY <3>2, <3>3, <3>4
  <2>3. k > n /\ k < last
    BY <2>1, <2>2, <1>1, <1>2
  <2>4. k \in missing
    BY <1>1, <2>1, <2>3 DEF ClientInv, LossIsRequested, SilentlyLost
  <2> QED BY <2>1, <2>3, <2>4, <1>1
<1> QED BY <1>1, <1>3, <1>5, <1>6, <1>7, <1>8, <1>9
        DEF ClientInv, TimelineInOrder, MissingIsPending, Pending

\* A step that changes neither the bookkeeping nor the timeline.
LEMMA QuietClient ==
  ASSUME ClientInv,
         UNCHANGED <<sent, epoch, capacity, last, missing, requests, arrived, givenUp, astray,
                     changes>>,
         now' \in Nat, now <= now', ops' \subseteq {Stop}
  PROVE  ClientInv'
<1>1. ClientTypes'
  BY DEF ClientInv, ClientTypes
<1>2. LossIsRequested'
  <2> SUFFICES ASSUME ~astray', NEW k \in Sent', k # 0, k >= epoch', SilentlyLost(k)'
               PROVE  FALSE
    BY DEF LossIsRequested
  <2>1. k \in Sent /\ k + 1 \in 1..Len(sent) /\ PlayAt(k) > now'
    <3>1. Len(sent) \in Nat
      BY LenProperties DEF ClientInv, ClientTypes
    <3> QED BY <3>1 DEF SilentlyLost, Sent, PlayAt
  <2>2. PlayAt(k) \in Nat /\ now \in Nat
    BY <2>1, ElementOfSeq DEF PlayAt, ClientInv, ClientTypes
  <2>3. SilentlyLost(k)
    BY <2>1, <2>2 DEF SilentlyLost
  <2> QED BY <2>1, <2>3 DEF ClientInv, LossIsRequested
<1> QED BY <1>1, <1>2
        DEF ClientInv, MissingBelowLast, MissingBounded, MissingIsPending, Pending,
            TimelineInOrder, LastHasArrived, Sent

\* Chunks that follow one another without a gap.
LEMMA ChunksApart ==
  ASSUME NEW p \in Nat, NEW c \in Nat, NEW i \in Nat \ {0}, NEW j \in Nat, i < j
  PROVE  p + (i - 1) * c + c <= p + (j - 1) * c
<1>1. PICK d \in Nat : j = i + 1 + d
  <2>1. j - i - 1 \in Nat /\ j = i + 1 + (j - i - 1)
    OBVIOUS
  <2> QED BY <2>1
<1>2. (j - 1) * c = (i - 1) * c + c + d * c
  BY <1>1
<1>3. d * c \in Nat /\ (i - 1) * c \in Nat
  BY <1>1
<1> QED BY <1>2, <1>3

\* Another stream: nothing is claimed of the client until it knows, but what it
\* waits for stays in order.
LEMMA ContinueClient ==
  ASSUME ClientInv, NEW s \in OtherStreams, Continue(s), ops' \subseteq {Stop}
  PROVE  ClientInv'
<1>1. /\ sent' = s /\ epoch' = 0 /\ arrived' = {} /\ givenUp' = {} /\ astray' = TRUE
      /\ changes' = changes + 1
      /\ UNCHANGED <<now, capacity, last, missing, requests>>
  BY DEF Continue, clientVars
<1>2. now \in Nat /\ changes \in Nat
  BY DEF ClientInv, ClientTypes
<1>3. PICK len \in 0..MaxPackets, p \in 1..now + ColdStartMs :
        s = [i \in 1..len |-> p + (i - 1) * ChunkMs]
  BY DEF OtherStreams
<1>4. len \in Nat /\ len <= MaxPackets /\ p \in Nat /\ ChunkMs \in Nat \ {0}
  BY <1>2, TimelineAssumption, IntercomClientAssumption
<1>5. ASSUME NEW i \in 1..len PROVE s[i] \in Nat /\ s[i] = p + (i - 1) * ChunkMs
  <2>1. s[i] = p + (i - 1) * ChunkMs
    BY <1>3
  <2>2. i - 1 \in Nat
    BY <1>4
  <2>3. (i - 1) * ChunkMs \in Nat
    BY <1>4, <2>2
  <2> QED BY <1>4, <2>1, <2>3
<1>6. s \in Seq(Nat) /\ Len(s) = len
  <2>1. s \in [1..len -> Nat]
    BY <1>3, <1>5
  <2> QED BY <1>4, <2>1, LenProperties, IsASeq
<1>7. ASSUME NEW i \in 1..len, NEW j \in 1..len, i < j PROVE s[i] < s[j]
  <2>1. s[i] + ChunkMs <= s[j]
    BY <1>4, <1>5, <1>7, ChunksApart
  <2> QED BY <1>4, <1>5, <2>1
<1>8. ClientTypes'
  BY <1>1, <1>2, <1>4, <1>6 DEF ClientInv, ClientTypes
<1> QED BY <1>1, <1>6, <1>7, <1>8
        DEF ClientInv, MissingBelowLast, MissingBounded, MissingIsPending, Pending,
            TimelineInOrder, LastHasArrived, LossIsRequested

LEMMA NextClient == IntWideEnough /\ ClientInv /\ [Next]_vars => ClientInv'
<1> SUFFICES ASSUME IntWideEnough, ClientInv, [Next]_vars PROVE ClientInv'
  OBVIOUS
<1>0. now \in Nat /\ changes \in Nat /\ ops \subseteq {Stop}
  BY DEF ClientInv, ClientTypes
<1>1. CASE SendAudio
  BY <1>1, SendAudioClient
<1>2. ASSUME NEW s \in OtherStreams, Continue(s), ops' \subseteq {Stop} PROVE ClientInv'
  BY <1>2, ContinueClient
<1>3. ASSUME NEW n \in Nonces, ReceiveAudio(n) PROVE ClientInv'
  <2>1. CASE AudioHdr(n) = lastSeen
    BY <1>0, <1>3, <2>1, QuietClient DEF ReceiveAudio, clientVars, historyVars
  <2>2. CASE AudioHdr(n) # lastSeen
    <3>1. /\ n \in Sent /\ arrived' = arrived \cup {n} /\ UNCHANGED <<now, sent, epoch, ops, changes>>
          /\ StoreChunk(n) \/ DiscardChunk(n)
      BY <1>3, <2>2 DEF ReceiveAudio
    <3> QED BY <3>1, StoreClient, DiscardClient
  <2> QED BY <2>1, <2>2
<1>4. CASE ReceiveStop
  <2>1. CASE OpHdr = lastSeen
    BY <1>0, <1>4, <2>1, QuietClient DEF ReceiveStop, clientVars
  <2>2. CASE OpHdr # lastSeen
    BY <1>0, <1>4, <2>2, StopClient DEF ReceiveStop
  <2> QED BY <2>1, <2>2
<1>9. CASE ReceiveVolume
  BY <1>0, <1>9, QuietClient DEF ReceiveVolume, clientVars, historyVars
<1>10. CASE Reconnect
  <2>1. HandleStop /\ UNCHANGED <<now, sent, epoch, arrived, givenUp>>
    BY <1>10 DEF Reconnect
  <2>2. ops' = {} /\ astray' = FALSE /\ changes' = changes + 1
    BY <1>10 DEF Reconnect
  <2>3. ops' \subseteq ops /\ changes' \in Nat
    BY <1>0, <2>2
  <2>4. astray' \in BOOLEAN
    BY <2>2, Zenon
  <2> QED BY <2>1, <2>3, <2>4, StopClient
<1>5. CASE RunRequestTask
  BY <1>5, RequestTaskClient DEF RunRequestTask
<1>6. CASE GetNextAudioChunk
  BY <1>0, <1>6, QuietClient DEF GetNextAudioChunk, historyVars
<1>7. CASE Tick
  BY <1>0, <1>7, QuietClient DEF Tick, clientVars, historyVars
<1>8. CASE UNCHANGED vars
  BY <1>0, <1>8, QuietClient DEF vars, clientVars, historyVars
<1>11. CASE \E s \in OtherStreams : SetStream(s) \/ RestartServer(s)
  BY <1>0, <1>2, <1>11 DEF SetStream, RestartServer
<1> QED BY <1>1, <1>3, <1>4, <1>5, <1>6, <1>7, <1>8, <1>9, <1>10, <1>11 DEF Next

(***************************************************************************)
(* The client's bookkeeping of lost packets is consistent in every         *)
(* reachable state, for every buffer size and number of retries.           *)
(***************************************************************************)
THEOREM ClientCorrect == IntWideEnough => (Spec => []ClientInv)
<1> SUFFICES ASSUME IntWideEnough PROVE Spec => []ClientInv
  OBVIOUS
<1>1. ClientInv /\ [Next]_vars => ClientInv'
  BY NextClient
<1> QED BY InitClient, <1>1, PTL DEF Spec

(***************************************************************************)
(* No packet but the first is lost silently while it could still be        *)
(* played and the timeline has not been started afresh since, as long as   *)
(* sequence numbers fit into an int.                                       *)
(***************************************************************************)
THEOREM LossIsRequestedHolds == IntWideEnough => (Spec => []LossIsRequested)
BY ClientCorrect, PTL DEF ClientInv

(***************************************************************************)
(* missing_packets stays below the newest packet received and within the   *)
(* size of the receive buffer, and each of its entries has a request_task, *)
(* for every buffer size and number of retries.                            *)
(***************************************************************************)
THEOREM MissingCorrect == IntWideEnough => (Spec => []MissingInv)
<1>1. ClientInv => MissingInv
  BY DEF ClientInv, MissingInv
<1> QED BY <1>1, ClientCorrect, PTL

-----------------------------------------------------------------------------
(* Loops.                                                                  *)

\* A set of natural numbers has a least element, which is what replaces an
\* induction over numbers here.
LEMMA LeastNumber ==
  ASSUME NEW T, T \subseteq Nat, T # {}
  PROVE  \E m \in T : \A n \in T : m <= n
<1> DEFINE R == OpToRel(<, Nat)
<1>1. IsWellFoundedOn(R, Nat)
  BY NatLessThanWellFounded
<1>2. \A x, y \in Nat : y < x => <<y, x>> \in R
  BY DEF OpToRel
<1> HIDE DEF R
<1>3. PICK m \in T : \A y \in T : ~ (<<y, m>> \in R)
  BY <1>1, WFMin
<1>4. ASSUME NEW n \in T PROVE m <= n
  <2>1. m \in Nat /\ n \in Nat
    OBVIOUS
  <2>2. ~(n < m)
    BY <1>2, <1>3, <2>1
  <2> QED BY <2>1, <2>2
<1> QED BY <1>4

\* ... in the form it is used: if every state that fails has one of a smaller
\* measure that fails, none does.
LEMMA NoLeastFailure ==
  ASSUME NEW S, NEW m \in [S -> Nat], NEW B, B \subseteq S,
         \A x \in B : \E y \in B : m[y] < m[x]
  PROVE  B = {}
<1> SUFFICES ASSUME B # {} PROVE FALSE
  OBVIOUS
<1> DEFINE T == {m[x] : x \in B}
<1>1. T \subseteq Nat /\ T # {}
  OBVIOUS
<1>2. PICK k \in T : \A n \in T : k <= n
  BY <1>1, LeastNumber
<1>3. PICK x \in B : k = m[x]
  BY <1>2
<1>4. PICK y \in B : m[y] < m[x]
  OBVIOUS
<1>5. m[x] <= m[y] /\ m[x] \in Nat /\ m[y] \in Nat
  BY <1>2, <1>3
<1> QED BY <1>4, <1>5

(***************************************************************************)
(* A loop: while x is in C, go on with g[x]; the result is r[x] then.  It  *)
(* ends if a measure decreases, so the function that is defined by its     *)
(* recursion exists.                                                       *)
(***************************************************************************)
Ends(S, C, g, m) ==
  /\ m \in [S -> Nat]
  /\ \A x \in S : x \in C => g[x] \in S /\ m[g[x]] < m[x]

IsLoop(f, S, C, g, r) == f = [x \in S |-> IF x \in C THEN f[g[x]] ELSE r[x]]

LEMMA LoopExists ==
  ASSUME NEW S, NEW C, NEW g, NEW r, NEW m, Ends(S, C, g, m)
  PROVE  \E f : IsLoop(f, S, C, g, r)
<1>m. /\ m \in [S -> Nat]
      /\ \A x \in S : x \in C => g[x] \in S /\ m[g[x]] < m[x]
  BY DEF Ends
<1> DEFINE V == {r[x] : x \in S}
           Closed(P) == /\ \A x \in S : x \notin C => <<x, r[x]>> \in P
                        /\ \A x \in S, v \in V :
                             x \in C /\ <<g[x], v>> \in P => <<x, v>> \in P
           G == {p \in S \X V : \A P \in SUBSET (S \X V) : Closed(P) => p \in P}
<1>1. Closed(G)
  <2>1. ASSUME NEW x \in S, x \notin C PROVE <<x, r[x]>> \in G
    BY <2>1
  <2>2. ASSUME NEW x \in S, NEW v \in V, x \in C, <<g[x], v>> \in G PROVE <<x, v>> \in G
    BY <2>2
  <2> HIDE DEF G, V
  <2> QED BY <2>1, <2>2
<1>2. ASSUME NEW P \in SUBSET (S \X V), Closed(P) PROVE G \subseteq P
  BY <1>2
<1>3. G \subseteq S \X V
  OBVIOUS
<1>v. \A x \in S : r[x] \in V
  OBVIOUS
<1> HIDE DEF G, V
<1>4. \A x \in S : \E v \in V : <<x, v>> \in G
  <2> DEFINE B == {x \in S : ~\E v \in V : <<x, v>> \in G}
  <2>1. ASSUME NEW x \in B PROVE \E y \in B : m[y] < m[x]
    <3>1. x \in C
      BY <1>1, <1>v
    <3>2. g[x] \in S /\ m[g[x]] < m[x]
      BY <3>1, <1>m
    <3>3. g[x] \in B
      BY <3>1, <3>2, <1>1
    <3> QED BY <3>2, <3>3
  <2>2. B \subseteq S
    OBVIOUS
  <2> HIDE DEF B
  <2>3. B = {}
    BY <2>1, <2>2, <1>m, NoLeastFailure
  <2> QED BY <2>3 DEF B
<1>5. ASSUME NEW x \in S, NEW v \in V, <<x, v>> \in G,
             x \notin C => v # r[x],
             x \in C => <<g[x], v>> \notin G
      PROVE  FALSE
  <2> DEFINE P == G \ {<<x, v>>}
  <2>1. P \in SUBSET (S \X V)
    BY <1>3
  <2>2. ASSUME NEW y \in S, y \notin C PROVE <<y, r[y]>> \in P
    BY <1>1, <1>5, <2>2
  <2>3. ASSUME NEW y \in S, NEW u \in V, y \in C, <<g[y], u>> \in P PROVE <<y, u>> \in P
    BY <1>1, <1>5, <2>3
  <2>4. Closed(P)
    BY <2>2, <2>3
  <2>5. G \subseteq P
    BY <1>2, <2>1, <2>4
  <2> QED BY <1>5, <2>5
<1>6. \A x \in S : \A v, w \in V : <<x, v>> \in G /\ <<x, w>> \in G => v = w
  <2> DEFINE B == {x \in S : \E v, w \in V : <<x, v>> \in G /\ <<x, w>> \in G /\ v # w}
  <2>1. ASSUME NEW x \in B PROVE \E y \in B : m[y] < m[x]
    <3>1. x \in S
      OBVIOUS
    <3>2. PICK v \in V, w \in V : <<x, v>> \in G /\ <<x, w>> \in G /\ v # w
      OBVIOUS
    <3>3. x \in C
      BY <3>1, <3>2, <1>5
    <3>4. <<g[x], v>> \in G /\ <<g[x], w>> \in G
      BY <3>1, <3>2, <3>3, <1>5
    <3>5. g[x] \in S /\ m[g[x]] < m[x]
      BY <3>1, <3>3, <1>m
    <3>6. g[x] \in B
      BY <3>2, <3>4, <3>5
    <3> QED BY <3>5, <3>6
  <2>2. B \subseteq S
    OBVIOUS
  <2> HIDE DEF B
  <2>3. B = {}
    BY <2>1, <2>2, <1>m, NoLeastFailure
  <2> QED BY <2>3 DEF B
<1> DEFINE f == [x \in S |-> CHOOSE v \in V : <<x, v>> \in G]
<1>7. \A x \in S : f[x] \in V /\ <<x, f[x]>> \in G
  BY <1>4
<1>d. f \in [S -> V]
  BY <1>7
<1> HIDE DEF f
<1>8. ASSUME NEW x \in S PROVE f[x] = IF x \in C THEN f[g[x]] ELSE r[x]
  <2>1. CASE x \in C
    <3>1. g[x] \in S
      BY <2>1, <1>m
    <3>2. f[g[x]] \in V /\ <<g[x], f[g[x]]>> \in G
      BY <3>1, <1>7
    <3>3. <<x, f[g[x]]>> \in G
      BY <2>1, <3>2, <1>1
    <3> QED BY <2>1, <3>2, <3>3, <1>6, <1>7
  <2>2. CASE x \notin C
    <3>1. <<x, r[x]>> \in G
      BY <2>2, <1>1
    <3> QED BY <2>2, <3>1, <1>6, <1>7, <1>v
  <2> QED BY <2>1, <2>2
<1>9. f = [x \in S |-> IF x \in C THEN f[g[x]] ELSE r[x]]
  BY <1>8, <1>d
<1> QED BY <1>9 DEF IsLoop

\* What holds of every state the loop goes through holds of the last one.
LEMMA LoopInduction ==
  ASSUME NEW S, NEW C, NEW g, NEW r, NEW m, Ends(S, C, g, m),
         NEW f, IsLoop(f, S, C, g, r),
         NEW I, I \subseteq S, \A x \in I : x \in C => g[x] \in I,
         NEW x \in I
  PROVE  \E y \in I : y \notin C /\ f[x] = r[y]
<1>m. /\ m \in [S -> Nat]
      /\ \A z \in S : z \in C => g[z] \in S /\ m[g[z]] < m[z]
      /\ \A z \in S : f[z] = IF z \in C THEN f[g[z]] ELSE r[z]
  BY DEF Ends, IsLoop
<1> DEFINE B == {z \in I : ~\E y \in I : y \notin C /\ f[z] = r[y]}
<1>1. ASSUME NEW z \in B PROVE \E y \in B : m[y] < m[z]
  <2>1. z \in S /\ z \in I
    OBVIOUS
  <2>2. z \in C
    BY <2>1, <1>m
  <2>3. g[z] \in I /\ m[g[z]] < m[z] /\ f[z] = f[g[z]]
    BY <2>1, <2>2, <1>m
  <2>4. g[z] \in B
    BY <2>3
  <2> QED BY <2>3, <2>4
<1>2. B \subseteq S
  OBVIOUS
<1> HIDE DEF B
<1>3. B = {}
  BY <1>1, <1>2, <1>m, NoLeastFailure
<1> QED BY <1>3 DEF B

-----------------------------------------------------------------------------
(* The array heap of pqueue.c.                                             *)

(***************************************************************************)
(* b is made of elements of a, each used once, and all of a that is not    *)
(* used is in G.                                                           *)
(***************************************************************************)
Selects(p, a, b, G) ==
  /\ p \in [1..Len(b) -> 1..Len(a)]
  /\ \A i, j \in 1..Len(b) : p[i] = p[j] => i = j
  /\ \A i \in 1..Len(b) : b[i] = a[p[i]]
  /\ \A k \in 1..Len(a) : a[k] \in G \/ \E i \in 1..Len(b) : p[i] = k

Keeps(a, b, G) ==
  a \in Seq(Chunk) /\ b \in Seq(Chunk) /\ \E p : Selects(p, a, b, G)

LEMMA KeepsReflexive ==
  ASSUME NEW a \in Seq(Chunk), NEW G PROVE Keeps(a, a, G)
<1> DEFINE p == [i \in 1..Len(a) |-> i]
<1>1. p \in [1..Len(a) -> 1..Len(a)] /\ \A i \in 1..Len(a) : p[i] = i
  OBVIOUS
<1> HIDE DEF p
<1>2. Selects(p, a, a, G)
  BY <1>1 DEF Selects
<1> QED BY <1>2 DEF Keeps

LEMMA KeepsTransitive ==
  ASSUME NEW a, NEW b, NEW c, NEW G, Keeps(a, b, G), Keeps(b, c, G)
  PROVE  Keeps(a, c, G)
<1>p. PICK p : Selects(p, a, b, G)
  BY DEF Keeps
<1>q. PICK q : Selects(q, b, c, G)
  BY DEF Keeps
<1>1. /\ p \in [1..Len(b) -> 1..Len(a)]
      /\ \A i, j \in 1..Len(b) : p[i] = p[j] => i = j
      /\ \A i \in 1..Len(b) : b[i] = a[p[i]]
      /\ \A k \in 1..Len(a) : a[k] \in G \/ \E i \in 1..Len(b) : p[i] = k
  BY <1>p DEF Selects
<1>2. /\ q \in [1..Len(c) -> 1..Len(b)]
      /\ \A i, j \in 1..Len(c) : q[i] = q[j] => i = j
      /\ \A i \in 1..Len(c) : c[i] = b[q[i]]
      /\ \A k \in 1..Len(b) : b[k] \in G \/ \E i \in 1..Len(c) : q[i] = k
  BY <1>q DEF Selects
<1> DEFINE s == [i \in 1..Len(c) |-> p[q[i]]]
<1>3. /\ s \in [1..Len(c) -> 1..Len(a)]
      /\ \A i \in 1..Len(c) : q[i] \in 1..Len(b) /\ s[i] = p[q[i]]
  BY <1>1, <1>2
<1> HIDE DEF s
<1>4. ASSUME NEW i \in 1..Len(c), NEW j \in 1..Len(c), s[i] = s[j] PROVE i = j
  <2>1. q[i] \in 1..Len(b) /\ q[j] \in 1..Len(b) /\ p[q[i]] = p[q[j]]
    BY <1>3, <1>4
  <2>2. q[i] = q[j]
    BY <1>1, <2>1
  <2> QED BY <1>2, <2>2
<1>5. ASSUME NEW i \in 1..Len(c) PROVE c[i] = a[s[i]]
  <2>1. c[i] = b[q[i]] /\ b[q[i]] = a[p[q[i]]]
    BY <1>1, <1>2, <1>3
  <2> QED BY <2>1, <1>3
<1>6. ASSUME NEW k \in 1..Len(a), a[k] \notin G PROVE \E i \in 1..Len(c) : s[i] = k
  <2>1. PICK l \in 1..Len(b) : p[l] = k
    BY <1>1, <1>6
  <2>2. b[l] \notin G
    BY <1>1, <1>6, <2>1
  <2>3. PICK i \in 1..Len(c) : q[i] = l
    BY <1>2, <2>2
  <2> QED BY <1>3, <2>1, <2>3
<1>7. a \in Seq(Chunk) /\ c \in Seq(Chunk)
  BY DEF Keeps
<1>8. Selects(s, a, c, G)
  <2>1. \A i, j \in 1..Len(c) : s[i] = s[j] => i = j
    BY <1>4
  <2>2. \A i \in 1..Len(c) : c[i] = a[s[i]]
    BY <1>5
  <2>3. \A k \in 1..Len(a) : a[k] \in G \/ \E i \in 1..Len(c) : s[i] = k
    BY <1>6
  <2> QED BY ONLY <1>3, <2>1, <2>2, <2>3 DEF Selects
<1> QED BY <1>7, <1>8 DEF Keeps

LEMMA KeepsMonotonic ==
  ASSUME NEW a, NEW b, NEW G, NEW H, G \subseteq H, Keeps(a, b, G)
  PROVE  Keeps(a, b, H)
<1>1. PICK p : Selects(p, a, b, G)
  BY DEF Keeps
<1>2. Selects(p, a, b, H)
  BY <1>1 DEF Selects
<1> QED BY <1>2 DEF Keeps

LEMMA SwapKeeps ==
  ASSUME NEW q \in Seq(Chunk), NEW i \in Nat, NEW j \in Nat, i < Len(q), j < Len(q)
  PROVE  Keeps(q, Swap(q, i, j), {}) /\ Len(Swap(q, i, j)) = Len(q)
<1> DEFINE n == Len(q)
           u == Swap(q, i, j)
           p == [k \in 1..n |-> IF k = i+1 THEN j+1 ELSE IF k = j+1 THEN i+1 ELSE k]
<1>1. n \in Nat /\ q \in [1..n -> Chunk] /\ i+1 \in 1..n /\ j+1 \in 1..n
  BY LenProperties
<1>2. q[i+1] \in Chunk /\ q[j+1] \in Chunk
  BY <1>1
<1> HIDE DEF n
<1>3. u \in [1..n -> Chunk]
  BY <1>1, <1>2 DEF Swap
<1>4. u \in Seq(Chunk) /\ Len(u) = n
  <2> HIDE DEF u
  <2> QED BY <1>1, <1>3, IsASeq, LenProperties
<1>5. /\ p \in [1..n -> 1..n]
      /\ \A k \in 1..n : p[k] = IF k = i+1 THEN j+1 ELSE IF k = j+1 THEN i+1 ELSE k
  BY <1>1
<1>6. \A k \in 1..n : u[k] = q[p[k]]
  BY <1>1, <1>5 DEF Swap
<1> HIDE DEF p, u
<1>7. \A k, l \in 1..n : p[k] = p[l] => k = l
  BY <1>1, <1>5
<1>8. \A k \in 1..n : \E l \in 1..n : p[l] = k
  <2> TAKE k \in 1..n
  <2>1. p[k] \in 1..n /\ p[p[k]] = k
    BY <1>1, <1>5
  <2> QED BY <2>1
<1>9. Selects(p, q, u, {})
  BY <1>4, <1>5, <1>6, <1>7, <1>8 DEF Selects, n
<1> QED BY <1>4, <1>9 DEF Keeps, n, u

LEMMA PositionType ==
  ASSUME NEW s \in Positions
  PROVE  /\ s = <<s[1], s[2]>> /\ s[1] \in Seq(Chunk) /\ s[2] \in Nat /\ s[2] < Len(s[1])
         /\ Len(s[1]) \in Nat
<1>1. s \in Seq(Chunk) \X Nat /\ s[2] < Len(s[1])
  BY DEF Positions
<1>2. s[1] \in Seq(Chunk) /\ s[2] \in Nat /\ s = <<s[1], s[2]>>
  BY <1>1
<1> QED BY <1>1, <1>2, LenProperties

LEMMA IsPosition ==
  ASSUME NEW q \in Seq(Chunk), NEW i \in Nat, i < Len(q)
  PROVE  <<q, i>> \in Positions
BY DEF Positions

\* A round of the loop of pqueue_enqueue.
SiftsUp(t) == t[2] > 0 /\ Precedes(At(t[1], t[2]), At(t[1], Parent(t[2])))
SiftUpStep(t) == <<Swap(t[1], t[2], Parent(t[2])), Parent(t[2])>>

LEMMA SiftUpRound ==
  ASSUME NEW t \in Positions, SiftsUp(t)
  PROVE  /\ SiftUpStep(t) \in Positions /\ SiftUpStep(t)[2] < t[2]
         /\ Keeps(t[1], SiftUpStep(t)[1], {}) /\ Len(SiftUpStep(t)[1]) = Len(t[1])
<1> DEFINE q == t[1]
           i == t[2]
           u == Swap(q, i, Parent(i))
<1>1. q \in Seq(Chunk) /\ i \in Nat /\ i < Len(q) /\ i > 0 /\ Len(q) \in Nat
  BY PositionType DEF SiftsUp
<1>2. Parent(i) \in Nat /\ Parent(i) < i /\ Parent(i) < Len(q)
  <2> HIDE DEF i, q
  <2> QED BY <1>1 DEF Parent
<1>3. Keeps(q, u, {}) /\ Len(u) = Len(q)
  BY <1>1, <1>2, SwapKeeps
<1>4. u \in Seq(Chunk)
  BY <1>3 DEF Keeps
<1>5. SiftUpStep(t) = <<u, Parent(i)>>
  BY DEF SiftUpStep
<1> HIDE DEF u
<1>6. SiftUpStep(t) \in Positions
  BY <1>1, <1>2, <1>3, <1>4, <1>5, IsPosition
<1> QED BY <1>2, <1>3, <1>5, <1>6

\* The loop of pqueue_enqueue ends, and what its rounds keep holds at its end.
LEMMA SiftUpInduction ==
  ASSUME NEW I, I \subseteq Positions, NEW s \in I,
         \A t \in I : SiftsUp(t) => SiftUpStep(t) \in I
  PROVE  \E y \in I : ~SiftsUp(y) /\ SiftUp[s] = y[1]
<1> DEFINE C == {t \in Positions : SiftsUp(t)}
           g == [t \in Positions |-> SiftUpStep(t)]
           r == [t \in Positions |-> t[1]]
           m == [t \in Positions |-> t[2]]
<1>1. m \in [Positions -> Nat]
  BY PositionType
<1>2. ASSUME NEW t \in Positions, t \in C
      PROVE  g[t] \in Positions /\ m[g[t]] < m[t]
  <2>1. SiftUpStep(t) \in Positions /\ SiftUpStep(t)[2] < t[2]
    BY <1>2, SiftUpRound
  <2> QED BY <2>1
<1> HIDE DEF m
<1>3. Ends(Positions, C, g, m)
  <2> HIDE DEF C, g
  <2> QED BY <1>1, <1>2 DEF Ends
<1>4. ASSUME NEW f
      PROVE  IsLoop(f, Positions, C, g, r) <=>
             f = [t \in Positions |-> IF SiftsUp(t) THEN f[SiftUpStep(t)] ELSE t[1]]
  BY DEF IsLoop
<1>5. \E f : IsLoop(f, Positions, C, g, r)
  <2> HIDE DEF C, g, r
  <2> QED BY <1>3, LoopExists
<1>6. IsLoop(SiftUp, Positions, C, g, r)
  <2>1. PICK f : f = [t \in Positions |-> IF SiftsUp(t) THEN f[SiftUpStep(t)] ELSE t[1]]
    BY <1>4, <1>5
  <2>2. SiftUp = [t \in Positions |-> IF SiftsUp(t) THEN SiftUp[SiftUpStep(t)] ELSE t[1]]
    BY <2>1 DEF SiftUp, SiftsUp, SiftUpStep
  <2> HIDE DEF C, g, r
  <2> QED BY <2>2, <1>4
<1>8. \A t \in I : t \in C => g[t] \in I
  OBVIOUS
<1>9. \E y \in I : y \notin C /\ SiftUp[s] = r[y]
  <2> HIDE DEF C, g, r
  <2> QED BY <1>3, <1>6, <1>8, LoopInduction
<1> QED BY <1>9

\* The loop of pqueue_enqueue rearranges the queue.
LEMMA SiftUpKeeps ==
  ASSUME NEW s \in Positions
  PROVE  Keeps(s[1], SiftUp[s], {}) /\ Len(SiftUp[s]) = Len(s[1])
<1> DEFINE I == {t \in Positions : Keeps(s[1], t[1], {}) /\ Len(t[1]) = Len(s[1])}
<1>1. s \in I
  BY PositionType, KeepsReflexive
<1>2. ASSUME NEW t \in I, SiftsUp(t) PROVE SiftUpStep(t) \in I
  BY <1>2, SiftUpRound, KeepsTransitive
<1>3. \E y \in I : ~SiftsUp(y) /\ SiftUp[s] = y[1]
  <2>1. I \subseteq Positions
    OBVIOUS
  <2> HIDE DEF I
  <2> QED BY <1>1, <1>2, <2>1, SiftUpInduction
<1> QED BY <1>3

\* Which child pqueue_heapify swaps with, if it does.
LEMMA ForemostIndex ==
  ASSUME NEW q \in Seq(Chunk), NEW i \in Nat, Foremost(q, i) # i
  PROVE  Foremost(q, i) \in Nat /\ i < Foremost(q, i) /\ Foremost(q, i) < Len(q)
<1>1. Len(q) \in Nat
  BY LenProperties
<1>2. Foremost(q, i) \in {Left(i), Right(i)} /\ Foremost(q, i) < Len(q)
  BY DEF Foremost
<1>3. Left(i) \in Nat /\ Right(i) \in Nat /\ i < Left(i) /\ i < Right(i)
  BY DEF Left, Right
<1> QED BY <1>2, <1>3

HeapifyDomain == Positions \cup {<<<<>>, 0>>}

LEMMA HeapifyDomainType ==
  ASSUME NEW s \in HeapifyDomain
  PROVE  /\ s[1] \in Seq(Chunk) /\ s[2] \in Nat /\ s[2] <= Len(s[1])
         /\ Len(s[1]) \in Nat
<1>1. CASE s \in Positions
  BY <1>1, PositionType
<1>2. CASE s = <<<<>>, 0>>
  <2>1. s[1] = <<>> /\ s[2] = 0
    BY <1>2
  <2>2. <<>> \in Seq(Chunk) /\ Len(<<>>) = 0
    OBVIOUS
  <2> QED BY <2>1, <2>2
<1> QED BY <1>1, <1>2 DEF HeapifyDomain

\* A call of pqueue_heapify that goes on to a child.
SiftsDown(t) == Foremost(t[1], t[2]) # t[2]
HeapifyStep(t) == <<Swap(t[1], t[2], Foremost(t[1], t[2])), Foremost(t[1], t[2])>>

LEMMA HeapifyRound ==
  ASSUME NEW t \in HeapifyDomain, SiftsDown(t)
  PROVE  /\ HeapifyStep(t) \in HeapifyDomain
         /\ t[2] < HeapifyStep(t)[2] /\ HeapifyStep(t)[2] < Len(t[1])
         /\ Keeps(t[1], HeapifyStep(t)[1], {}) /\ Len(HeapifyStep(t)[1]) = Len(t[1])
<1> DEFINE q == t[1]
           i == t[2]
           k == Foremost(q, i)
           u == Swap(q, i, k)
<1>1. q \in Seq(Chunk) /\ i \in Nat /\ Len(q) \in Nat /\ k # i
  BY HeapifyDomainType DEF SiftsDown
<1>2. k \in Nat /\ i < k /\ k < Len(q)
  BY <1>1, ForemostIndex
<1>5. HeapifyStep(t) = <<u, k>>
  BY DEF HeapifyStep
<1> HIDE DEF k
<1>i. i < Len(q)
  <2> HIDE DEF i, q
  <2> QED BY <1>1, <1>2
<1>3. Keeps(q, u, {}) /\ Len(u) = Len(q)
  BY <1>1, <1>2, <1>i, SwapKeeps
<1>4. u \in Seq(Chunk)
  BY <1>3 DEF Keeps
<1> HIDE DEF u
<1>6. HeapifyStep(t) \in HeapifyDomain
  BY <1>1, <1>2, <1>3, <1>4, <1>5, IsPosition DEF HeapifyDomain
<1> QED BY <1>2, <1>3, <1>5, <1>6

\* pqueue_heapify ends, and what its rounds keep holds at its end.
LEMMA HeapifyInduction ==
  ASSUME NEW I, I \subseteq HeapifyDomain, NEW s \in I,
         \A t \in I : SiftsDown(t) => HeapifyStep(t) \in I
  PROVE  \E y \in I : ~SiftsDown(y) /\ Heapify[s] = y[1]
<1> DEFINE D == HeapifyDomain
           C == {t \in D : SiftsDown(t)}
           g == [t \in D |-> HeapifyStep(t)]
           r == [t \in D |-> t[1]]
           m == [t \in D |-> Len(t[1]) - t[2]]
<1>1. m \in [D -> Nat]
  <2>1. ASSUME NEW t \in D PROVE Len(t[1]) - t[2] \in Nat
    <3>1. t[2] \in Nat /\ t[2] <= Len(t[1]) /\ Len(t[1]) \in Nat
      BY HeapifyDomainType
    <3> QED BY <3>1
  <2> QED BY <2>1
<1>2. ASSUME NEW t \in D, t \in C
      PROVE  g[t] \in D /\ m[g[t]] < m[t]
  <2> DEFINE w == HeapifyStep(t)
             x == t[2]
             y == w[2]
             n == Len(t[1])
  <2>1. w \in D /\ x < y /\ y < n /\ Len(w[1]) = n
    BY <1>2, HeapifyRound
  <2>2. x \in Nat /\ y \in Nat /\ n \in Nat
    BY <2>1, HeapifyDomainType
  <2>3. g[t] = w /\ m[w] = n - y /\ m[t] = n - x
    BY <2>1
  <2> HIDE DEF w, x, y, n, m, g
  <2>4. n - y < n - x
    BY ONLY <2>1, <2>2
  <2> QED BY <2>1, <2>3, <2>4
<1> HIDE DEF m, D
<1>3. Ends(D, C, g, m)
  <2> HIDE DEF C, g
  <2> QED BY <1>1, <1>2 DEF Ends
<1>4. ASSUME NEW f
      PROVE  IsLoop(f, D, C, g, r) <=>
             f = [t \in D |-> IF SiftsDown(t) THEN f[HeapifyStep(t)] ELSE t[1]]
  BY DEF IsLoop
<1>5. \E f : IsLoop(f, D, C, g, r)
  <2> HIDE DEF C, g, r
  <2> QED BY <1>3, LoopExists
<1>6. IsLoop(Heapify, D, C, g, r)
  <2>1. PICK f : f = [t \in D |-> IF SiftsDown(t) THEN f[HeapifyStep(t)] ELSE t[1]]
    BY <1>4, <1>5
  <2>2. Heapify = [t \in D |-> IF SiftsDown(t) THEN Heapify[HeapifyStep(t)] ELSE t[1]]
    BY <2>1 DEF Heapify, D, HeapifyDomain, SiftsDown, HeapifyStep
  <2> HIDE DEF C, g, r
  <2> QED BY <2>2, <1>4
<1>7. I \subseteq D
  BY DEF D
<1>8. \A t \in I : t \in C => g[t] \in I
  BY <1>7
<1>9. \E y \in I : y \notin C /\ Heapify[s] = r[y]
  <2> HIDE DEF C, g, r
  <2> QED BY <1>3, <1>6, <1>7, <1>8, LoopInduction
<1> QED BY <1>7, <1>9

\* pqueue_heapify rearranges the queue.
LEMMA HeapifyKeeps ==
  ASSUME NEW s \in HeapifyDomain
  PROVE  Keeps(s[1], Heapify[s], {}) /\ Len(Heapify[s]) = Len(s[1])
<1> DEFINE I == {t \in HeapifyDomain : Keeps(s[1], t[1], {}) /\ Len(t[1]) = Len(s[1])}
<1>1. s \in I
  BY HeapifyDomainType, KeepsReflexive
<1>2. ASSUME NEW t \in I, SiftsDown(t) PROVE HeapifyStep(t) \in I
  BY <1>2, HeapifyRound, KeepsTransitive
<1>3. \E y \in I : ~SiftsDown(y) /\ Heapify[s] = y[1]
  <2>1. I \subseteq HeapifyDomain
    OBVIOUS
  <2> HIDE DEF I
  <2> QED BY <1>1, <1>2, <2>1, HeapifyInduction
<1> QED BY <1>3

(***************************************************************************)
(* pqueue_enqueue loses and doubles nothing: unless the queue is full, it  *)
(* holds afterwards what it held and the new element.                      *)
(***************************************************************************)
LEMMA EnqueueKeeps ==
  ASSUME NEW q \in Seq(Chunk), NEW c \in Chunk, NEW cap \in Nat, Len(q) < cap
  PROVE  /\ Keeps(Append(q, c), Enqueue(q, cap, c), {})
         /\ Len(Enqueue(q, cap, c)) = Len(q) + 1
<1>1. Len(q) \in Nat
  BY LenProperties
<1> DEFINE a == Append(q, c)
<1>2. a \in Seq(Chunk) /\ Len(a) = Len(q) + 1
  BY AppendProperties
<1>3. Enqueue(q, cap, c) = SiftUp[<<a, Len(q)>>]
  BY <1>1 DEF Enqueue
<1> HIDE DEF a
<1>4. <<a, Len(q)>> \in Positions
  BY <1>1, <1>2, IsPosition
<1>5. Keeps(a, SiftUp[<<a, Len(q)>>], {}) /\ Len(SiftUp[<<a, Len(q)>>]) = Len(a)
  BY <1>4, SiftUpKeeps
<1> QED BY <1>2, <1>3, <1>5 DEF a

\* What pqueue_dequeue gives to pqueue_heapify: the last element is put first.
LEMMA DequeueShape ==
  ASSUME NEW q \in Seq(Chunk), q # <<>>
  PROVE  \E d \in Seq(Chunk) :
           /\ Len(d) = Len(q) - 1
           /\ \A i \in 1..Len(q)-1 : d[i] = IF i = 1 THEN q[Len(q)] ELSE q[i]
           /\ <<d, 0>> \in HeapifyDomain
           /\ Dequeue(q) = Heapify[<<d, 0>>]
<1> DEFINE n == Len(q)
           moved == [q EXCEPT ![1] = q[n]]
           d == SubSeq(moved, 1, n - 1)
<1>1. n \in Nat /\ n >= 1 /\ q \in [1..n -> Chunk]
  BY LenProperties, EmptySeq
<1> HIDE DEF n
<1>2. moved \in [1..n -> Chunk] /\ \A i \in 1..n : moved[i] = IF i = 1 THEN q[n] ELSE q[i]
  BY <1>1
<1>3. moved \in Seq(Chunk) /\ Len(moved) = n
  <2> HIDE DEF moved
  <2> QED BY <1>1, <1>2, IsASeq, LenProperties
<1> HIDE DEF moved
<1>4. d \in Seq(Chunk) /\ Len(d) = n - 1 /\ \A i \in 1..n-1 : d[i] = moved[i]
  <2>1. 1 \in 1..Len(moved)+1 /\ n - 1 \in 0..Len(moved)
    BY <1>1, <1>3
  <2>2. /\ d \in Seq(Chunk)
        /\ Len(d) = IF 1 <= n-1 THEN (n-1) - 1 + 1 ELSE 0
        /\ \A i \in 1 .. (n-1) - 1 + 1 : d[i] = moved[1+i-1]
    BY <1>1, <1>3, <2>1, SubSeqProperties
  <2> HIDE DEF d
  <2>3. Len(d) = n - 1
    BY <1>1, <2>2
  <2>4. ASSUME NEW i \in 1..n-1 PROVE d[i] = moved[i]
    <3>1. i \in 1 .. (n-1) - 1 + 1 /\ 1+i-1 = i
      BY <1>1
    <3> QED BY <2>2, <3>1
  <2> QED BY <2>2, <2>3, <2>4
<1> HIDE DEF d
<1>5. \A i \in 1..n-1 : d[i] = IF i = 1 THEN q[n] ELSE q[i]
  BY <1>1, <1>2, <1>4
<1>6. <<d, 0>> \in HeapifyDomain
  <2>1. CASE n = 1
    <3>1. d = <<>>
      BY <2>1, <1>4, EmptySeq
    <3> QED BY <3>1 DEF HeapifyDomain
  <2>2. CASE n # 1
    BY <2>2, <1>1, <1>4, IsPosition DEF HeapifyDomain
  <2> QED BY <2>1, <2>2
<1>9. Dequeue(q) = Heapify[<<d, 0>>]
  BY DEF Dequeue, d, moved, n
<1> QED BY <1>4, <1>5, <1>6, <1>9 DEF n

(***************************************************************************)
(* pqueue_dequeue takes out the element at the front and nothing else.     *)
(***************************************************************************)
LEMMA DequeueKeeps ==
  ASSUME NEW q \in Seq(Chunk), q # <<>>
  PROVE  /\ Keeps(q, Dequeue(q), {q[1]})
         /\ Len(Dequeue(q)) = Len(q) - 1
<1> DEFINE n == Len(q)
           p == [i \in 1..n-1 |-> IF i = 1 THEN n ELSE i]
<1>1. n \in Nat /\ n >= 1
  BY LenProperties, EmptySeq
<1>4. PICK d \in Seq(Chunk) :
        /\ Len(d) = n - 1
        /\ \A i \in 1..n-1 : d[i] = IF i = 1 THEN q[n] ELSE q[i]
        /\ <<d, 0>> \in HeapifyDomain
        /\ Dequeue(q) = Heapify[<<d, 0>>]
  BY DequeueShape
<1> HIDE DEF n
<1>5. Keeps(q, d, {q[1]})
  <2>1. p \in [1..n-1 -> 1..n] /\ \A i \in 1..n-1 : p[i] = IF i = 1 THEN n ELSE i
    BY <1>1
  <2> HIDE DEF p
  <2>2. \A i, j \in 1..n-1 : p[i] = p[j] => i = j
    BY <1>1, <2>1
  <2>3. ASSUME NEW i \in 1..n-1 PROVE d[i] = q[p[i]]
    BY <1>1, <1>4, <2>1
  <2>4. ASSUME NEW k \in 1..n PROVE q[k] \in {q[1]} \/ \E i \in 1..n-1 : p[i] = k
    <3>1. CASE k = 1
      BY <3>1
    <3>2. CASE k # 1 /\ k = n
      <4>1. 1 \in 1..n-1 /\ p[1] = k
        BY <3>2, <1>1, <2>1
      <4> QED BY <4>1
    <3>3. CASE k # 1 /\ k # n
      <4>1. k \in 1..n-1 /\ p[k] = k
        BY <3>3, <1>1, <2>1
      <4> QED BY <4>1
    <3> QED BY <3>1, <3>2, <3>3
  <2>5. Selects(p, q, d, {q[1]})
    BY <1>4, <2>1, <2>2, <2>3, <2>4 DEF Selects, n
  <2> QED BY <1>4, <2>5 DEF Keeps
<1>7. Keeps(d, Heapify[<<d, 0>>], {}) /\ Len(Heapify[<<d, 0>>]) = Len(d)
  BY <1>4, HeapifyKeeps
<1>8. Keeps(d, Heapify[<<d, 0>>], {q[1]})
  BY <1>7, KeepsMonotonic
<1>10. Keeps(q, Heapify[<<d, 0>>], {q[1]})
  BY <1>5, <1>8, KeepsTransitive
<1> QED BY <1>4, <1>7, <1>10 DEF n

-----------------------------------------------------------------------------
(* The order of the heap, as LEFT and RIGHT see it.                        *)

Child(i, k) == k = Left(i) \/ k = Right(i)

HeapOrdered(q) ==
  \A i, k \in 0..Len(q)-1 : Child(i, k) => q[i+1].playAt <= q[k+1].playAt

\* Nothing is out of order but what is at i.
OrderedButAt(q, x) ==
  /\ \A i, k \in 0..Len(q)-1 : i # x /\ Child(i, k) => q[i+1].playAt <= q[k+1].playAt
  /\ \A i, k \in 0..Len(q)-1 : Child(i, x) /\ Child(x, k) => q[i+1].playAt <= q[k+1].playAt

LEMMA NotLater ==
  ASSUME NEW a \in Nat, NEW b \in Nat, NEW c \in Nat, a <= b, b <= c
  PROVE  a <= c
OBVIOUS

LEMMA ChildBelow ==
  ASSUME NEW i \in Nat, NEW k \in Nat, Child(i, k)
  PROVE  i < k
BY DEF Child, Left, Right

LEMMA OneParent ==
  ASSUME NEW i \in Nat, NEW j \in Nat, NEW k \in Nat, Child(i, k), Child(j, k)
  PROVE  i = j
BY DEF Child, Left, Right

LEMMA HasParent ==
  ASSUME NEW k \in Nat, k > 0
  PROVE  \E i \in Nat : i < k /\ Child(i, k)
<1> DEFINE i == (k - 1) \div 2
<1>1. i \in Nat /\ i < k /\ (k = 2 * i + 1 \/ k = 2 * i + 2)
  OBVIOUS
<1> QED BY <1>1 DEF Child, Left, Right

LEMMA PlayAtIsNat ==
  ASSUME NEW q \in Seq(Chunk)
  PROVE  Len(q) \in Nat /\ \A i \in 0..Len(q)-1 : q[i+1].playAt \in Nat
<1>1. Len(q) \in Nat
  BY LenProperties
<1>2. ASSUME NEW i \in 0..Len(q)-1 PROVE q[i+1].playAt \in Nat
  <2>1. i+1 \in 1..Len(q)
    BY <1>1
  <2>2. q[i+1] \in Chunk
    BY <2>1, ElementOfSeq
  <2> QED BY <2>2 DEF Chunk
<1> QED BY <1>1, <1>2

\* What pqueue_heapify puts at i is neither later than i nor than its children.
LEMMA ForemostIsLeast ==
  ASSUME NEW q \in Seq(Chunk), NEW i \in 0..Len(q)-1, NEW f, f = Foremost(q, i)
  PROVE  /\ f \in 0..Len(q)-1 /\ (f = i \/ Child(i, f))
         /\ q[f+1].playAt <= q[i+1].playAt
         /\ \A k \in 0..Len(q)-1 : Child(i, k) => q[f+1].playAt <= q[k+1].playAt
<1> DEFINE n == Len(q)
           l == Left(i)
           r == Right(i)
           m == IF l < n /\ Precedes(At(q, l), At(q, i)) THEN l ELSE i
<1>1. n \in Nat /\ \A k \in 0..n-1 : q[k+1].playAt \in Nat
  BY PlayAtIsNat
<1>2. l \in Nat /\ r \in Nat /\ \A k : Child(i, k) <=> k = l \/ k = r
  BY DEF Child, Left, Right
<1>3. f = IF r < n /\ Precedes(At(q, r), At(q, m)) THEN r ELSE m
  BY DEF Foremost
<1> HIDE DEF n, l, r
<1>i. i \in 0..n-1
  BY DEF n
<1>4. /\ m \in 0..n-1 /\ (m = i \/ m = l)
      /\ q[m+1].playAt <= q[i+1].playAt
      /\ l < n => q[m+1].playAt <= q[l+1].playAt
  <2>1. CASE l < n /\ Precedes(At(q, l), At(q, i))
    <3>1. m = l /\ l \in 0..n-1 /\ q[l+1].playAt < q[i+1].playAt
      BY <2>1, <1>1, <1>2 DEF Precedes, At
    <3>2. q[l+1].playAt \in Nat /\ q[i+1].playAt \in Nat
      BY <3>1, <1>1, <1>i
    <3> HIDE DEF m
    <3> QED BY <3>1, <3>2
  <2>2. CASE ~(l < n /\ Precedes(At(q, l), At(q, i)))
    <3>1. m = i /\ (l < n => ~(q[l+1].playAt < q[i+1].playAt))
      BY <2>2 DEF Precedes, At
    <3>2. l < n => l \in 0..n-1
      BY <1>1, <1>2
    <3>3. q[i+1].playAt \in Nat /\ (l < n => q[l+1].playAt \in Nat)
      BY <3>2, <1>1, <1>i
    <3> HIDE DEF m
    <3> QED BY <3>1, <3>3, <1>i
  <2> QED BY <2>1, <2>2
<1> HIDE DEF m
<1>5. /\ f \in 0..n-1 /\ (f = m \/ f = r)
      /\ q[f+1].playAt <= q[m+1].playAt
      /\ r < n => q[f+1].playAt <= q[r+1].playAt
  <2>1. CASE r < n /\ Precedes(At(q, r), At(q, m))
    <3>1. f = r /\ r \in 0..n-1 /\ q[r+1].playAt < q[m+1].playAt
      BY <2>1, <1>1, <1>2, <1>3 DEF Precedes, At
    <3>2. q[r+1].playAt \in Nat /\ q[m+1].playAt \in Nat
      BY <3>1, <1>1, <1>4
    <3> QED BY <3>1, <3>2
  <2>2. CASE ~(r < n /\ Precedes(At(q, r), At(q, m)))
    <3>1. f = m /\ (r < n => ~(q[r+1].playAt < q[m+1].playAt))
      BY <2>2, <1>3 DEF Precedes, At
    <3>2. r < n => r \in 0..n-1
      BY <1>1, <1>2
    <3>3. q[m+1].playAt \in Nat /\ (r < n => q[r+1].playAt \in Nat)
      BY <3>2, <1>1, <1>4
    <3> QED BY <3>1, <3>3, <1>4
  <2> QED BY <2>1, <2>2
<1>6. f = i \/ Child(i, f)
  BY <1>2, <1>4, <1>5
<1>7. q[f+1].playAt \in Nat /\ q[m+1].playAt \in Nat /\ q[i+1].playAt \in Nat
  BY <1>1, <1>4, <1>5, <1>i
<1>8. q[f+1].playAt <= q[i+1].playAt
  BY <1>4, <1>5, <1>7, NotLater
<1>9. ASSUME NEW k \in 0..n-1, Child(i, k) PROVE q[f+1].playAt <= q[k+1].playAt
  <2>1. k < n /\ q[k+1].playAt \in Nat
    BY <1>1
  <2>2. CASE k = r
    BY <2>1, <2>2, <1>5
  <2>3. CASE k = l
    <3>1. q[m+1].playAt <= q[k+1].playAt
      BY <2>1, <2>3, <1>4
    <3> QED BY <3>1, <2>1, <1>5, <1>7, NotLater
  <2> QED BY <2>2, <2>3, <1>2, <1>9
<1> QED BY <1>5, <1>6, <1>8, <1>9 DEF n

LEMMA SwapAt ==
  ASSUME NEW q \in Seq(Chunk), NEW i \in 0..Len(q)-1, NEW k \in 0..Len(q)-1, i # k,
         NEW u, u = Swap(q, i, k)
  PROVE  /\ u[i+1] = q[k+1] /\ u[k+1] = q[i+1]
         /\ \A j \in 0..Len(q)-1 : j # i /\ j # k => u[j+1] = q[j+1]
<1>1. Len(q) \in Nat /\ q \in [1..Len(q) -> Chunk]
  BY LenProperties
<1>2. i+1 \in 1..Len(q) /\ k+1 \in 1..Len(q) /\ i+1 # k+1
  BY <1>1
<1>3. u[i+1] = q[k+1] /\ u[k+1] = q[i+1]
  BY <1>1, <1>2 DEF Swap
<1>4. ASSUME NEW j \in 0..Len(q)-1, j # i, j # k PROVE u[j+1] = q[j+1]
  <2>1. j+1 \in 1..Len(q) /\ j+1 # i+1 /\ j+1 # k+1
    BY <1>1, <1>4
  <2> QED BY <1>1, <2>1 DEF Swap
<1> QED BY <1>3, <1>4

\* One swap mends the order at i and leaves only the child in doubt.
LEMMA SwapMends ==
  ASSUME NEW q \in Seq(Chunk), NEW i \in 0..Len(q)-1, OrderedButAt(q, i),
         NEW f, f = Foremost(q, i), f # i, NEW u, u = Swap(q, i, f), Len(u) = Len(q)
  PROVE  OrderedButAt(u, f)
<1> DEFINE n == Len(q)
<1>1. n \in Nat /\ \A k \in 0..n-1 : q[k+1].playAt \in Nat
  BY PlayAtIsNat
<1>2. /\ f \in 0..n-1 /\ Child(i, f) /\ q[f+1].playAt <= q[i+1].playAt
      /\ \A k \in 0..n-1 : Child(i, k) => q[f+1].playAt <= q[k+1].playAt
  BY ForemostIsLeast
<1>3. /\ u[i+1] = q[f+1] /\ u[f+1] = q[i+1]
      /\ \A j \in 0..n-1 : j # i /\ j # f => u[j+1] = q[j+1]
  BY <1>2, SwapAt
<1>4. /\ \A j, k \in 0..n-1 : j # i /\ Child(j, k) => q[j+1].playAt <= q[k+1].playAt
      /\ \A j, k \in 0..n-1 : Child(j, i) /\ Child(i, k) => q[j+1].playAt <= q[k+1].playAt
  BY DEF OrderedButAt
<1>l. Len(u) = n /\ i \in 0..n-1
  OBVIOUS
<1> HIDE DEF n
<1>n. \A k \in 0..n-1 : k \in Nat
  BY <1>1
<1>5. ASSUME NEW j \in 0..n-1, NEW k \in 0..n-1, j # f, Child(j, k)
      PROVE  u[j+1].playAt <= u[k+1].playAt
  <2>1. j < k
    BY <1>5, <1>n, ChildBelow
  <2>2. CASE j = i /\ k = f
    BY <2>2, <1>2, <1>3
  <2>3. CASE j = i /\ k # f
    <3>1. k # i
      BY <2>1, <2>3, <1>n
    <3> QED BY <3>1, <2>3, <1>2, <1>3, <1>5
  <2>4. CASE j # i /\ k = i
    <3>1. u[j+1] = q[j+1] /\ u[k+1] = q[f+1]
      BY <2>4, <1>3, <1>5
    <3> QED BY <3>1, <2>4, <1>2, <1>4, <1>5
  <2>5. CASE j # i /\ k = f
    <3>1. j = i
      BY <2>5, <1>2, <1>5, <1>l, <1>n, OneParent
    <3> QED BY <3>1, <2>5
  <2>6. CASE j # i /\ k # i /\ k # f
    <3>1. u[j+1] = q[j+1] /\ u[k+1] = q[k+1]
      BY <2>6, <1>3, <1>5
    <3> QED BY <3>1, <2>6, <1>4, <1>5
  <2> QED BY <2>2, <2>3, <2>4, <2>5, <2>6
<1>6. ASSUME NEW j \in 0..n-1, NEW k \in 0..n-1, Child(j, f), Child(f, k)
      PROVE  u[j+1].playAt <= u[k+1].playAt
  <2>1. j = i
    BY <1>2, <1>6, <1>l, <1>n, OneParent
  <2>2. i < f /\ f < k
    BY <1>2, <1>6, <1>l, <1>n, ChildBelow
  <2>3. k # i /\ k # f
    BY <2>2, <1>l, <1>n, <1>2
  <2>4. u[j+1] = q[f+1] /\ u[k+1] = q[k+1]
    BY <2>1, <2>3, <1>3
  <2>5. f # i
    OBVIOUS
  <2> QED BY <2>4, <2>5, <1>2, <1>4, <1>6
<1> QED BY <1>5, <1>6, <1>l DEF OrderedButAt

\* Where pqueue_heapify ends, the order is whole.
LEMMA NoMoreToMend ==
  ASSUME NEW q \in Seq(Chunk), NEW i \in Nat, OrderedButAt(q, i), Foremost(q, i) = i
  PROVE  HeapOrdered(q)
<1> SUFFICES ASSUME NEW j \in 0..Len(q)-1, NEW k \in 0..Len(q)-1, Child(j, k)
             PROVE  q[j+1].playAt <= q[k+1].playAt
  BY DEF HeapOrdered
<1>1. CASE j # i
  BY <1>1 DEF OrderedButAt
<1>2. CASE j = i
  <2>1. i \in 0..Len(q)-1
    BY <1>2
  <2> QED BY <1>2, <2>1, ForemostIsLeast
<1> QED BY <1>1, <1>2

\* pqueue_heapify restores the order of a heap whose root was replaced.
LEMMA HeapifyOrders ==
  ASSUME NEW s \in HeapifyDomain, OrderedButAt(s[1], s[2])
  PROVE  HeapOrdered(Heapify[s])
<1> DEFINE I == {t \in HeapifyDomain : OrderedButAt(t[1], t[2])}
<1>1. s \in I
  OBVIOUS
<1>2. ASSUME NEW t \in I, SiftsDown(t) PROVE HeapifyStep(t) \in I
  <2> DEFINE q == t[1]
             i == t[2]
             f == Foremost(q, i)
             u == Swap(q, i, f)
  <2>1. /\ HeapifyStep(t) \in HeapifyDomain /\ i < HeapifyStep(t)[2]
        /\ HeapifyStep(t)[2] < Len(q) /\ Len(HeapifyStep(t)[1]) = Len(q)
    BY <1>2, HeapifyRound
  <2>2. HeapifyStep(t) = <<u, f>>
    BY DEF HeapifyStep
  <2>3. q \in Seq(Chunk) /\ i \in Nat /\ Len(q) \in Nat /\ OrderedButAt(q, i) /\ f # i
    BY <1>2, HeapifyDomainType DEF SiftsDown
  <2>4. HeapifyStep(t)[1] = u /\ HeapifyStep(t)[2] = f
    BY <2>2
  <2>5. f \in Nat
    BY <2>3, ForemostIndex
  <2> HIDE DEF u, f, q, i
  <2>6. i \in 0..Len(q)-1 /\ Len(u) = Len(q)
    BY <2>1, <2>3, <2>4, <2>5
  <2>7. OrderedButAt(u, f)
    BY <2>3, <2>6, SwapMends DEF u, f
  <2> QED BY <2>1, <2>4, <2>7
<1>3. PICK y \in I : ~SiftsDown(y) /\ Heapify[s] = y[1]
  <2>1. I \subseteq HeapifyDomain
    OBVIOUS
  <2> HIDE DEF I
  <2> QED BY <1>1, <1>2, <2>1, HeapifyInduction
<1>4. y[1] \in Seq(Chunk) /\ y[2] \in Nat /\ OrderedButAt(y[1], y[2])
  BY HeapifyDomainType
<1> QED BY <1>3, <1>4, NoMoreToMend DEF SiftsDown

(***************************************************************************)
(* pqueue_dequeue leaves a heap in order that was in order.                *)
(***************************************************************************)
THEOREM DequeueOrders ==
  ASSUME NEW q \in Seq(Chunk), q # <<>>, HeapOrdered(q)
  PROVE  HeapOrdered(Dequeue(q))
<1>1. PICK d \in Seq(Chunk) :
        /\ Len(d) = Len(q) - 1
        /\ \A i \in 1..Len(q)-1 : d[i] = IF i = 1 THEN q[Len(q)] ELSE q[i]
        /\ <<d, 0>> \in HeapifyDomain
        /\ Dequeue(q) = Heapify[<<d, 0>>]
  BY DequeueShape
<1>2. Len(q) \in Nat /\ Len(d) \in Nat
  BY LenProperties
<1>3. ASSUME NEW j \in 0..Len(d)-1, NEW k \in 0..Len(d)-1, j # 0, Child(j, k)
      PROVE  d[j+1].playAt <= d[k+1].playAt
  <2>1. j \in Nat /\ k \in Nat /\ j < k
    BY <1>2, <1>3, ChildBelow
  <2>2. /\ j+1 \in 1..Len(q)-1 /\ k+1 \in 1..Len(q)-1 /\ j+1 # 1 /\ k+1 # 1
        /\ j \in 0..Len(q)-1 /\ k \in 0..Len(q)-1
    BY <1>1, <1>2, <1>3, <2>1
  <2>3. d[j+1] = q[j+1] /\ d[k+1] = q[k+1]
    BY <1>1, <2>2
  <2> QED BY <2>2, <2>3, <1>3 DEF HeapOrdered
<1>4. ASSUME NEW j \in 0..Len(d)-1, Child(j, 0) PROVE FALSE
  BY <1>4, <1>2, ChildBelow
<1>5. OrderedButAt(d, 0)
  BY <1>3, <1>4 DEF OrderedButAt
<1>6. <<d, 0>>[1] = d /\ <<d, 0>>[2] = 0
  OBVIOUS
<1> QED BY <1>1, <1>5, <1>6, HeapifyOrders

(***************************************************************************)
(* pqueue_enqueue of an element that none of the queue is later than       *)
(* leaves the heap in order, although PARENT does not lead to the element  *)
(* whose LEFT or RIGHT the new one is: it stays at the end.                *)
(***************************************************************************)
THEOREM EnqueueLastOrders ==
  ASSUME NEW q \in Seq(Chunk), HeapOrdered(q), NEW c \in Chunk, NEW cap \in Nat,
         \A i \in 1..Len(q) : q[i].playAt <= c.playAt
  PROVE  HeapOrdered(Enqueue(q, cap, c))
<1>1. Len(q) \in Nat /\ \A i \in 1..Len(q) : q[i] \in Chunk
  BY LenProperties, ElementOfSeq
<1>c. c.playAt \in Nat /\ \A i \in 1..Len(q) : q[i].playAt \in Nat
  BY <1>1 DEF Chunk
<1>2. CASE Len(q) >= cap
  BY <1>2 DEF Enqueue
<1>3. CASE ~(Len(q) >= cap)
  <2> DEFINE a == Append(q, c)
             n == Len(q)
  <2>1. /\ a \in Seq(Chunk) /\ Len(a) = n + 1 /\ a[n+1] = c
        /\ \A i \in 1..n : a[i] = q[i]
    BY AppendProperties
  <2>2. Enqueue(q, cap, c) = SiftUp[<<a, n>>]
    BY <1>3 DEF Enqueue
  <2>n. n \in Nat /\ \A i \in 1..n : q[i].playAt <= c.playAt /\ q[i].playAt \in Nat
    BY <1>1, <1>c
  <2> HIDE DEF a, n
  <2>3. <<a, n>> \in Positions
    BY <2>1, <2>n, IsPosition
  <2>4. ~SiftsUp(<<a, n>>)
    <3> SUFFICES ASSUME n > 0, Precedes(At(a, n), At(a, Parent(n))) PROVE FALSE
      BY DEF SiftsUp
    <3>1. Parent(n) \in Nat /\ Parent(n) < n
      BY <2>n DEF Parent
    <3>2. Parent(n) + 1 \in 1..n
      BY <2>n, <3>1
    <3>3. c.playAt < q[Parent(n) + 1].playAt
      BY <2>1, <3>2 DEF Precedes, At
    <3> QED BY <3>2, <3>3, <2>n, <1>c
  <2>5. SiftUp[<<a, n>>] = a
    <3> DEFINE I == {<<a, n>>}
    <3>1. I \subseteq Positions /\ <<a, n>> \in I /\ \A t \in I : ~SiftsUp(t)
      BY <2>3, <2>4
    <3>2. PICK y \in I : SiftUp[<<a, n>>] = y[1]
      <4> HIDE DEF I
      <4> QED BY <3>1, SiftUpInduction
    <3> QED BY <3>2
  <2>6. ASSUME NEW j \in 0..Len(a)-1, NEW k \in 0..Len(a)-1, Child(j, k)
        PROVE  a[j+1].playAt <= a[k+1].playAt
    <3>1. j \in Nat /\ k \in Nat /\ j < k
      BY <2>1, <2>n, <2>6, ChildBelow
    <3>2. j+1 \in 1..n /\ j \in 0..n-1
      BY <3>1, <2>1, <2>n
    <3>3. a[j+1] = q[j+1]
      BY <3>2, <2>1
    <3>4. CASE k = n
      BY <3>2, <3>3, <3>4, <2>1, <2>n
    <3>5. CASE k # n
      <4>1. k+1 \in 1..n /\ k \in 0..n-1
        BY <3>5, <2>1, <2>n
      <4>2. a[k+1] = q[k+1]
        BY <4>1, <2>1
      <4>3. q[j+1].playAt <= q[k+1].playAt
        BY <3>2, <4>1, <2>6 DEF HeapOrdered, n
      <4> QED BY <3>3, <4>2, <4>3
    <3> QED BY <3>4, <3>5
  <2> QED BY <2>2, <2>5, <2>6 DEF HeapOrdered
<1> QED BY <1>2, <1>3

(***************************************************************************)
(* pqueue_peek and pqueue_dequeue give a chunk of a heap in order that     *)
(* none is to be played before.                                            *)
(***************************************************************************)
THEOREM PeekIsFirst ==
  ASSUME NEW q \in Seq(Chunk), HeapOrdered(q), NEW i \in 1..Len(q)
  PROVE  Peek(q).playAt <= q[i].playAt
<1> DEFINE n == Len(q)
           B == {k \in 0..n-1 : ~(q[1].playAt <= q[k+1].playAt)}
           m == [k \in 0..n-1 |-> k]
<1>1. n \in Nat /\ \A k \in 0..n-1 : q[k+1].playAt \in Nat
  BY PlayAtIsNat
<1>2. m \in [0..n-1 -> Nat] /\ B \subseteq 0..n-1
  BY <1>1
<1>3. ASSUME NEW k \in B PROVE \E j \in B : m[j] < m[k]
  <2>0. 0 \in 0..n-1 /\ k \in 0..n-1
    BY <1>1
  <2>1. k > 0 /\ k \in Nat
    <3>1. q[0+1].playAt \in Nat
      BY <2>0, <1>1
    <3>2. k # 0
      BY <3>1
    <3> QED BY <3>2, <2>0, <1>1
  <2>2. PICK j \in Nat : j < k /\ Child(j, k)
    BY <2>1, HasParent
  <2>3. j \in 0..n-1
    BY <2>0, <2>2, <1>1
  <2>4. q[j+1].playAt <= q[k+1].playAt
    BY <2>0, <2>2, <2>3 DEF HeapOrdered
  <2>5. q[0+1].playAt \in Nat /\ q[j+1].playAt \in Nat /\ q[k+1].playAt \in Nat
    BY <2>0, <2>3, <1>1
  <2>6. ~(q[1].playAt <= q[k+1].playAt)
    OBVIOUS
  <2>7. ~(q[1].playAt <= q[j+1].playAt)
    <3>1. q[1].playAt \in Nat
      BY <2>5
    <3> QED BY <3>1, <2>4, <2>5, <2>6, NotLater
  <2>8. j \in B
    BY <2>3, <2>7
  <2> QED BY <2>0, <2>2, <2>3, <2>8
<1>4. B = {}
  <2> HIDE DEF B, m
  <2> QED BY <1>2, <1>3, NoLeastFailure
<1>5. i - 1 \in 0..n-1 /\ (i - 1) + 1 = i
  BY <1>1
<1>6. q[1].playAt <= q[(i-1)+1].playAt
  BY <1>4, <1>5
<1> QED BY <1>5, <1>6 DEF Peek, At

-----------------------------------------------------------------------------
(* The receive buffer.                                                     *)

\* The chunks that it is too late to play.
OldChunks == {c \in Chunk : c.playAt < now}

\* A round of remove_old_data_from_receivebuffer.
HasOld(q) == q # <<>> /\ now > Peek(q).playAt

LEMMA RemoveOldRound ==
  ASSUME now \in Nat, NEW t \in Seq(Chunk), HasOld(t)
  PROVE  /\ Dequeue(t) \in Seq(Chunk) /\ Len(Dequeue(t)) < Len(t)
         /\ Keeps(t, Dequeue(t), OldChunks)
<1>1. t # <<>> /\ now > t[1].playAt
  BY DEF HasOld, Peek, At
<1>2. Len(t) \in Nat /\ 1 \in 1..Len(t)
  BY <1>1, LenProperties, EmptySeq
<1>3. t[1] \in Chunk
  BY <1>2, ElementOfSeq
<1>4. t[1] \in OldChunks
  BY <1>1, <1>3 DEF OldChunks, Chunk
<1>5. Keeps(t, Dequeue(t), {t[1]}) /\ Len(Dequeue(t)) = Len(t) - 1
  BY <1>1, DequeueKeeps
<1>6. Keeps(t, Dequeue(t), OldChunks)
  BY <1>4, <1>5, KeepsMonotonic
<1>7. Dequeue(t) \in Seq(Chunk)
  BY <1>6 DEF Keeps
<1> QED BY <1>2, <1>5, <1>6, <1>7

\* The loop ends, and what its rounds keep holds at its end.
LEMMA RemoveOldInduction ==
  ASSUME now \in Nat, NEW I, I \subseteq Seq(Chunk), NEW q \in I,
         \A t \in I : HasOld(t) => Dequeue(t) \in I
  PROVE  RemoveOld[q] \in I /\ ~HasOld(RemoveOld[q])
<1> DEFINE D == Seq(Chunk)
           C == {t \in D : HasOld(t)}
           g == [t \in D |-> Dequeue(t)]
           r == [t \in D |-> t]
           m == [t \in D |-> Len(t)]
<1>1. m \in [D -> Nat]
  BY LenProperties
<1>2. ASSUME NEW t \in D, t \in C
      PROVE  g[t] \in D /\ m[g[t]] < m[t]
  <2>1. Dequeue(t) \in D /\ Len(Dequeue(t)) < Len(t)
    BY <1>2, RemoveOldRound
  <2> QED BY <2>1
<1> HIDE DEF m, D
<1>3. Ends(D, C, g, m)
  <2> HIDE DEF C, g
  <2> QED BY <1>1, <1>2 DEF Ends
<1>4. ASSUME NEW f
      PROVE  IsLoop(f, D, C, g, r) <=>
             f = [t \in D |-> IF HasOld(t) THEN f[Dequeue(t)] ELSE t]
  BY DEF IsLoop
<1>5. \E f : IsLoop(f, D, C, g, r)
  <2> HIDE DEF C, g, r
  <2> QED BY <1>3, LoopExists
<1>6. IsLoop(RemoveOld, D, C, g, r)
  <2>1. PICK f : f = [t \in D |-> IF HasOld(t) THEN f[Dequeue(t)] ELSE t]
    BY <1>4, <1>5
  <2>2. RemoveOld = [t \in D |-> IF HasOld(t) THEN RemoveOld[Dequeue(t)] ELSE t]
    BY <2>1 DEF RemoveOld, D, HasOld
  <2> HIDE DEF C, g, r
  <2> QED BY <2>2, <1>4
<1>7. I \subseteq D
  BY DEF D
<1>8. \A t \in I : t \in C => g[t] \in I
  BY <1>7
<1>9. \E y \in I : y \notin C /\ RemoveOld[q] = r[y]
  <2> HIDE DEF C, g, r
  <2> QED BY <1>3, <1>6, <1>7, <1>8, LoopInduction
<1> QED BY <1>7, <1>9

\* remove_old_data_from_receivebuffer removes old chunks only.
LEMMA RemoveOldKeeps ==
  ASSUME now \in Nat, NEW q \in Seq(Chunk)
  PROVE  Keeps(q, RemoveOld[q], OldChunks)
<1> DEFINE I == {t \in Seq(Chunk) : Keeps(q, t, OldChunks)}
<1>1. q \in I
  BY KeepsReflexive
<1>2. ASSUME NEW t \in I, HasOld(t) PROVE Dequeue(t) \in I
  BY <1>2, RemoveOldRound, KeepsTransitive
<1>3. RemoveOld[q] \in I
  <2>1. I \subseteq Seq(Chunk)
    OBVIOUS
  <2> HIDE DEF I
  <2> QED BY <1>1, <1>2, <2>1, RemoveOldInduction
<1> QED BY <1>3

\* Every element of b is one of a.
From(a, b) == \A i \in 1..Len(b) : \E j \in 1..Len(a) : b[i] = a[j]

LEMMA KeepsFrom ==
  ASSUME NEW a, NEW b, NEW G, Keeps(a, b, G)
  PROVE  From(a, b)
<1>1. PICK p : Selects(p, a, b, G)
  BY DEF Keeps
<1>2. p \in [1..Len(b) -> 1..Len(a)] /\ \A i \in 1..Len(b) : b[i] = a[p[i]]
  BY <1>1 DEF Selects
<1>3. ASSUME NEW i \in 1..Len(b) PROVE \E j \in 1..Len(a) : b[i] = a[j]
  <2>1. p[i] \in 1..Len(a) /\ b[i] = a[p[i]]
    BY <1>2
  <2> QED BY <2>1
<1> QED BY <1>3 DEF From

\* What is not in G stays.
LEMMA KeepsRest ==
  ASSUME NEW a, NEW b, NEW G, Keeps(a, b, G), NEW k \in 1..Len(a), a[k] \notin G
  PROVE  \E i \in 1..Len(b) : b[i] = a[k]
<1>1. PICK p : Selects(p, a, b, G)
  BY DEF Keeps
<1>2. PICK i \in 1..Len(b) : p[i] = k
  BY <1>1 DEF Selects
<1>3. b[i] = a[p[i]]
  BY <1>1 DEF Selects
<1> QED BY <1>2, <1>3

\* The chunk of packet n.
ChunkOf(n) == [seqno |-> n, playAt |-> PlayAt(n)]

LEMMA ChunkOfType ==
  ASSUME ClientTypes, NEW n \in Sent
  PROVE  ChunkOf(n) \in Chunk /\ ChunkOf(n).seqno = n /\ ChunkOf(n).playAt = PlayAt(n)
<1>1. sent \in Seq(Nat) /\ Len(sent) \in Nat
  BY LenProperties DEF ClientTypes
<1>2. n \in Nat /\ n + 1 \in 1..Len(sent)
  BY <1>1 DEF Sent
<1>3. PlayAt(n) \in Nat
  BY <1>1, <1>2, ElementOfSeq DEF PlayAt
<1> QED BY <1>2, <1>3 DEF Chunk, ChunkOf

\* intercom_put_chunk: what the buffer holds afterwards was there or is the new
\* chunk, and what was there is still there unless it is old.
LEMMA PutChunkKeeps ==
  ASSUME ClientTypes, NEW q \in Seq(Chunk), NEW cap \in Nat, NEW n \in Sent
  PROVE  /\ PutChunk(q, cap, n) \in Seq(Chunk)
         /\ \A i \in 1..Len(PutChunk(q, cap, n)) :
              \/ PutChunk(q, cap, n)[i] = ChunkOf(n)
              \/ \E j \in 1..Len(q) : PutChunk(q, cap, n)[i] = q[j]
         /\ \A k \in 1..Len(q) : q[k] \in OldChunks \/
              \E i \in 1..Len(PutChunk(q, cap, n)) : PutChunk(q, cap, n)[i] = q[k]
<1> DEFINE o == RemoveOld[q]
           c == ChunkOf(n)
           e == Enqueue(o, cap, c)
           a == Append(o, c)
<1>1. now \in Nat /\ sent \in Seq(Nat) /\ Len(sent) \in Nat
  BY LenProperties DEF ClientTypes
<1>4. c \in Chunk
  BY ChunkOfType
<1>5. Keeps(q, o, OldChunks)
  BY <1>1, RemoveOldKeeps
<1>6. o \in Seq(Chunk)
  BY <1>5 DEF Keeps
<1>7. Len(o) \in Nat
  BY <1>6, LenProperties
<1>8. PutChunk(q, cap, n) = e
  BY DEF PutChunk, ChunkOf
<1> HIDE DEF o, c
<1>9. From(q, o) /\ \A k \in 1..Len(q) : q[k] \in OldChunks \/ \E i \in 1..Len(o) : o[i] = q[k]
  BY <1>5, KeepsFrom, KeepsRest
<1>10. CASE Len(o) >= cap
  <2>1. e = o
    BY <1>10 DEF Enqueue
  <2> HIDE DEF e
  <2> QED BY <2>1, <1>6, <1>8, <1>9 DEF From
<1>11. CASE ~(Len(o) >= cap)
  <2>1. Keeps(a, e, {})
    BY <1>11, <1>4, <1>6, <1>7, EnqueueKeeps
  <2>2. e \in Seq(Chunk)
    BY <2>1 DEF Keeps
  <2>3. /\ Len(a) = Len(o) + 1 /\ a[Len(o) + 1] = c
        /\ \A i \in 1..Len(o) : a[i] = o[i]
    BY <1>4, <1>6, AppendProperties
  <2> HIDE DEF e, a
  <2>4. From(a, e) /\ \A k \in 1..Len(a) : \E i \in 1..Len(e) : e[i] = a[k]
    <3>1. From(a, e)
      BY ONLY <2>1, KeepsFrom
    <3>2. ASSUME NEW k \in 1..Len(a) PROVE \E i \in 1..Len(e) : e[i] = a[k]
      <4>1. a[k] \notin {}
        OBVIOUS
      <4> QED BY ONLY <2>1, <4>1, k \in 1..Len(a), KeepsRest
    <3> QED BY <3>1, <3>2
  <2>5. ASSUME NEW i \in 1..Len(e)
        PROVE  e[i] = c \/ \E j \in 1..Len(q) : e[i] = q[j]
    <3>1. PICK j \in 1..Len(a) : e[i] = a[j]
      BY <2>4 DEF From
    <3>2. CASE j = Len(o) + 1
      BY <3>1, <3>2, <2>3
    <3>3. CASE j # Len(o) + 1
      <4>1. j \in 1..Len(o)
        BY <3>3, <2>3, <1>7
      <4>2. e[i] = o[j]
        BY <3>1, <4>1, <2>3
      <4> QED BY <4>1, <4>2, <1>9 DEF From
    <3> QED BY <3>2, <3>3
  <2>6. ASSUME NEW k \in 1..Len(q), q[k] \notin OldChunks
        PROVE  \E i \in 1..Len(e) : e[i] = q[k]
    <3>1. PICK j \in 1..Len(o) : o[j] = q[k]
      BY <2>6, <1>9
    <3>2. j \in 1..Len(a) /\ a[j] = o[j]
      BY <2>3, <1>7
    <3>3. PICK i \in 1..Len(e) : e[i] = a[j]
      BY <3>2, <2>4
    <3> QED BY <3>1, <3>2, <3>3
  <2> QED BY <2>2, <2>5, <2>6, <1>8 DEF c
<1> QED BY <1>10, <1>11

(***************************************************************************)
(* The inductive invariant behind NotMissingWhenBuffered: as far as the    *)
(* client knows which stream it gets, what is in its buffer is no newer    *)
(* than the newest packet received, so that a gap that is noticed later is *)
(* a gap among newer packets.                                              *)
(***************************************************************************)
BufferedInv ==
  /\ receivebuffer \in Seq(Chunk)
  /\ ~astray => \A i \in 1..Len(receivebuffer) :
       receivebuffer[i].seqno <= last /\ receivebuffer[i].seqno \notin missing

\* A step after which the client waits for no more than before and has nothing
\* in its buffer that was not there before.
LEMMA LessBuffered ==
  ASSUME ClientInv, BufferedInv, receivebuffer' \in Seq(Chunk),
         From(receivebuffer, receivebuffer'),
         missing' \subseteq missing, last' \in Nat, last <= last', ~astray' => ~astray
  PROVE  BufferedInv'
<1>1. last \in Nat
  BY IntercomClientAssumption DEF ClientInv, ClientTypes, Nonces
<1>2. ASSUME ~astray', NEW i \in 1..Len(receivebuffer')
      PROVE  receivebuffer'[i].seqno <= last' /\ receivebuffer'[i].seqno \notin missing'
  <2>1. PICK j \in 1..Len(receivebuffer) : receivebuffer'[i] = receivebuffer[j]
    BY DEF From
  <2>2. receivebuffer[j].seqno \in Nat
    <3>1. receivebuffer[j] \in Chunk
      BY ElementOfSeq DEF BufferedInv
    <3> QED BY <3>1 DEF Chunk
  <2>3. receivebuffer[j].seqno <= last /\ receivebuffer[j].seqno \notin missing
    BY <1>2 DEF BufferedInv
  <2> QED BY <2>1, <2>2, <2>3, <1>1
<1> QED BY <1>2 DEF BufferedInv

\* A gap that is requested lies between the newest packet so far and the new one.
LEMMA GapIsNew ==
  ASSUME IntWideEnough, ClientInv, NEW n \in Sent, StoreChunk(n)
  PROVE  \A k \in missing' : k # n /\ (k \in missing \/ last < k)
<1> DEFINE cap == BufferCapacity
           pending == missing \ {n}
           ahead == ~IsNextChunk(n) /\ n >= last
           huge == ahead /\ n - last >= cap
<1>1. PICK from \in IF ahead /\ ~huge THEN RequestFrom(n, cap) ELSE {n} :
        LET lost == {i \in from..n-1 : i \notin pending}
        IN  missing' \in LimitMissing(pending \cup lost, cap)
  BY DEF StoreChunk, RemoveRequest
<1>2. missing' \subseteq pending \cup from..n-1
  BY <1>1 DEF LimitMissing
<1>3. /\ Len(sent) \in Nat /\ Len(sent) <= MaxPackets
      /\ last \in Nat /\ n \in Nat /\ n < Len(sent) /\ MaxPackets \in Nat
  BY LenProperties, IntercomClientAssumption DEF ClientInv, ClientTypes, Nonces, Sent
<1>4. cap \in Nat /\ cap >= 1
  BY ElementsType DEF BufferCapacity, ClientInv, ClientTypes
<1> HIDE DEF cap
<1>5. CASE ahead /\ ~huge
  <2>1. from \in RequestFrom(n, cap)
    BY <1>1, <1>5
  <2>2. n - cap < last /\ n < IntMax /\ last <= n /\ IntMax \in Nat
    BY <1>3, <1>4, <1>5, IntercomClientAssumption DEF IntWideEnough
  <2>3. ToInt(last) = last /\ ToInt(n - cap) = n - cap
    BY <2>2, <1>3, <1>4 DEF ToInt
  <2>4. from = last + 1
    BY <2>1, <2>2, <2>3, <1>3, <1>4 DEF RequestFrom
  <2> QED BY <2>4, <1>2, <1>3
<1>6. CASE ~(ahead /\ ~huge)
  <2>1. from = n
    BY <1>1, <1>6
  <2>2. from..n-1 = {}
    BY <2>1, <1>3
  <2> QED BY <2>2, <1>2
<1> QED BY <1>5, <1>6

LEMMA StoreBuffered ==
  ASSUME IntWideEnough, ClientInv, BufferedInv, NEW n \in Sent, StoreChunk(n)
  PROVE  BufferedInv'
<1> DEFINE cap == BufferCapacity
           huge == (~IsNextChunk(n) /\ n >= last) /\ n - last >= cap
           base == IF huge THEN <<>> ELSE receivebuffer
<1>1. /\ receivebuffer' = PutChunk(base, cap, n)
      /\ last' = IF n > last THEN n ELSE last
      /\ astray' = (astray /\ ~huge)
  BY DEF StoreChunk
<1>2. last \in Nat /\ n \in Nat
  BY LenProperties, IntercomClientAssumption DEF ClientInv, ClientTypes, Nonces, Sent
<1>3. cap \in Nat
  BY ElementsType DEF BufferCapacity, ClientInv, ClientTypes
<1>4. astray \in BOOLEAN /\ ClientTypes
  BY DEF ClientInv, ClientTypes
<1>5. ~astray' => ~astray \/ huge
  <2> HIDE DEF huge
  <2> QED BY <1>1, <1>4, Zenon
<1> HIDE DEF cap, huge
<1>6. base \in Seq(Chunk)
  BY DEF BufferedInv
<1>7. /\ receivebuffer' \in Seq(Chunk)
      /\ \A i \in 1..Len(receivebuffer') :
           \/ receivebuffer'[i].seqno = n
           \/ \E j \in 1..Len(base) : receivebuffer'[i] = base[j]
  <2> DEFINE rb == PutChunk(base, cap, n)
  <2> HIDE DEF base
  <2>1. /\ rb \in Seq(Chunk)
        /\ \A i \in 1..Len(rb) : \/ rb[i] = ChunkOf(n)
                                  \/ \E j \in 1..Len(base) : rb[i] = base[j]
    BY ONLY <1>3, <1>4, <1>6, n \in Sent, PutChunkKeeps
  <2>2. receivebuffer' = rb
    BY <1>1
  <2> HIDE DEF rb
  <2>3. ChunkOf(n).seqno = n
    BY <1>4, ChunkOfType
  <2> QED BY ONLY <2>1, <2>2, <2>3
<1>8. last <= last' /\ n <= last' /\ last' \in Nat
  BY <1>1, <1>2
<1>9. \A k \in missing' : k # n /\ (k \in missing \/ last < k)
  BY GapIsNew
<1>10. ASSUME ~astray', NEW i \in 1..Len(receivebuffer')
       PROVE  receivebuffer'[i].seqno <= last' /\ receivebuffer'[i].seqno \notin missing'
  <2>1. CASE receivebuffer'[i].seqno = n
    BY <2>1, <1>8, <1>9
  <2>2. CASE receivebuffer'[i].seqno # n
    <3>1. PICK j \in 1..Len(base) : receivebuffer'[i] = base[j]
      BY <2>2, <1>7
    <3>2. ~huge
      <4> SUFFICES ASSUME huge PROVE FALSE
        OBVIOUS
      <4>1. base = <<>> /\ Len(<<>>) = 0
        OBVIOUS
      <4> QED BY <4>1, <3>1
    <3>3. ~astray /\ base = receivebuffer
      BY <3>2, <1>5, <1>10
    <3>4. receivebuffer[j] \in Chunk
      BY <3>1, <3>3, ElementOfSeq DEF BufferedInv
    <3>5. receivebuffer[j].seqno \in Nat
      BY <3>4 DEF Chunk
    <3>6. receivebuffer[j].seqno <= last /\ receivebuffer[j].seqno \notin missing
      BY <3>1, <3>3 DEF BufferedInv
    <3>7. receivebuffer[j].seqno <= last'
      BY <3>5, <3>6, <1>2, <1>8
    <3>8. receivebuffer[j].seqno \notin missing'
      BY <3>5, <3>6, <1>2, <1>9
    <3> QED BY <3>1, <3>3, <3>7, <3>8
  <2> QED BY <2>1, <2>2
<1> QED BY <1>7, <1>10 DEF BufferedInv

LEMMA NextBuffered ==
  ASSUME IntWideEnough, ClientInv, BufferedInv, [Next]_vars
  PROVE  BufferedInv'
<1>1. receivebuffer \in Seq(Chunk) /\ last \in Nat
  BY IntercomClientAssumption DEF BufferedInv, ClientInv, ClientTypes, Nonces
<1>2. From(receivebuffer, receivebuffer)
  BY DEF From
<1>3. ASSUME NEW n \in Sent, StoreChunk(n) PROVE BufferedInv'
  BY <1>3, StoreBuffered
<1>4. ASSUME NEW n \in Sent, DiscardChunk(n) PROVE BufferedInv'
  <2>1. /\ receivebuffer' = receivebuffer /\ astray' = astray /\ missing' \subseteq missing
        /\ last' = IF n > last THEN n ELSE last
    BY <1>4 DEF DiscardChunk, RemoveRequest
  <2>2. n \in Nat
    BY LenProperties DEF Sent, ClientInv, ClientTypes
  <2>3. last' \in Nat /\ last <= last'
    BY <2>1, <2>2, <1>1
  <2> QED BY <2>1, <2>3, <1>1, <1>2, LessBuffered
<1>5. CASE HandleStop
  <2>1. receivebuffer' = <<>> /\ Len(<<>>) = 0 /\ <<>> \in Seq(Chunk)
    BY <1>5 DEF HandleStop
  <2> QED BY <2>1 DEF BufferedInv
<1>6. CASE GetNextAudioChunk
  <2>1. /\ receivebuffer # <<>> /\ receivebuffer' = Dequeue(receivebuffer)
        /\ last' = last /\ missing' = missing /\ astray' = astray
    BY <1>6 DEF GetNextAudioChunk, historyVars
  <2>2. Keeps(receivebuffer, receivebuffer', {receivebuffer[1]})
    BY <2>1, <1>1, DequeueKeeps
  <2>3. receivebuffer' \in Seq(Chunk)
    BY <2>2 DEF Keeps
  <2>4. From(receivebuffer, receivebuffer')
    BY <2>2, KeepsFrom
  <2> QED BY <2>1, <2>3, <2>4, <1>1, LessBuffered
<1>7. ASSUME NEW n \in Nonces, NEW r \in 0..Retries, RequestTask(n, r) PROVE BufferedInv'
  <2>1. /\ receivebuffer' = receivebuffer /\ astray' = astray /\ missing' \subseteq missing
        /\ last' = last
    BY <1>7 DEF RequestTask, RemoveRequest
  <2> QED BY <2>1, <1>1, <1>2, LessBuffered
<1>8. CASE UNCHANGED <<clientVars, astray>>
  <2>1. receivebuffer' = receivebuffer /\ astray' = astray /\ missing' = missing /\ last' = last
    BY <1>8 DEF clientVars
  <2> QED BY <2>1, <1>1, <1>2, LessBuffered
<1>9. ASSUME NEW s, Continue(s) PROVE BufferedInv'
  <2>1. receivebuffer' = receivebuffer /\ astray'
    BY <1>9 DEF Continue, clientVars
  <2> QED BY <2>1, <1>1 DEF BufferedInv
<1>10. CASE SendAudio \/ ReceiveVolume \/ Tick \/ UNCHANGED vars
  BY <1>8, <1>10 DEF SendAudio, ReceiveVolume, Tick, vars, historyVars
<1>11. CASE ReceiveStop
  BY <1>5, <1>8, <1>11 DEF ReceiveStop
<1>12. ASSUME NEW n \in Nonces, ReceiveAudio(n) PROVE BufferedInv'
  <2>1. CASE AudioHdr(n) = lastSeen
    BY <1>8, <1>12, <2>1 DEF ReceiveAudio, historyVars
  <2>2. CASE AudioHdr(n) # lastSeen
    BY <1>3, <1>4, <1>12, <2>2 DEF ReceiveAudio
  <2> QED BY <2>1, <2>2
<1>13. CASE Reconnect
  BY <1>5, <1>13 DEF Reconnect
<1>14. CASE RunRequestTask
  BY <1>7, <1>14 DEF RunRequestTask
<1>15. CASE \E s \in OtherStreams : SetStream(s) \/ RestartServer(s)
  BY <1>9, <1>15 DEF SetStream, RestartServer
<1> QED BY <1>6, <1>10, <1>11, <1>12, <1>13, <1>14, <1>15 DEF Next

LEMMA BufferedCorrect == IntWideEnough => (Spec => []BufferedInv)
<1> SUFFICES ASSUME IntWideEnough PROVE Spec => []BufferedInv
  OBVIOUS
<1>1. Init => BufferedInv
  <2>1. Len(<<>>) = 0 /\ <<>> \in Seq(Chunk)
    OBVIOUS
  <2> QED BY <2>1 DEF Init, BufferedInv
<1>2. ClientInv /\ BufferedInv /\ [Next]_vars => BufferedInv'
  BY NextBuffered
<1> QED BY <1>1, <1>2, ClientCorrect, PTL DEF Spec

(***************************************************************************)
(* The client never waits for a chunk that is in its receive buffer, for   *)
(* every size of the buffer and whatever the sifting of the heap does to   *)
(* the order of the chunks.                                                *)
(***************************************************************************)
THEOREM NotMissingWhenBufferedHolds ==
  IntWideEnough => (Spec => []NotMissingWhenBuffered)
<1>1. BufferedInv => NotMissingWhenBuffered
  <2>1. receivebuffer \in Seq(Chunk) => DOMAIN receivebuffer = 1..Len(receivebuffer)
    BY LenProperties
  <2> QED BY <2>1 DEF BufferedInv, NotMissingWhenBuffered
<1> QED BY <1>1, BufferedCorrect, PTL

(***************************************************************************)
(* A chunk that can still be played leaves the receive buffer in three     *)
(* ways only: it is at the front when the player takes a chunk, the client *)
(* is stopped or disconnected, or a packet shows a gap that is larger than *)
(* the buffer.                                                             *)
(***************************************************************************)
ChunksStay ==
  [][\A i \in DOMAIN receivebuffer :
       \/ receivebuffer[i].playAt < now
       \/ \E j \in DOMAIN receivebuffer' : receivebuffer'[j] = receivebuffer[i]
       \/ GetNextAudioChunk /\ receivebuffer[i] = Peek(receivebuffer)
       \/ HandleStop
       \/ \E n \in Sent : n - last >= BufferCapacity /\ StoreChunk(n)]_vars

(***************************************************************************)
(* No chunk that can still be played is lost from the receive buffer by    *)
(* the heap or by remove_old_data_from_receivebuffer, for every size of    *)
(* the buffer, although that heap is not always ordered.                   *)
(***************************************************************************)
THEOREM ChunksStayHolds == IntWideEnough => (Spec => ChunksStay)
<1> SUFFICES ASSUME IntWideEnough PROVE Spec => ChunksStay
  OBVIOUS
<1>1. ASSUME ClientInv, BufferedInv, [Next]_vars, NEW i \in DOMAIN receivebuffer,
             ~(receivebuffer[i].playAt < now),
             ~(GetNextAudioChunk /\ receivebuffer[i] = Peek(receivebuffer)),
             ~HandleStop,
             ~\E n \in Sent : n - last >= BufferCapacity /\ StoreChunk(n)
      PROVE  \E j \in DOMAIN receivebuffer' : receivebuffer'[j] = receivebuffer[i]
  <2>1. receivebuffer \in Seq(Chunk)
    BY <1>1 DEF BufferedInv
  <2>2. i \in 1..Len(receivebuffer)
    BY <2>1, LenProperties
  <2>3. CASE receivebuffer' = receivebuffer
    BY <2>3
  <2>4. ASSUME NEW n \in Sent, StoreChunk(n)
        PROVE  \E j \in DOMAIN receivebuffer' : receivebuffer'[j] = receivebuffer[i]
    <3>1. ~(n - last >= BufferCapacity)
      BY <1>1, <2>4
    <3>2. receivebuffer' = PutChunk(receivebuffer, BufferCapacity, n)
      BY <2>4, <3>1 DEF StoreChunk
    <3>3. BufferCapacity \in Nat /\ ClientTypes
      BY <1>1, ElementsType DEF BufferCapacity, ClientInv, ClientTypes
    <3>4. receivebuffer[i] \notin OldChunks
      BY <1>1 DEF OldChunks
    <3>5. /\ receivebuffer' \in Seq(Chunk)
          /\ \E j \in 1..Len(receivebuffer') : receivebuffer'[j] = receivebuffer[i]
      <4> DEFINE rb == PutChunk(receivebuffer, BufferCapacity, n)
      <4>1. /\ rb \in Seq(Chunk)
            /\ receivebuffer[i] \in OldChunks \/
                 \E j \in 1..Len(rb) : rb[j] = receivebuffer[i]
        BY ONLY <2>1, <2>2, <3>3, n \in Sent, PutChunkKeeps
      <4>2. receivebuffer' = rb
        BY <3>2
      <4> HIDE DEF rb
      <4> QED BY ONLY <3>4, <4>1, <4>2
    <3> QED BY <3>5, LenProperties
  <2>5. CASE GetNextAudioChunk
    <3>1. /\ receivebuffer # <<>> /\ receivebuffer' = Dequeue(receivebuffer)
          /\ receivebuffer[i] # receivebuffer[1]
      BY <1>1, <2>5 DEF GetNextAudioChunk, Peek, At
    <3>2. Keeps(receivebuffer, receivebuffer', {receivebuffer[1]})
      BY <2>1, <3>1, DequeueKeeps
    <3>3. \E j \in 1..Len(receivebuffer') : receivebuffer'[j] = receivebuffer[i]
      BY <2>2, <3>1, <3>2, KeepsRest
    <3>4. receivebuffer' \in Seq(Chunk)
      BY <3>2 DEF Keeps
    <3> QED BY <3>3, <3>4, LenProperties
  <2>6. \/ receivebuffer' = receivebuffer
        \/ GetNextAudioChunk
        \/ HandleStop
        \/ \E n \in Sent : StoreChunk(n)
    BY <1>1
       DEF Next, vars, clientVars, SendAudio, ReceiveAudio, DiscardChunk, ReceiveStop,
           ReceiveVolume, RunRequestTask, RequestTask, SetStream, RestartServer,
           Continue, Reconnect, Tick
  <2> QED BY <1>1, <2>3, <2>4, <2>5, <2>6
<1>2. ClientInv /\ BufferedInv /\ [Next]_vars =>
        [\A i \in DOMAIN receivebuffer :
           \/ receivebuffer[i].playAt < now
           \/ \E j \in DOMAIN receivebuffer' : receivebuffer'[j] = receivebuffer[i]
           \/ GetNextAudioChunk /\ receivebuffer[i] = Peek(receivebuffer)
           \/ HandleStop
           \/ \E n \in Sent : n - last >= BufferCapacity /\ StoreChunk(n)]_vars
  BY <1>1
<1> QED BY <1>2, ClientCorrect, BufferedCorrect, PTL DEF Spec, ChunksStay

-----------------------------------------------------------------------------
(* Chunks that arrive in the order they are to be played in.               *)

\* No chunk is stored that is to be played before one that is in the buffer.
ArrivesInOrder ==
  [][\A n \in Sent : StoreChunk(n) =>
       \A i \in DOMAIN receivebuffer : receivebuffer[i].playAt <= PlayAt(n)]_vars

\* remove_old_data_from_receivebuffer leaves a heap in order in order, and in it
\* nothing that is old: the loop ends at the first chunk that is not, and no
\* other one is to be played before that.
LEMMA RemoveOldOrders ==
  ASSUME now \in Nat, NEW q \in Seq(Chunk), HeapOrdered(q)
  PROVE  /\ HeapOrdered(RemoveOld[q])
         /\ \A i \in 1..Len(RemoveOld[q]) : now <= RemoveOld[q][i].playAt
<1> DEFINE I == {t \in Seq(Chunk) : HeapOrdered(t)}
           o == RemoveOld[q]
<1>1. ASSUME NEW t \in I, HasOld(t) PROVE Dequeue(t) \in I
  <2>1. Dequeue(t) \in Seq(Chunk)
    BY <1>1, RemoveOldRound
  <2>2. HeapOrdered(Dequeue(t))
    BY <1>1, DequeueOrders DEF HasOld
  <2> QED BY <2>1, <2>2
<1>2. o \in I /\ ~HasOld(o)
  <2>1. I \subseteq Seq(Chunk) /\ q \in I
    OBVIOUS
  <2> HIDE DEF I
  <2> QED BY <1>1, <2>1, RemoveOldInduction
<1> HIDE DEF o
<1>3. ASSUME NEW i \in 1..Len(o) PROVE now <= o[i].playAt
  <2>1. o \in Seq(Chunk) /\ HeapOrdered(o) /\ Len(o) \in Nat
    BY <1>2, LenProperties
  <2>2. 1 \in 1..Len(o) /\ o # <<>>
    BY <2>1, EmptySeq
  <2>3. o[1] \in Chunk /\ o[i] \in Chunk
    BY <2>1, <2>2, ElementOfSeq
  <2>4. o[1].playAt \in Nat /\ o[i].playAt \in Nat
    BY <2>3 DEF Chunk
  <2>5. ~(now > o[1].playAt)
    BY <1>2, <2>2 DEF HasOld, Peek, At
  <2>6. now <= o[1].playAt
    BY <2>4, <2>5
  <2>7. o[1].playAt <= o[i].playAt
    BY <2>1, PeekIsFirst DEF Peek, At
  <2> QED BY <2>4, <2>6, <2>7, NotLater
<1> QED BY <1>2, <1>3 DEF o

LEMMA PutChunkOrders ==
  ASSUME ClientTypes, NEW q \in Seq(Chunk), NEW cap \in Nat, NEW n \in Sent,
         HeapOrdered(q), \A i \in 1..Len(q) : q[i].playAt <= PlayAt(n)
  PROVE  HeapOrdered(PutChunk(q, cap, n))
<1> DEFINE o == RemoveOld[q]
           c == ChunkOf(n)
<1>1. now \in Nat
  BY DEF ClientTypes
<1>2. c \in Chunk /\ c.playAt = PlayAt(n)
  BY ChunkOfType
<1>3. Keeps(q, o, OldChunks)
  BY <1>1, RemoveOldKeeps
<1>4. o \in Seq(Chunk) /\ From(q, o)
  BY <1>3, KeepsFrom DEF Keeps
<1>5. HeapOrdered(o)
  BY <1>1, RemoveOldOrders
<1>6. PutChunk(q, cap, n) = Enqueue(o, cap, c)
  BY DEF PutChunk, ChunkOf
<1> HIDE DEF o, c
<1>7. \A i \in 1..Len(o) : o[i].playAt <= c.playAt
  BY <1>2, <1>4 DEF From
<1>8. HeapOrdered(Enqueue(o, cap, c))
  BY <1>2, <1>4, <1>5, <1>7, EnqueueLastOrders
<1> QED BY <1>6, <1>8

LEMMA EmptyOrdered == HeapOrdered(<<>>)
<1>1. Len(<<>>) = 0 /\ 0..0-1 = {}
  OBVIOUS
<1> QED BY <1>1 DEF HeapOrdered

LEMMA NextOrdered ==
  ASSUME ClientInv, BufferedInv, HeapOrdered(receivebuffer), [Next]_vars,
         \A n \in Sent : StoreChunk(n) =>
           \A i \in DOMAIN receivebuffer : receivebuffer[i].playAt <= PlayAt(n)
  PROVE  HeapOrdered(receivebuffer')
<1>1. receivebuffer \in Seq(Chunk)
  BY DEF BufferedInv
<1>2. DOMAIN receivebuffer = 1..Len(receivebuffer)
  BY <1>1, LenProperties
<1>3. ASSUME NEW n \in Sent, StoreChunk(n) PROVE HeapOrdered(receivebuffer')
  <2> DEFINE cap == BufferCapacity
             huge == (~IsNextChunk(n) /\ n >= last) /\ n - last >= cap
             base == IF huge THEN <<>> ELSE receivebuffer
  <2>1. receivebuffer' = PutChunk(base, cap, n)
    BY <1>3 DEF StoreChunk
  <2>2. cap \in Nat /\ ClientTypes
    BY ElementsType DEF BufferCapacity, ClientInv, ClientTypes
  <2>3. \A i \in 1..Len(receivebuffer) : receivebuffer[i].playAt <= PlayAt(n)
    BY <1>2, <1>3
  <2>4. Len(<<>>) = 0 /\ <<>> \in Seq(Chunk) /\ HeapOrdered(<<>>)
    BY EmptyOrdered
  <2> HIDE DEF cap, huge
  <2>5. /\ base \in Seq(Chunk) /\ HeapOrdered(base)
        /\ \A i \in 1..Len(base) : base[i].playAt <= PlayAt(n)
    <3>1. CASE huge
      <4>1. base = <<>>
        BY <3>1
      <4> HIDE DEF base
      <4> QED BY <4>1, <2>4
    <3>2. CASE ~huge
      <4>1. base = receivebuffer
        BY <3>2
      <4> HIDE DEF base
      <4> QED BY <4>1, <2>3, <1>1
    <3> QED BY <3>1, <3>2
  <2> HIDE DEF base
  <2>6. HeapOrdered(PutChunk(base, cap, n))
    BY <2>2, <2>5, PutChunkOrders
  <2> QED BY <2>1, <2>6
<1>4. CASE GetNextAudioChunk
  <2>1. receivebuffer # <<>> /\ receivebuffer' = Dequeue(receivebuffer)
    BY <1>4 DEF GetNextAudioChunk
  <2>2. HeapOrdered(Dequeue(receivebuffer))
    BY <1>1, <2>1, DequeueOrders
  <2> QED BY <2>1, <2>2
<1>5. CASE HandleStop
  <2>1. receivebuffer' = <<>>
    BY <1>5 DEF HandleStop
  <2> QED BY <2>1, EmptyOrdered
<1>6. CASE receivebuffer' = receivebuffer
  BY <1>6
<1>7. \/ receivebuffer' = receivebuffer
      \/ GetNextAudioChunk
      \/ HandleStop
      \/ \E n \in Sent : StoreChunk(n)
  BY DEF Next, vars, clientVars, SendAudio, ReceiveAudio, DiscardChunk, ReceiveStop,
         ReceiveVolume, RunRequestTask, RequestTask, SetStream, RestartServer,
         Continue, Reconnect, Tick
<1> QED BY <1>3, <1>4, <1>5, <1>6, <1>7

(***************************************************************************)
(* If chunks arrive in the order of play_at, the heap of the receive       *)
(* buffer stays in order, whatever is taken out of it in between.          *)
(***************************************************************************)
THEOREM HeapStaysOrdered ==
  IntWideEnough => (Spec /\ ArrivesInOrder => []HeapOrdered(receivebuffer))
<1> SUFFICES ASSUME IntWideEnough
             PROVE  Spec /\ ArrivesInOrder => []HeapOrdered(receivebuffer)
  OBVIOUS
<1>1. Init => HeapOrdered(receivebuffer)
  BY EmptyOrdered DEF Init
<1>2. ClientInv /\ BufferedInv /\ HeapOrdered(receivebuffer) /\ [Next]_vars
        /\ [\A n \in Sent : StoreChunk(n) =>
              \A i \in DOMAIN receivebuffer : receivebuffer[i].playAt <= PlayAt(n)]_vars
      => HeapOrdered(receivebuffer)'
  <2>1. CASE UNCHANGED vars
    BY <2>1 DEF vars, clientVars
  <2>2. CASE ~(UNCHANGED vars)
    BY <2>2, NextOrdered
  <2> QED BY <2>1, <2>2
<1> QED BY <1>1, <1>2, ClientCorrect, BufferedCorrect, PTL DEF Spec, ArrivesInOrder

\* The chunk the player gets is to be played no later than any other one.
PlaysInOrder ==
  \A i \in DOMAIN receivebuffer : Peek(receivebuffer).playAt <= receivebuffer[i].playAt

(***************************************************************************)
(* A client whose chunks arrive in order plays them in order, for every    *)
(* size of the buffer.  Where they do not, PARENT, which is not the        *)
(* inverse of LEFT and RIGHT, may leave a chunk in front of an earlier     *)
(* one.                                                                    *)
(***************************************************************************)
THEOREM PlaysInOrderHolds ==
  IntWideEnough => (Spec /\ ArrivesInOrder => []PlaysInOrder)
<1>1. BufferedInv /\ HeapOrdered(receivebuffer) => PlaysInOrder
  <2> SUFFICES ASSUME BufferedInv, HeapOrdered(receivebuffer),
                      NEW i \in DOMAIN receivebuffer
               PROVE  Peek(receivebuffer).playAt <= receivebuffer[i].playAt
    BY DEF PlaysInOrder
  <2>1. receivebuffer \in Seq(Chunk)
    BY DEF BufferedInv
  <2>2. i \in 1..Len(receivebuffer)
    BY <2>1, LenProperties
  <2> QED BY <2>1, <2>2, PeekIsFirst
<1> QED BY <1>1, HeapStaysOrdered, BufferedCorrect, PTL

-----------------------------------------------------------------------------
(* Room in the receive buffer.                                             *)

(***************************************************************************)
(* How many chunks there can be that are still to be played, of those sent *)
(* since the timeline last started afresh: they are a chunk's duration     *)
(* apart, and only the newest of them may be further ahead than FullLead,  *)
(* as the pipe is not read any more then.                                  *)
(***************************************************************************)
TimelineSpaced ==
  \A i, j \in 1..Len(sent) : epoch < i /\ i < j => sent[i] + ChunkMs <= sent[j]
OnlyNewestAhead ==
  \A i \in 1..Len(sent) : epoch < i /\ i < Len(sent) => sent[i] <= now + FullLead

\* The chunks of a client that knows which stream it gets are of that stream.
OfStream(q) == \A i \in 1..Len(q) : \E k \in Sent : q[i] = ChunkOf(k)
BufferIsOfStream == ~astray => OfStream(receivebuffer)

StreamInv == TimelineSpaced /\ OnlyNewestAhead

LEMMA FullLeadType == FullLead \in Nat
  BY TimelineAssumption DEF FullLead

LEMMA SendAudioStream ==
  ASSUME ClientInv, StreamInv, SendAudio
  PROVE  StreamInv'
<1> DEFINE L == Len(sent)
<1>t. ClientTypes
  BY DEF ClientInv
<1>1. sent \in Seq(Nat) /\ L \in Nat /\ now \in Nat /\ ChunkMs \in Nat
  BY <1>t, SendAudioCases, TimelineAssumption
<1>2. \A i \in 1..L : sent[i] \in Nat
  BY <1>1, ElementOfSeq
<1>3. PICK p \in Nat :
        /\ sent' = Append(sent, p)
        /\ \/ epoch' = L
           \/ /\ epoch' = epoch
              /\ sent # <<>> => p = sent[L] + ChunkMs /\ sent[L] <= now + FullLead
  BY <1>t, SendAudioCases
<1>5. /\ Len(sent') = L + 1 /\ sent'[L + 1] = p
      /\ \A i \in 1..L : sent'[i] = sent[i]
  BY <1>1, <1>3, AppendProperties
<1>6. now' = now
  BY DEF SendAudio
<1>7. ASSUME NEW i \in 1..L, epoch' < i
      PROVE  epoch < i /\ sent[i] + ChunkMs <= p /\ sent[i] <= now + FullLead
  <2>1. sent # <<>> /\ L \in 1..L
    BY <1>1, EmptySeq
  <2>2. epoch' = epoch /\ p = sent[L] + ChunkMs /\ sent[L] <= now + FullLead
    BY <1>1, <1>3, <1>7, <2>1
  <2>3. sent[i] \in Nat /\ sent[L] \in Nat /\ epoch < i
    BY <1>2, <1>7, <2>1, <2>2
  <2>4. i = L \/ (sent[i] + ChunkMs <= sent[L] /\ sent[i] <= now + FullLead)
    <3>1. CASE i < L
      BY <3>1, <2>1, <2>3 DEF StreamInv, TimelineSpaced, OnlyNewestAhead
    <3> QED BY <3>1, <1>1
  <2> HIDE DEF L
  <2> QED BY <2>2, <2>3, <2>4, <1>1
<1> HIDE DEF L
<1>10. TimelineSpaced'
  <2> SUFFICES ASSUME NEW i \in 1..Len(sent'), NEW j \in 1..Len(sent'),
                      epoch' < i, i < j
               PROVE  sent'[i] + ChunkMs <= sent'[j]
    BY DEF TimelineSpaced
  <2>1. i \in 1..L /\ (j \in 1..L \/ j = L + 1)
    BY <1>1, <1>5
  <2>2. sent'[i] = sent[i] /\ epoch < i /\ sent[i] + ChunkMs <= p
    BY <2>1, <1>5, <1>7
  <2>3. CASE j \in 1..L
    BY <2>1, <2>2, <2>3, <1>5 DEF StreamInv, TimelineSpaced, L
  <2>4. CASE j = L + 1
    BY <2>2, <2>4, <1>5
  <2> QED BY <2>1, <2>3, <2>4
<1>11. OnlyNewestAhead'
  <2> SUFFICES ASSUME NEW i \in 1..Len(sent'), epoch' < i, i < Len(sent')
               PROVE  sent'[i] <= now + FullLead
    BY <1>6 DEF OnlyNewestAhead
  <2>1. i \in 1..L
    BY <1>1, <1>5
  <2> QED BY <2>1, <1>5, <1>7
<1> QED BY <1>10, <1>11 DEF StreamInv

LEMMA ContinueStream ==
  ASSUME ClientInv, NEW s \in OtherStreams, Continue(s)
  PROVE  StreamInv'
<1>1. sent' = s /\ epoch' = 0 /\ now' = now /\ IsUnderWay(s) /\ now \in Nat
  BY DEF Continue, ClientInv, ClientTypes
<1>2. PICK len \in 0..MaxPackets, p \in 1..now + ColdStartMs :
        s = [i \in 1..len |-> p + (i - 1) * ChunkMs]
  BY DEF OtherStreams
<1>3. len \in Nat /\ p \in Nat /\ ChunkMs \in Nat
  BY <1>1, TimelineAssumption, IntercomClientAssumption
<1>4. ASSUME NEW i \in 1..len PROVE s[i] \in Nat /\ s[i] = p + (i - 1) * ChunkMs
  <2>1. s[i] = p + (i - 1) * ChunkMs
    BY <1>2
  <2>2. i - 1 \in Nat
    BY <1>3
  <2>3. (i - 1) * ChunkMs \in Nat
    BY <1>3, <2>2
  <2> QED BY <1>3, <2>1, <2>3
<1>5. Len(s) = len
  <2>1. s \in [1..len -> Nat]
    BY <1>2, <1>4
  <2> QED BY <1>3, <2>1, LenProperties, IsASeq
<1>6. ASSUME NEW i \in 1..len, NEW j \in 1..len, i < j PROVE s[i] + ChunkMs <= s[j]
  BY <1>3, <1>4, <1>6, ChunksApart
<1>7. TimelineSpaced'
  BY <1>1, <1>5, <1>6 DEF TimelineSpaced
<1>8. OnlyNewestAhead'
  BY <1>1, <1>5 DEF OnlyNewestAhead, IsUnderWay
<1> QED BY <1>7, <1>8 DEF StreamInv

LEMMA NextStream ==
  ASSUME ClientInv, StreamInv, [Next]_vars
  PROVE  StreamInv'
<1>1. now \in Nat /\ sent \in Seq(Nat)
  BY DEF ClientInv, ClientTypes
<1>2. CASE sent' = sent /\ epoch' = epoch /\ now' \in Nat /\ now <= now'
  <2>1. \A i \in 1..Len(sent) : sent[i] \in Nat
    BY <1>1, ElementOfSeq
  <2>3. ASSUME NEW i \in 1..Len(sent), sent[i] <= now + FullLead
        PROVE  sent[i] <= now' + FullLead
    BY <1>1, <1>2, <2>1, <2>3, FullLeadType
  <2>4. TimelineSpaced'
    BY <1>2 DEF StreamInv, TimelineSpaced
  <2>5. OnlyNewestAhead'
    BY <1>2, <2>3 DEF StreamInv, OnlyNewestAhead
  <2> QED BY <2>4, <2>5 DEF StreamInv
<1>3. CASE Tick
  BY <1>1, <1>2, <1>3 DEF Tick
<1>4. \/ sent' = sent /\ epoch' = epoch /\ now' = now
      \/ SendAudio
      \/ Tick
      \/ \E s \in OtherStreams : Continue(s)
  BY DEF Next, vars, ReceiveAudio, ReceiveStop, ReceiveVolume, RunRequestTask,
         RequestTask, GetNextAudioChunk, SetStream, RestartServer, Reconnect
<1>5. CASE sent' = sent /\ epoch' = epoch /\ now' = now
  BY <1>1, <1>2, <1>5
<1> QED BY <1>3, <1>4, <1>5, SendAudioStream, ContinueStream

\* What is in the buffer of a client that is told nothing new stays what it was.
LEMMA LessOfStream ==
  ASSUME BufferIsOfStream, From(receivebuffer, receivebuffer'), ~astray' => ~astray,
         Sent \subseteq Sent', \A k \in Sent : ChunkOf(k)' = ChunkOf(k)
  PROVE  BufferIsOfStream'
<1>1. ASSUME ~astray', NEW i \in 1..Len(receivebuffer')
      PROVE  \E k \in Sent' : receivebuffer'[i] = ChunkOf(k)'
  <2>1. PICK j \in 1..Len(receivebuffer) : receivebuffer'[i] = receivebuffer[j]
    BY DEF From
  <2>2. PICK k \in Sent : receivebuffer[j] = ChunkOf(k)
    BY <1>1 DEF BufferIsOfStream, OfStream
  <2>3. k \in Sent' /\ receivebuffer'[i] = ChunkOf(k)'
    BY <2>1, <2>2
  <2> QED BY <2>3
<1> QED BY <1>1 DEF BufferIsOfStream, OfStream

LEMMA NextOfStream ==
  ASSUME ClientInv, BufferedInv, BufferIsOfStream, [Next]_vars
  PROVE  BufferIsOfStream'
<1>1. /\ receivebuffer \in Seq(Chunk) /\ ClientTypes
      /\ sent \in Seq(Nat) /\ Len(sent) \in Nat /\ astray \in BOOLEAN
  BY LenProperties DEF BufferedInv, ClientInv, ClientTypes
<1>2. From(receivebuffer, receivebuffer)
  BY DEF From
<1>3. Len(<<>>) = 0
  OBVIOUS
<1>4. ASSUME sent' = sent PROVE Sent' = Sent /\ \A k \in Sent : ChunkOf(k)' = ChunkOf(k)
  BY <1>4 DEF Sent, ChunkOf, PlayAt
<1>5. ASSUME NEW n \in Sent, StoreChunk(n), sent' = sent PROVE BufferIsOfStream'
  <2> DEFINE cap == BufferCapacity
             huge == (~IsNextChunk(n) /\ n >= last) /\ n - last >= cap
             base == IF huge THEN <<>> ELSE receivebuffer
             rb == PutChunk(base, cap, n)
  <2>1. receivebuffer' = rb /\ astray' = (astray /\ ~huge)
    BY <1>5 DEF StoreChunk
  <2>2. cap \in Nat
    BY ElementsType DEF BufferCapacity, ClientInv, ClientTypes
  <2> HIDE DEF cap, huge
  <2>3. base \in Seq(Chunk)
    BY <1>1
  <2>4. ~astray' => OfStream(base)
    <3>1. CASE huge
      <4>1. base = <<>>
        BY <3>1
      <4> HIDE DEF base
      <4> QED BY <4>1, <1>3 DEF OfStream
    <3>2. CASE ~huge
      <4>1. base = receivebuffer
        BY <3>2
      <4>2. astray' = astray
        BY <2>1, <3>2, <1>1, Zenon
      <4> HIDE DEF base
      <4> QED BY <4>1, <4>2 DEF BufferIsOfStream
    <3> QED BY <3>1, <3>2
  <2> HIDE DEF base
  <2>5. \A i \in 1..Len(rb) : \/ rb[i] = ChunkOf(n)
                              \/ \E j \in 1..Len(base) : rb[i] = base[j]
    BY ONLY <1>1, <2>2, <2>3, n \in Sent, PutChunkKeeps
  <2> HIDE DEF rb
  <2>6. ~astray' => OfStream(rb)
    BY <2>4, <2>5 DEF OfStream
  <2> QED BY <2>1, <2>6, <1>4, <1>5 DEF BufferIsOfStream, OfStream
<1>6. CASE receivebuffer' = <<>>
  BY <1>3, <1>6 DEF BufferIsOfStream, OfStream
<1>7. CASE GetNextAudioChunk
  <2>1. /\ receivebuffer # <<>> /\ receivebuffer' = Dequeue(receivebuffer)
        /\ astray' = astray /\ sent' = sent
    BY <1>7 DEF GetNextAudioChunk, historyVars
  <2>2. From(receivebuffer, receivebuffer')
    BY <2>1, <1>1, DequeueKeeps, KeepsFrom
  <2> QED BY <2>1, <2>2, <1>4, LessOfStream
<1>8. CASE SendAudio
  <2>1. PICK p : sent' = Append(sent, p)
    BY <1>8 DEF SendAudio
  <2>2. Sent \subseteq Sent' /\ \A k \in Sent : ChunkOf(k)' = ChunkOf(k)
    <3>1. Len(sent') = Len(sent) + 1 /\ \A i \in 1..Len(sent) : sent'[i] = sent[i]
      BY <2>1, <1>1
    <3>2. \A k \in Sent : k + 1 \in 1..Len(sent)
      BY <1>1 DEF Sent
    <3>3. Sent \subseteq Sent'
      BY <3>1, <1>1 DEF Sent
    <3>4. \A k \in Sent : PlayAt(k)' = PlayAt(k)
      BY <3>1, <3>2 DEF PlayAt
    <3>5. \A k \in Sent : ChunkOf(k)' = ChunkOf(k)
      BY <3>4 DEF ChunkOf
    <3> QED BY <3>3, <3>5
  <2>3. receivebuffer' = receivebuffer /\ astray' = astray
    BY <1>8 DEF SendAudio, clientVars, historyVars
  <2> QED BY <2>2, <2>3, <1>2, LessOfStream
<1>9. CASE astray'
  BY <1>9 DEF BufferIsOfStream
<1>10. CASE receivebuffer' = receivebuffer /\ astray' = astray /\ sent' = sent
  BY <1>2, <1>4, <1>10, LessOfStream
<1>11. \/ receivebuffer' = receivebuffer /\ astray' = astray /\ sent' = sent
       \/ GetNextAudioChunk
       \/ SendAudio
       \/ receivebuffer' = <<>>
       \/ astray'
       \/ \E n \in Sent : StoreChunk(n) /\ sent' = sent
  BY DEF Next, vars, clientVars, historyVars, ReceiveAudio, DiscardChunk, ReceiveStop,
         HandleStop, ReceiveVolume, RunRequestTask, RequestTask, SetStream,
         RestartServer, Continue, Reconnect, Tick
<1> QED BY <1>5, <1>6, <1>7, <1>8, <1>9, <1>10, <1>11

LEMMA StreamCorrect == IntWideEnough => (Spec => [](StreamInv /\ BufferIsOfStream))
<1> SUFFICES ASSUME IntWideEnough PROVE Spec => [](StreamInv /\ BufferIsOfStream)
  OBVIOUS
<1>1. Init => StreamInv /\ BufferIsOfStream
  <2>1. Len(<<>>) = 0
    OBVIOUS
  <2> QED BY <2>1 DEF Init, StreamInv, TimelineSpaced, OnlyNewestAhead, BufferIsOfStream,
                      OfStream
<1>2. ClientInv /\ BufferedInv /\ (StreamInv /\ BufferIsOfStream) /\ [Next]_vars
        => (StreamInv /\ BufferIsOfStream)'
  BY NextStream, NextOfStream
<1> QED BY <1>1, <1>2, ClientCorrect, BufferedCorrect, PTL DEF Spec

\* Division by the duration of a chunk.
LEMMA DivType ==
  ASSUME NEW x \in Nat, NEW c \in Nat, c > 0
  PROVE  x \div c \in Nat
  OBVIOUS

LEMMA DivMonotonic ==
  ASSUME NEW x \in Nat, NEW y \in Nat, NEW c \in Nat, c > 0, x <= y
  PROVE  x \div c <= y \div c
  OBVIOUS

LEMMA DivApart ==
  ASSUME NEW x \in Nat, NEW y \in Nat, NEW c \in Nat, c > 0, x + c <= y
  PROVE  x \div c # y \div c
  OBVIOUS

\* A buffer in which no packet is twice.
Once(q) == \A i, j \in 1..Len(q) : q[i].seqno = q[j].seqno => i = j

LEMMA KeepsOnce ==
  ASSUME NEW a, NEW b, NEW G, Keeps(a, b, G), Once(a)
  PROVE  Once(b)
<1>1. PICK p : Selects(p, a, b, G)
  BY DEF Keeps
<1>2. /\ p \in [1..Len(b) -> 1..Len(a)]
      /\ \A i, j \in 1..Len(b) : p[i] = p[j] => i = j
      /\ \A i \in 1..Len(b) : b[i] = a[p[i]]
  BY <1>1 DEF Selects
<1>3. ASSUME NEW i \in 1..Len(b), NEW j \in 1..Len(b), b[i].seqno = b[j].seqno
      PROVE  i = j
  <2>1. p[i] \in 1..Len(a) /\ p[j] \in 1..Len(a) /\ b[i] = a[p[i]] /\ b[j] = a[p[j]]
    BY <1>2
  <2>2. p[i] = p[j]
    BY <2>1, <1>3 DEF Once
  <2> QED BY <2>2, <1>2
<1> QED BY <1>3 DEF Once

\* In which of the slots, each as long as a chunk, packet k is to be played.
Slot(k) == (PlayAt(k) - now) \div ChunkMs

\* Two packets of one timeline that are still to be played are not in the same
\* slot.
LEMMA OnePerSlot ==
  ASSUME ClientTypes, TimelineSpaced, NEW k \in Sent, NEW m \in Sent, epoch <= k, k < m,
         now <= PlayAt(k), now <= PlayAt(m)
  PROVE  Slot(k) # Slot(m)
<1>1. /\ sent \in Seq(Nat) /\ Len(sent) \in Nat /\ now \in Nat
      /\ ChunkMs \in Nat /\ ChunkMs > 0
  BY LenProperties, TimelineAssumption DEF ClientTypes
<1>2. k + 1 \in 1..Len(sent) /\ m + 1 \in 1..Len(sent) /\ epoch < k + 1 /\ k + 1 < m + 1
  BY <1>1 DEF Sent, ClientTypes
<1>3. PlayAt(k) \in Nat /\ PlayAt(m) \in Nat
  BY <1>1, <1>2, ElementOfSeq DEF PlayAt
<1>4. PlayAt(k) + ChunkMs <= PlayAt(m)
  BY <1>2 DEF TimelineSpaced, PlayAt
<1> DEFINE x == PlayAt(k) - now
           y == PlayAt(m) - now
<1>5. x \in Nat /\ y \in Nat /\ x + ChunkMs <= y
  BY <1>1, <1>3, <1>4
<1> HIDE DEF x, y
<1>6. x \div ChunkMs # y \div ChunkMs
  BY <1>1, <1>5, DivApart
<1> QED BY <1>6 DEF Slot, x, y

\* There is a slot for each packet but the newest one.
LEMMA SlotBound ==
  ASSUME ClientTypes, OnlyNewestAhead, NEW k \in Sent, epoch <= k, k # Len(sent) - 1,
         now <= PlayAt(k)
  PROVE  Slot(k) \in 0 .. FullLead \div ChunkMs
<1>1. /\ sent \in Seq(Nat) /\ Len(sent) \in Nat /\ now \in Nat
      /\ ChunkMs \in Nat /\ ChunkMs > 0 /\ FullLead \in Nat
  BY LenProperties, TimelineAssumption, FullLeadType DEF ClientTypes
<1>2. k + 1 \in 1..Len(sent) /\ epoch < k + 1 /\ k + 1 < Len(sent)
  BY <1>1 DEF Sent, ClientTypes
<1>3. PlayAt(k) \in Nat /\ PlayAt(k) <= now + FullLead
  BY <1>1, <1>2, ElementOfSeq DEF PlayAt, OnlyNewestAhead
<1>4. PlayAt(k) - now \in Nat /\ PlayAt(k) - now <= FullLead
  BY <1>1, <1>3
<1>5. /\ Slot(k) \in Nat /\ FullLead \div ChunkMs \in Nat
      /\ Slot(k) <= FullLead \div ChunkMs
  BY <1>1, <1>4, DivType, DivMonotonic DEF Slot
<1> QED BY <1>5

\* Chunks sent since the timeline last started afresh.
OfTimeline(q) == \A i \in 1..Len(q) : q[i].seqno >= epoch

\* As many chunks of one timeline can still be played as there are slots, and one.
LEMMA FewAreAhead ==
  ASSUME ClientTypes, StreamInv, NEW a \in Seq(Chunk), OfStream(a), OfTimeline(a),
         Once(a),
         \A i \in 1..Len(a) : now <= a[i].playAt
  PROVE  Len(a) <= FullLead \div ChunkMs + 2
<1> DEFINE K == FullLead \div ChunkMs
           S == 1..Len(a)
           T == 0..K+1
           f == [i \in S |-> IF a[i].seqno = Len(sent) - 1 THEN K + 1
                                                           ELSE Slot(a[i].seqno)]
<1>1. Len(a) \in Nat /\ K \in Nat
  <2>1. FullLead \in Nat /\ ChunkMs \in Nat /\ ChunkMs > 0
    BY TimelineAssumption, FullLeadType
  <2> QED BY <2>1, LenProperties, DivType
<1>2. SUFFICES ASSUME Len(a) > K + 2 PROVE FALSE
  BY <1>1
<1>3. ASSUME NEW i \in S
      PROVE  a[i].seqno \in Sent /\ epoch <= a[i].seqno /\ now <= PlayAt(a[i].seqno)
  <2>1. PICK k \in Sent : a[i] = ChunkOf(k)
    BY DEF OfStream
  <2>2. a[i].seqno = k /\ a[i].playAt = PlayAt(k)
    BY <2>1 DEF ChunkOf
  <2>3. k >= epoch /\ k \in Int /\ epoch \in Int
    BY <2>2, LenProperties DEF OfTimeline, Sent, ClientTypes
  <2> QED BY <2>2, <2>3
<1>4. ASSUME NEW i \in S, a[i].seqno # Len(sent) - 1 PROVE Slot(a[i].seqno) \in 0..K
  BY <1>3, <1>4, SlotBound DEF StreamInv
<1> HIDE DEF K
<1>5. f \in [S -> T]
  BY <1>1, <1>4
<1>6. IsFiniteSet(S) /\ Cardinality(S) = Len(a)
  <2>1. 1 \in Int /\ Len(a) \in Int /\ ~(1 > Len(a)) /\ Len(a) - 1 + 1 = Len(a)
    BY <1>1, <1>2
  <2> QED BY <2>1, FS_Interval
<1>7. IsFiniteSet(T) /\ Cardinality(T) = K + 2
  <2>1. 0 \in Int /\ K + 1 \in Int /\ ~(0 > K + 1) /\ (K + 1) - 0 + 1 = K + 2
    BY <1>1
  <2> QED BY <2>1, FS_Interval
<1>8. Cardinality(T) < Cardinality(S)
  BY <1>1, <1>2, <1>6, <1>7
<1>9. PICK i, j \in S : i # j /\ f[i] = f[j]
  <2> HIDE DEF S, T, f
  <2> QED BY <1>5, <1>6, <1>7, <1>8, FS_PigeonHole
<1>10. a[i].seqno # a[j].seqno
  BY <1>9 DEF Once
<1>11. a[i].seqno # Len(sent) - 1 /\ a[j].seqno # Len(sent) - 1
  <2>1. CASE a[i].seqno = Len(sent) - 1
    <3>1. f[i] = K + 1 /\ f[j] = Slot(a[j].seqno) /\ Slot(a[j].seqno) \in 0..K
      BY <2>1, <1>4, <1>10
    <3> QED BY <3>1, <1>1, <1>9
  <2>2. CASE a[j].seqno = Len(sent) - 1
    <3>1. f[j] = K + 1 /\ f[i] = Slot(a[i].seqno) /\ Slot(a[i].seqno) \in 0..K
      BY <2>2, <1>4, <1>10
    <3> QED BY <3>1, <1>1, <1>9
  <2> QED BY <2>1, <2>2
<1>12. Slot(a[i].seqno) = Slot(a[j].seqno)
  BY <1>9, <1>11
<1> DEFINE k == a[i].seqno
           m == a[j].seqno
<1>13. /\ k \in Sent /\ m \in Sent /\ now <= PlayAt(k) /\ now <= PlayAt(m)
       /\ k # m /\ Slot(k) = Slot(m) /\ epoch <= k /\ epoch <= m
  BY <1>3, <1>10, <1>12
<1> HIDE DEF k, m
<1>14. k < m \/ m < k
  BY <1>13, LenProperties DEF Sent, ClientTypes
<1> QED BY <1>13, <1>14, OnePerSlot DEF StreamInv

\* The buffer has an element for each of them if it takes 20 chunks or more.  The
\* code does not see to it: a buffer of 110 ms has 6 elements for chunks of 20 ms,
\* and 7 of them are ahead of the clock when the first is to be played in 0 to 4 ms.
LEMMA WideBuffer == 20 * ChunkMs <= BufferMs => BufferWideEnough
<1> SUFFICES ASSUME 20 * ChunkMs <= BufferMs PROVE BufferWideEnough
  OBVIOUS
<1>1. BufferMs \in Nat /\ ChunkMs \in Nat /\ ChunkMs > 0 /\ FullLead \in Nat
  BY TimelineAssumption, FullLeadType
<1>2. FullLead + ChunkMs <= BufferMs
  <2>1. 100 * FullLead <= BufferMs * 95
    BY <1>1 DEF FullLead
  <2> QED BY <1>1, <2>1
<1>3. FullLead \div ChunkMs # BufferMs \div ChunkMs
  BY <1>1, <1>2, DivApart
<1>4. FullLead <= BufferMs
  BY <1>1, <1>2
<1>5. FullLead \div ChunkMs <= BufferMs \div ChunkMs
  BY <1>1, <1>4, DivMonotonic
<1>6. FullLead \div ChunkMs \in Nat /\ BufferMs \div ChunkMs \in Nat
  BY <1>1, DivType
<1> QED BY <1>3, <1>5, <1>6 DEF BufferWideEnough

\* intercom_put_chunk, with a heap in order and a chunk that is still to be played.
LEMMA PutChunkHasRoom ==
  ASSUME ClientTypes, StreamInv, BufferWideEnough, NEW q \in Seq(Chunk),
         HeapOrdered(q), OfStream(q), OfTimeline(q), Once(q), NEW n \in Sent,
         n >= epoch, PlayAt(n) > now
  PROVE  \E i \in 1..Len(PutChunk(q, Elements, n)) : PutChunk(q, Elements, n)[i].seqno = n
<1> DEFINE o == RemoveOld[q]
           c == ChunkOf(n)
           a == Append(o, c)
           rb == PutChunk(q, Elements, n)
<1>1. now \in Nat /\ Elements \in Nat
  BY ElementsType DEF ClientTypes
<1>2. c \in Chunk /\ c.seqno = n /\ c.playAt = PlayAt(n)
  BY ChunkOfType
<1>3. PlayAt(n) \in Nat
  BY <1>2 DEF Chunk
<1>4. CASE \E k \in 1..Len(q) : q[k].seqno = n
  <2>1. PICK k \in 1..Len(q) : q[k].seqno = n
    BY <1>4
  <2>2. PICK m \in Sent : q[k] = ChunkOf(m)
    BY DEF OfStream
  <2>3. q[k] = c
    BY <2>1, <2>2, ChunkOfType
  <2>4. q[k] \notin OldChunks
    <3>1. ~(PlayAt(n) < now)
      BY <1>1, <1>3
    <3> QED BY <2>3, <3>1, <1>2 DEF OldChunks
  <2>5. \A j \in 1..Len(q) : q[j] \in OldChunks \/ \E i \in 1..Len(rb) : rb[i] = q[j]
    BY <1>1, PutChunkKeeps
  <2> HIDE DEF rb, c
  <2>6. PICK i \in 1..Len(rb) : rb[i] = q[k]
    BY <2>4, <2>5
  <2>7. \E j \in 1..Len(rb) : rb[j].seqno = n
    BY <2>3, <2>6, <1>2
  <2> QED BY <2>7 DEF rb
<1>5. CASE ~\E k \in 1..Len(q) : q[k].seqno = n
  <2>1. Keeps(q, o, OldChunks)
    BY <1>1, RemoveOldKeeps
  <2>2. o \in Seq(Chunk) /\ From(q, o) /\ Once(o)
    BY <2>1, KeepsFrom, KeepsOnce DEF Keeps
  <2>3. \A i \in 1..Len(o) : now <= o[i].playAt
    BY <1>1, RemoveOldOrders
  <2>4. rb = Enqueue(o, Elements, c)
    BY DEF PutChunk, ChunkOf
  <2> HIDE DEF o, c, rb
  <2>5. Len(o) \in Nat
    BY <2>2, LenProperties
  <2>6. /\ a \in Seq(Chunk) /\ Len(a) = Len(o) + 1 /\ a[Len(o) + 1] = c
        /\ \A i \in 1..Len(o) : a[i] = o[i]
    BY <1>2, <2>2, AppendProperties
  <2> HIDE DEF a
  <2>7. \A i \in 1..Len(a) : i \in 1..Len(o) \/ i = Len(o) + 1
    BY <2>5, <2>6
  <2>8. \A i \in 1..Len(o) : o[i].seqno # n
    BY <1>5, <2>2 DEF From
  <2>9. OfStream(a)
    <3>1. OfStream(o)
      BY <2>2 DEF OfStream, From
    <3> QED BY <3>1, <2>6, <2>7 DEF OfStream, c
  <2>t. OfTimeline(a)
    <3>1. OfTimeline(o)
      BY <2>2 DEF OfTimeline, From
    <3> QED BY <3>1, <1>2, <2>6, <2>7 DEF OfTimeline
  <2>10. Once(a)
    <3> SUFFICES ASSUME NEW i \in 1..Len(a), NEW j \in 1..Len(a), a[i].seqno = a[j].seqno
                 PROVE  i = j
      BY DEF Once
    <3>1. CASE i \in 1..Len(o) /\ j \in 1..Len(o)
      BY <3>1, <2>2, <2>6 DEF Once
    <3>2. CASE i = Len(o) + 1 /\ j \in 1..Len(o)
      BY <3>2, <1>2, <2>6, <2>8
    <3>3. CASE i \in 1..Len(o) /\ j = Len(o) + 1
      BY <3>3, <1>2, <2>6, <2>8
    <3>4. CASE i = Len(o) + 1 /\ j = Len(o) + 1
      BY <3>4
    <3> QED BY <2>7, <3>1, <3>2, <3>3, <3>4
  <2>11. \A i \in 1..Len(a) : now <= a[i].playAt
    <3>1. now <= c.playAt
      BY <1>1, <1>2, <1>3
    <3> QED BY <3>1, <2>3, <2>6, <2>7
  <2>12. Len(a) <= FullLead \div ChunkMs + 2
    BY <2>6, <2>9, <2>t, <2>10, <2>11, FewAreAhead
  <2>13. Len(o) < Elements
    <3>1. FullLead \div ChunkMs \in Nat /\ BufferMs \div ChunkMs \in Nat
      BY TimelineAssumption, FullLeadType, DivType
    <3> QED BY <3>1, <2>5, <2>6, <2>12 DEF Elements, BufferWideEnough
  <2>14. Keeps(a, rb, {})
    BY <1>1, <1>2, <2>2, <2>4, <2>13, EnqueueKeeps DEF a
  <2>15. Len(o) + 1 \in 1..Len(a) /\ a[Len(o) + 1] \notin {}
    BY <2>5, <2>6
  <2>16. PICK i \in 1..Len(rb) : rb[i] = a[Len(o) + 1]
    BY <2>14, <2>15, KeepsRest
  <2>17. rb[i].seqno = n
    BY <2>16, <2>6, <1>2
  <2> QED BY <2>17 DEF rb
<1> QED BY <1>4, <1>5

LEMMA StoreHasRoom ==
  ASSUME ClientInv, BufferedInv, StreamInv, BufferIsOfStream, HeapOrdered(receivebuffer),
         BufferWideEnough, ~astray, BufferedOnce, NEW n \in Sent, OfOneTimeline(n),
         StoreChunk(n)
  PROVE  \E i \in DOMAIN receivebuffer' : receivebuffer'[i].seqno = n
<1> DEFINE huge == (~IsNextChunk(n) /\ n >= last) /\ n - last >= BufferCapacity
           base == IF huge THEN <<>> ELSE receivebuffer
           rb == PutChunk(base, Elements, n)
<1>1. BufferCapacity = Elements /\ Elements \in Nat /\ ClientTypes
  BY ElementsType DEF BufferCapacity, ClientInv, ClientTypes
<1>2. receivebuffer' = rb /\ PlayAt(n) > now
  BY <1>1 DEF StoreChunk
<1> HIDE DEF huge
<1>3. /\ base \in Seq(Chunk) /\ HeapOrdered(base) /\ OfStream(base)
      /\ OfTimeline(base) /\ Once(base)
  <2>1. CASE huge
    <3>1. base = <<>> /\ Len(<<>>) = 0 /\ <<>> \in Seq(Chunk)
      BY <2>1
    <3> HIDE DEF base
    <3> QED BY <3>1, EmptyOrdered DEF OfStream, OfTimeline, Once
  <2>2. CASE ~huge
    <3>1. base = receivebuffer
      BY <2>2
    <3>2. receivebuffer \in Seq(Chunk)
      BY DEF BufferedInv
    <3>3. DOMAIN receivebuffer = 1..Len(receivebuffer)
      BY <3>2, LenProperties
    <3> HIDE DEF base
    <3> QED BY <3>1, <3>2, <3>3
            DEF BufferIsOfStream, BufferedOnce, Once, OfOneTimeline, OfTimeline
  <2> QED BY <2>1, <2>2
<1> HIDE DEF base
<1>4. \E i \in 1..Len(rb) : rb[i].seqno = n
  BY <1>1, <1>2, <1>3, PutChunkHasRoom DEF OfOneTimeline
<1>5. rb \in Seq(Chunk)
  BY <1>1, <1>3, PutChunkKeeps
<1> HIDE DEF rb
<1>6. DOMAIN rb = 1..Len(rb)
  BY <1>5, LenProperties
<1> QED BY <1>2, <1>4, <1>6

(***************************************************************************)
(* pqueue_enqueue, which drops what does not fit and tells nobody, drops   *)
(* no chunk that can still be played, in every buffer of 20 chunks or more *)
(* (WideBuffer), if chunks arrive in order and those of an earlier         *)
(* timeline are gone.  The size does not do it alone:                      *)
(* remove_old_data_from_receivebuffer has to reach everything that is old, *)
(* which takes a heap in order.                                            *)
(***************************************************************************)
THEOREM RoomForEveryChunkHolds ==
  IntWideEnough => (Spec /\ ArrivesInOrder => RoomForEveryChunk)
<1> SUFFICES ASSUME IntWideEnough
             PROVE  Spec /\ ArrivesInOrder => RoomForEveryChunk
  OBVIOUS
<1>1. ASSUME ClientInv, BufferedInv, StreamInv, BufferIsOfStream,
             HeapOrdered(receivebuffer), NEW n \in Sent,
             BufferWideEnough, ~astray, BufferedOnce, OfOneTimeline(n),
             ReceiveAudio(n), lastSeen' # lastSeen, PlayAt(n) > now
      PROVE  \E i \in DOMAIN receivebuffer' : receivebuffer'[i].seqno = n
  <2>1. StoreChunk(n) \/ DiscardChunk(n)
    BY <1>1 DEF ReceiveAudio
  <2>2. ~DiscardChunk(n)
    <3>1. now \in Nat /\ PlayAt(n) \in Nat
      <4>1. ClientTypes
        BY <1>1 DEF ClientInv
      <4>2. ChunkOf(n) \in Chunk /\ ChunkOf(n).playAt = PlayAt(n)
        BY <4>1, ChunkOfType
      <4> QED BY <4>1, <4>2 DEF ClientTypes, Chunk
    <3>2. ~(PlayAt(n) <= now)
      BY <3>1, <1>1
    <3> QED BY <3>2 DEF DiscardChunk
  <2> QED BY <1>1, <2>1, <2>2, StoreHasRoom
<1>2. ClientInv /\ BufferedInv /\ (StreamInv /\ BufferIsOfStream)
        /\ HeapOrdered(receivebuffer) /\ [Next]_vars =>
        [\A n \in Sent :
           /\ BufferWideEnough /\ ~astray /\ BufferedOnce /\ OfOneTimeline(n)
           /\ ReceiveAudio(n) /\ lastSeen' # lastSeen /\ PlayAt(n) > now
           =>
             \E i \in DOMAIN receivebuffer' : receivebuffer'[i].seqno = n]_vars
  BY <1>1
<1> QED BY <1>2, ClientCorrect, BufferedCorrect, StreamCorrect, HeapStaysOrdered, PTL
        DEF Spec, RoomForEveryChunk
=============================================================================
