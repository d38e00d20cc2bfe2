------------------------- MODULE AlsaPlayer_proofs -------------------------
(***************************************************************************)
(* Proofs about the timing of the player, for every size of chunks, of the *)
(* buffer and of the device, and whatever the network and the scheduler    *)
(* do.                                                                     *)
(***************************************************************************)
EXTENDS AlsaPlayer, TLAPS

LEMMA Sizes ==
  /\ StartMs \in Nat /\ StartMs > 0 /\ CloseMs \in Nat
  /\ PeriodMs <= StartMs /\ 2 * StartMs <= DeviceMs
  /\ ChunkMs \div 2 \in Nat /\ ChunkMs \div 2 > 0 /\ 2 * (ChunkMs \div 2) = ChunkMs
BY AlsaPlayerAssumption DEF StartMs, CloseMs

LEMMA Times ==
  /\ BufferMs \in Nat /\ ColdStartMs \in Nat /\ LatencyMs \in Nat /\ NearMs \in Nat
  /\ MaxEmpty \in Nat /\ DeviceMs \in Nat
  /\ ChunkMs \in Nat /\ ChunkMs > 0 /\ EmptyMs \in Nat /\ PeriodMs \in Nat /\ PeriodMs > 0
  /\ FarMs \in Nat /\ SecondMs \in Nat /\ FarMs <= SecondMs
  /\ BytesPerMs \in Nat /\ BytesPerMs > 0 /\ SizeLimit \in Nat /\ SizeLimit > 0
  /\ None \notin Int
BY AlsaPlayerAssumption

\* The arithmetic of adjust_speed: a second that counts for less than a second
\* still counts for something, and for no more.
LEMMA CountedMs ==
  ASSUME NEW a \in Nat, a > 0
  PROVE  LET ms == (a \div SecondMs) * SecondCounts + (a % SecondMs)
         IN  ms \in Nat /\ 0 < ms /\ ms <= a
<1> DEFINE q == a \div SecondMs
           r == a % SecondMs
<1>1. SecondMs \in Nat \ {0} /\ SecondCounts \in Nat \ {0} /\ SecondCounts <= SecondMs
  BY AlsaPlayerAssumption
<1>2. q \in Nat /\ r \in Nat /\ a = SecondMs * q + r
  BY <1>1
<1> HIDE DEF q, r
<1>3. q * SecondCounts \in Nat
  BY <1>1, <1>2
<1>4. q * SecondCounts <= SecondMs * q
  BY <1>1, <1>2
<1>5. q > 0 => q * SecondCounts > 0
  BY <1>1, <1>2
<1>6. q = 0 => SecondMs * q = 0
  BY <1>1
<1>7. q * SecondCounts + r \in Nat /\ 0 < q * SecondCounts + r /\ q * SecondCounts + r <= a
  <2>1. SecondMs * q \in Nat
    BY <1>1, <1>2
  <2> DEFINE x == q * SecondCounts
             y == SecondMs * q
  <2>2. x \in Nat /\ y \in Nat /\ x <= y /\ a = y + r /\ r \in Nat
    BY <1>2, <1>3, <1>4, <2>1
  <2>3. x > 0 \/ y = 0
    BY <1>2, <1>5, <1>6
  <2> HIDE DEF x, y
  <2>4. x + r \in Nat /\ 0 < x + r /\ x + r <= a
    BY <2>2, <2>3
  <2> QED BY <2>4 DEF x
<1> QED BY <1>7 DEF q, r

(***************************************************************************)
(* adjust_speed corrects towards the time of the next chunk and never      *)
(* beyond it.                                                              *)
(***************************************************************************)
LEMMA CorrectionTowards ==
  ASSUME NEW d \in Int
  PROVE  /\ Correction(d) \in Int
         /\ d > 0 => 0 < Correction(d) /\ Correction(d) <= d
         /\ d < 0 => d <= Correction(d) /\ Correction(d) < 0
         /\ d = 0 => Correction(d) = 0
         /\ -ChunkMs <= Correction(d) /\ 2 * Correction(d) <= ChunkMs
<1> DEFINE a == Abs(d)
           ms == (a \div SecondMs) * SecondCounts + (a % SecondMs)
<1>1. a \in Nat /\ (d > 0 => a = d) /\ (d < 0 => a = -d) /\ (d = 0 => a = 0)
  BY DEF Abs
<1>2. d # 0 => ms \in Nat /\ 0 < ms /\ ms <= a
  BY <1>1, CountedMs
<1>3. d = 0 => ms = 0
  BY <1>1, AlsaPlayerAssumption
<1>4. Correction(d) = IF d > 0 THEN Lesser(ms, ChunkMs \div 2) ELSE -Lesser(ms, ChunkMs)
  BY DEF Correction
<1> HIDE DEF a, ms
<1> QED BY <1>1, <1>2, <1>3, <1>4, Sizes, AlsaPlayerAssumption DEF Lesser

\* get_emptychunk never makes a chunk longer than it was asked for.
LEMMA EmptyChunkAtMost ==
  ASSUME NEW ms \in Nat
  PROVE  EmptyChunk(ms) \in Nat /\ EmptyChunk(ms) <= ms
<1> DEFINE b == ms * BytesPerMs
           x == b % SizeLimit
           q == x \div BytesPerMs
<1>1. /\ BytesPerMs \in Nat /\ BytesPerMs > 0 /\ SizeLimit \in Nat /\ SizeLimit > 0
  BY Times
<1>2. b \in Nat
  BY <1>1
<1> HIDE DEF b
<1>3. x \in Nat /\ x <= b
  BY <1>1, <1>2
<1> HIDE DEF x
<1>4. q \in Nat /\ BytesPerMs * q <= x
  BY <1>1, <1>3
<1> HIDE DEF q
<1>5. BytesPerMs * q <= BytesPerMs * ms
  <2>1. b = BytesPerMs * ms
    BY <1>1 DEF b
  <2>2. BytesPerMs * q \in Int /\ BytesPerMs * ms \in Int
    BY <1>1, <1>4
  <2> QED BY <1>2, <1>3, <1>4, <2>1, <2>2
<1>6. q <= ms
  <2> SUFFICES ASSUME q > ms PROVE FALSE
    BY <1>4
  <2>1. PICK d \in Nat : q = ms + 1 + d
    <3>1. q - ms - 1 \in Nat /\ q = ms + 1 + (q - ms - 1)
      BY <1>4
    <3> QED BY <3>1
  <2>2. BytesPerMs * q = BytesPerMs * ms + BytesPerMs + BytesPerMs * d
    BY <1>1, <2>1
  <2>3. BytesPerMs * d \in Nat /\ BytesPerMs * ms \in Nat
    BY <1>1
  <2> QED BY <1>1, <1>5, <2>2, <2>3
<1> QED BY <1>4, <1>6 DEF EmptyChunk, q, x, b

LEMMA SilenceAtMost ==
  ASSUME NEW e \in Nat
  PROVE  SilenceLength(e) \in Nat /\ SilenceLength(e) <= e
<1> DEFINE ms == IF e < 0 THEN 0 ELSE IF e >= SecondMs THEN FarMs ELSE e
<1>1. ms \in Nat /\ ms <= e
  BY Times
<1>2. SilenceLength(e) = EmptyChunk(ms)
  BY DEF SilenceLength
<1> HIDE DEF ms
<1>3. EmptyChunk(ms) \in Nat /\ EmptyChunk(ms) <= ms
  BY <1>1, EmptyChunkAtMost
<1> QED BY <1>1, <1>2, <1>3

-----------------------------------------------------------------------------
(* The receive buffer has a first chunk, whichever chunks are removed.     *)

HasFirst(T) == \E m \in T : \A x \in T : m <= x
Ordered(S) == S \subseteq Int /\ \A T \in SUBSET S : T # {} => HasFirst(T)

LEMMA FirstOf ==
  ASSUME NEW S, Ordered(S), S # {}
  PROVE  Min(S) \in S /\ Min(S) \in Int /\ \A x \in S : Min(S) <= x
<1>1. \E m \in S : \A x \in S : m <= x
  BY DEF Ordered, HasFirst
<1>2. Min(S) \in S /\ \A x \in S : Min(S) <= x
  BY <1>1 DEF Min
<1> QED BY <1>2 DEF Ordered

LEMMA OrderedSubset ==
  ASSUME NEW S, Ordered(S), NEW T, T \subseteq S
  PROVE  Ordered(T)
BY DEF Ordered

LEMMA OrderedAdd ==
  ASSUME NEW S, Ordered(S), NEW l \in Int
  PROVE  Ordered(S \cup {l})
<1> SUFFICES ASSUME NEW T \in SUBSET (S \cup {l}), T # {}
             PROVE  HasFirst(T)
  BY DEF Ordered
<1> DEFINE R == T \ {l}
<1>1. R \in SUBSET S /\ T \subseteq Int
  BY DEF Ordered
<1>2. CASE R = {}
  BY <1>2 DEF HasFirst
<1>3. CASE R # {}
  <2>1. PICK m \in R : \A x \in R : m <= x
    BY <1>1, <1>3 DEF Ordered, HasFirst
  <2>2. CASE l \notin T \/ m <= l
    BY <2>1, <2>2 DEF HasFirst
  <2>3. CASE l \in T /\ l <= m
    <3>1. \A x \in T : l <= x
      BY <1>1, <2>1, <2>3
    <3> QED BY <2>3, <3>1 DEF HasFirst
  <2> QED BY <1>1, <2>1, <2>2, <2>3
<1> QED BY <1>2, <1>3

LEMMA OrderedSooner ==
  ASSUME NEW S, Ordered(S), NEW ms \in Int
  PROVE  /\ Ordered(Sooner(S, ms))
         /\ S # {} => Sooner(S, ms) # {} /\ Min(Sooner(S, ms)) = Min(S) - ms
<1>1. \A x \in S : x \in Int
  BY DEF Ordered
<1>2. \A y : y \in Sooner(S, ms) <=> y \in Int /\ y + ms \in S
  BY <1>1 DEF Sooner
<1>3. Ordered(Sooner(S, ms))
  <2> SUFFICES ASSUME NEW T \in SUBSET Sooner(S, ms), T # {}
               PROVE  HasFirst(T)
    BY <1>2 DEF Ordered
  <2> DEFINE U == {y + ms : y \in T}
  <2>1. T \subseteq Int
    BY <1>2
  <2>2. U \in SUBSET S /\ U # {}
    BY <1>2
  <2>3. PICK m \in U : \A x \in U : m <= x
    BY <2>2 DEF Ordered, HasFirst
  <2>4. PICK y \in T : m = y + ms
    BY <2>3
  <2>5. ASSUME NEW z \in T PROVE y <= z
    <3>1. z + ms \in U
      OBVIOUS
    <3>2. m <= z + ms
      BY <2>3, <3>1
    <3> QED BY <2>1, <2>4, <3>2
  <2> QED BY <2>4, <2>5 DEF HasFirst
<1>4. ASSUME S # {} PROVE Sooner(S, ms) # {} /\ Min(Sooner(S, ms)) = Min(S) - ms
  <2>1. Min(S) \in S /\ Min(S) \in Int /\ \A x \in S : Min(S) <= x
    BY <1>4, FirstOf
  <2>2. Min(S) - ms \in Sooner(S, ms)
    BY <1>2, <2>1
  <2> DEFINE m == Min(Sooner(S, ms))
  <2>3. m \in Sooner(S, ms) /\ m \in Int /\ \A x \in Sooner(S, ms) : m <= x
    BY <1>3, <2>2, FirstOf
  <2> HIDE DEF m
  <2>4. m <= Min(S) - ms
    BY <2>2, <2>3
  <2>5. Min(S) <= m + ms
    BY <1>2, <2>1, <2>3
  <2>6. m = Min(S) - ms
    BY <2>1, <2>3, <2>4, <2>5
  <2> QED BY <2>2, <2>6 DEF m
<1> QED BY <1>3, <1>4

-----------------------------------------------------------------------------
(***************************************************************************)
(* The invariant: the device plays unless it has too little to start with, *)
(* and the time that is queued ahead of the next chunk is what the player  *)
(* meant it to be, through partial writes and as time passes.              *)
(***************************************************************************)
DeviceOK ==
  /\ running => delay > 0
  /\ ~running => delay < StartMs
  /\ ~initialized => delay = 0 /\ ~running /\ raw = None /\ ~playing

Queued == delay + overflow + LatencyMs - Min(buf)

Intended ==
  raw # None =>
    /\ buf # {}
    /\ playing => Queued = IF near THEN raw ELSE raw - Correction(raw)
    /\ ~playing => Queued = raw /\ raw <= 0

IInv == TypeOK /\ Ordered(buf) /\ DeviceOK /\ Intended

LEMMA InitIInv == Init => IInv
<1> SUFFICES ASSUME Init PROVE IInv
  OBVIOUS
<1>1. TypeOK
  <2>1. ColdStartMs \in 0..BufferMs + ChunkMs + ColdStartMs /\ 0 \in 0..DeviceMs /\ 0 \in 0..CloseMs
    BY Times, Sizes
  <2>2. {} \subseteq 1..BufferMs + ColdStartMs /\ {} \subseteq Int /\ 0 \in Nat
    OBVIOUS
  <2> QED BY <2>1, <2>2 DEF Init, TypeOK
<1>2. Ordered(buf)
  BY DEF Init, Ordered
<1>3. DeviceOK /\ Intended
  BY Sizes DEF Init, DeviceOK, Intended
<1> QED BY <1>1, <1>2, <1>3 DEF IInv

\* A write takes all there is or fills the device, and never starts it too early.
LEMMA WriteStep ==
  ASSUME IInv, initialized, NEW len \in Nat, Write(len)
  PROVE  /\ delay' \in 0..DeviceMs /\ overflow' \in Nat /\ running' \in BOOLEAN
         /\ delay' + overflow' = delay + len
         /\ running' => delay' > 0
         /\ ~running' => delay' < StartMs
<1>1. delay \in 0..DeviceMs /\ DeviceMs \in Nat /\ running \in BOOLEAN
  BY AlsaPlayerAssumption DEF IInv, TypeOK
<1> DEFINE n == Lesser(len, DeviceMs - delay)
<1>2. n \in Nat /\ n <= len /\ n <= DeviceMs - delay
  BY <1>1 DEF Lesser
<1>3. delay' = delay + n /\ overflow' = len - n /\ running' = (running \/ delay' >= StartMs)
  BY DEF Write
<1> HIDE DEF n
<1>4. running' \in BOOLEAN /\ (running' <=> (running \/ delay' >= StartMs))
  BY <1>3
<1>5. delay' \in 0..DeviceMs /\ overflow' \in Nat /\ delay' + overflow' = delay + len
  BY <1>1, <1>2, <1>3
<1>6. running => delay' > 0
  <2>1. running => delay > 0
    BY DEF IInv, DeviceOK
  <2> QED BY <1>1, <1>2, <1>3, <2>1
<1>7. (delay' >= StartMs => delay' > 0) /\ (~(delay' >= StartMs) => delay' < StartMs)
  BY <1>5, Sizes
<1>8. (running' => delay' > 0) /\ (~running' => delay' < StartMs)
  BY <1>4, <1>6, <1>7, Zenon
<1> QED BY <1>4, <1>5, <1>8

LEMMA WriteFailsStep ==
  ASSUME IInv, WriteFails
  PROVE  /\ delay' \in 0..DeviceMs /\ overflow' \in Nat /\ running' \in BOOLEAN
         /\ running' => delay' > 0
         /\ ~running' => delay' < StartMs
BY DEF IInv, TypeOK, DeviceOK, WriteFails, device

-----------------------------------------------------------------------------
LEMMA HandleRestStep == ASSUME IInv, HandleRest PROVE IInv'
<1>1. /\ initialized /\ overflow \in Nat
      /\ UNCHANGED <<src, reopens, coming, buf, initialized, playing, empties, closeIn, near>>
  BY DEF HandleRest, Ready, IInv, TypeOK, network
<1>2. CASE Write(overflow) /\ UNCHANGED raw
  <2>1. /\ delay' \in 0..DeviceMs /\ overflow' \in Nat /\ running' \in BOOLEAN
        /\ delay' + overflow' = delay + overflow
        /\ running' => delay' > 0
        /\ ~running' => delay' < StartMs
    BY <1>1, <1>2, WriteStep
  <2>2. TypeOK' /\ Ordered(buf)' /\ DeviceOK'
    BY <1>1, <1>2, <2>1 DEF IInv, TypeOK, DeviceOK, Ordered
  <2>3. raw # None => Queued' = Queued
    <3> SUFFICES ASSUME raw # None PROVE Queued' = Queued
      OBVIOUS
    <3>1. Min(buf) \in Int
      BY FirstOf DEF IInv, Intended
    <3> QED BY <1>1, <2>1, <3>1, Times DEF Queued, IInv, TypeOK
  <2> QED BY <1>1, <1>2, <2>2, <2>3 DEF IInv, Intended
<1>3. CASE WriteFails /\ raw' = None
  <2>1. /\ delay' \in 0..DeviceMs /\ overflow' \in Nat /\ running' \in BOOLEAN
        /\ running' => delay' > 0
        /\ ~running' => delay' < StartMs
    BY <1>3, WriteFailsStep
  <2> QED BY <1>1, <1>3, <2>1 DEF IInv, TypeOK, DeviceOK, Ordered, Intended
<1> QED BY <1>2, <1>3 DEF HandleRest

LEMMA TakeChunkStep == ASSUME IInv, TakeChunk PROVE IInv'
<1> DEFINE l == Min(buf)
<1>1. /\ initialized /\ overflow = 0 /\ buf # {}
      /\ buf' = buf \ {l} /\ near' = Near(Late(l))
      /\ playing' = TRUE /\ empties' = 0 /\ closeIn' = CloseMs
      /\ UNCHANGED <<src, reopens, coming, initialized>>
  BY DEF TakeChunk, Ready, PutOff, network
<1>2. l \in Int /\ delay \in Nat
  BY <1>1, FirstOf, Times DEF IInv, TypeOK
<1>3. Ordered(buf')
  BY <1>1, OrderedSubset DEF IInv
<1>4. buf' # {} => Min(buf') \in Int
  BY <1>3, FirstOf
<1> HIDE DEF l
<1>5. buf' # {} => After(l) \in Int /\ After(l) = delay + LatencyMs + ChunkMs - Min(buf')
  BY <1>1, <1>2, <1>4, Times DEF After, Late
<1>6. /\ Length(l) \in Nat
      /\ buf' # {} => Length(l) = IF near' THEN ChunkMs ELSE ChunkMs - Correction(After(l))
  <2>1. CASE Near(Late(l))
    BY <1>1, <2>1, Times DEF Length
  <2>2. CASE ~Near(Late(l)) /\ buf = {l}
    BY <1>1, <2>2, Times, Sizes DEF Length
  <2>3. CASE ~Near(Late(l)) /\ buf # {l}
    <3>1. buf' # {}
      BY <1>1, <2>3
    <3>2. Correction(After(l)) \in Int /\ 2 * Correction(After(l)) <= ChunkMs
      BY <1>5, <3>1, CorrectionTowards
    <3>3. Length(l) = ChunkMs - Correction(After(l))
      BY <2>3 DEF Length
    <3> QED BY <1>1, <2>3, <3>2, <3>3, Times
  <2> QED BY <2>1, <2>2, <2>3
<1>7. /\ src' \in 0..BufferMs + ChunkMs + ColdStartMs /\ reopens' \in Nat
      /\ coming' \subseteq 1..BufferMs + ColdStartMs
      /\ buf' \subseteq Int
      /\ initialized' \in BOOLEAN /\ playing' \in BOOLEAN
      /\ empties' \in Nat /\ closeIn' \in 0..CloseMs /\ near' \in BOOLEAN
  BY <1>1, <1>3, Sizes DEF IInv, TypeOK, Ordered, Near
<1>8. CASE Write(Length(l)) /\ raw' = IF buf' = {} THEN None ELSE After(l)
  <2>1. /\ delay' \in 0..DeviceMs /\ overflow' \in Nat /\ running' \in BOOLEAN
        /\ delay' + overflow' = delay + Length(l)
        /\ running' => delay' > 0
        /\ ~running' => delay' < StartMs
    BY <1>1, <1>6, <1>8, WriteStep
  <2>2. TypeOK' /\ DeviceOK'
    BY <1>1, <1>5, <1>7, <1>8, <2>1 DEF TypeOK, DeviceOK
  <2>3. Intended'
    <3> SUFFICES ASSUME raw' # None
                 PROVE  /\ buf' # {}
                        /\ Queued' = IF near' THEN raw' ELSE raw' - Correction(raw')
      BY <1>1 DEF Intended
    <3>1. buf' # {} /\ raw' = After(l)
      BY <1>8
    <3>2. Queued' = delay + Length(l) + LatencyMs - Min(buf')
      BY <1>2, <1>4, <1>6, <2>1, <3>1, Times DEF Queued
    <3>3. Correction(After(l)) \in Int
      BY <1>5, <3>1, CorrectionTowards
    <3>4. CASE near'
      BY <1>2, <1>4, <1>5, <1>6, <3>1, <3>2, <3>4, Times
    <3>5. CASE ~near'
      BY <1>2, <1>4, <1>5, <1>6, <3>1, <3>2, <3>3, <3>5, Times
    <3> QED BY <3>1, <3>4, <3>5
  <2> QED BY <1>3, <2>2, <2>3 DEF IInv
<1>9. CASE WriteFails /\ raw' = None
  <2>1. /\ delay' \in 0..DeviceMs /\ overflow' \in Nat /\ running' \in BOOLEAN
        /\ running' => delay' > 0
        /\ ~running' => delay' < StartMs
    BY <1>9, WriteFailsStep
  <2> QED BY <1>1, <1>3, <1>7, <1>9, <2>1 DEF IInv, TypeOK, DeviceOK, Intended
<1> QED BY <1>8, <1>9 DEF TakeChunk, l

LEMMA SilenceStep == ASSUME IInv, Silence PROVE IInv'
<1> DEFINE e == -Late(Min(buf))
<1>1. /\ initialized /\ overflow = 0 /\ buf # {} /\ ~Due(Min(buf))
      /\ UNCHANGED <<src, reopens, coming, buf, initialized, playing, empties, closeIn, near>>
  BY DEF Silence, Ready, network
<1>2. Min(buf) \in Int /\ delay \in Nat
  BY <1>1, FirstOf, Times DEF IInv, TypeOK
<1>3. e \in Int /\ e > 0 /\ ~playing /\ e = Min(buf) - delay - LatencyMs
  BY <1>1, <1>2, Times DEF Due, Late, IInv, TypeOK
<1> HIDE DEF e
<1> DEFINE len == SilenceLength(e)
<1>4. len \in Nat /\ len <= e
  BY <1>3, SilenceAtMost
<1> HIDE DEF len
<1>5. CASE Write(len) /\ raw' = len - e
  <2>1. /\ delay' \in 0..DeviceMs /\ overflow' \in Nat /\ running' \in BOOLEAN
        /\ delay' + overflow' = delay + len
        /\ running' => delay' > 0
        /\ ~running' => delay' < StartMs
    BY <1>1, <1>4, <1>5, WriteStep
  <2>2. TypeOK' /\ Ordered(buf)' /\ DeviceOK'
    BY <1>1, <1>3, <1>4, <1>5, <2>1 DEF IInv, TypeOK, DeviceOK, Ordered
  <2>3. Queued' = len - e /\ raw' <= 0
    <3> DEFINE m == Min(buf)
    <3>1. m \in Int /\ Queued' = delay' + overflow' + LatencyMs - m
      BY <1>1, <1>2 DEF Queued
    <3>2. e = m - delay - LatencyMs
      BY <1>3
    <3> DEFINE q == Queued'
               d == delay'
               o == overflow'
    <3>3. /\ m \in Int /\ d \in Int /\ o \in Int /\ delay \in Int /\ len \in Int
          /\ e \in Int /\ LatencyMs \in Int
      <4>1. d \in Int /\ o \in Int
        BY <2>1, Times
      <4>2. m \in Int /\ delay \in Int /\ len \in Int /\ e \in Int /\ LatencyMs \in Int
        BY <1>2, <1>3, <1>4, <3>1, Times
      <4> QED BY <4>1, <4>2
    <3>4. q = d + o + LatencyMs - m /\ d + o = delay + len
      BY <2>1, <3>1
    <3> HIDE DEF m, q, d, o
    <3>5. q = len - e
      BY ONLY <3>2, <3>3, <3>4
    <3> QED BY <1>3, <1>4, <1>5, <3>5 DEF q
  <2> QED BY <1>1, <1>3, <1>5, <2>2, <2>3 DEF IInv, Intended
<1>6. CASE WriteFails /\ raw' = None
  <2>1. /\ delay' \in 0..DeviceMs /\ overflow' \in Nat /\ running' \in BOOLEAN
        /\ running' => delay' > 0
        /\ ~running' => delay' < StartMs
    BY <1>6, WriteFailsStep
  <2> QED BY <1>1, <1>6, <2>1 DEF IInv, TypeOK, DeviceOK, Ordered, Intended
<1> QED BY <1>5, <1>6 DEF Silence, e, len

LEMMA StarveStep == ASSUME IInv, Starve PROVE IInv'
<1>1. /\ initialized /\ raw' = None
      /\ playing' \in BOOLEAN
      /\ UNCHANGED <<src, reopens, coming, buf, initialized, closeIn, near>>
  BY DEF Starve, Ready, network
<1>2. empties' \in Nat
  BY Times DEF Starve, Lesser, IInv, TypeOK
<1>3. /\ delay' \in 0..DeviceMs /\ overflow' \in Nat /\ running' \in BOOLEAN
      /\ running' => delay' > 0
      /\ ~running' => delay' < StartMs
  <2>1. EmptyChunk(EmptyMs) \in Nat
    BY Times, EmptyChunkAtMost
  <2> QED BY <1>1, <2>1, WriteStep, WriteFailsStep DEF Starve
<1> QED BY <1>1, <1>2, <1>3 DEF IInv, TypeOK, DeviceOK, Ordered, Intended

LEMMA SendStep == ASSUME IInv, Send PROVE IInv'
<1>1. /\ src \in Nat /\ 0 < src /\ src <= BufferMs
      /\ coming' = coming \cup {src} /\ src' = src + ChunkMs
      /\ UNCHANGED <<reopens, buf, initialized, playing, empties, overflow, delay, running,
                     closeIn, near, raw>>
  BY Times DEF Send, IInv, TypeOK, device
<1>2. /\ src' \in 0..BufferMs + ChunkMs + ColdStartMs
      /\ src \in 1..BufferMs + ColdStartMs
  BY <1>1, Times
<1>3. TypeOK'
  BY <1>1, <1>2 DEF IInv, TypeOK
<1> QED BY <1>1, <1>3 DEF IInv, DeviceOK, Ordered, Intended, Queued

LEMMA RestartStep == ASSUME IInv, Restart PROVE IInv'
<1>1. /\ src' = ColdStartMs /\ reopens' \in Nat
      /\ UNCHANGED <<coming, initialized, playing, empties, overflow, delay, running, closeIn,
                     near>>
  BY DEF Restart, device, IInv, TypeOK
<1>2. ColdStartMs \in 0..BufferMs + ChunkMs + ColdStartMs
  BY Times
<1>3. CASE buf' = {} /\ raw' = None
  BY <1>1, <1>2, <1>3 DEF IInv, TypeOK, DeviceOK, Ordered, Intended
<1>4. CASE UNCHANGED <<buf, raw>>
  BY <1>1, <1>2, <1>4 DEF IInv, TypeOK, DeviceOK, Ordered, Intended, Queued
<1> QED BY <1>3, <1>4 DEF Restart

LEMMA ArriveStep == ASSUME IInv, NEW l \in coming, Arrive(l) PROVE IInv'
<1>1. /\ l \in Int /\ coming' \subseteq 1..BufferMs + ColdStartMs
      /\ buf' = {x \in buf : x >= 0} \cup {l}
      /\ raw' = IF buf # {} /\ Min(buf') = Min(buf) THEN raw ELSE None
      /\ UNCHANGED <<src, reopens, near>>
  BY DEF Arrive, IInv, TypeOK
<1>2. Ordered(buf') /\ buf' # {}
  <2>1. Ordered({x \in buf : x >= 0})
    BY OrderedSubset DEF IInv
  <2> QED BY <1>1, <2>1, OrderedAdd
<1>3. buf' \subseteq Int /\ raw' \in Int \cup {None}
  BY <1>1, <1>2 DEF Ordered, IInv, TypeOK
<1>4. CASE initialized
  <2>1. UNCHANGED <<initialized, playing, empties, overflow, delay, running, closeIn>>
    BY <1>4 DEF Arrive, device
  <2>2. TypeOK' /\ DeviceOK'
    BY <1>1, <1>3, <1>4, <2>1 DEF IInv, TypeOK, DeviceOK
  <2>3. Intended'
    BY <1>1, <1>2, <2>1 DEF IInv, Intended, Queued
  <2> QED BY <1>2, <2>2, <2>3 DEF IInv
<1>5. CASE ~initialized
  <2>1. /\ initialized' = TRUE /\ playing' = FALSE /\ empties' = 0 /\ overflow' = 0
        /\ delay' = 0 /\ running' = FALSE /\ closeIn' = CloseMs
    BY <1>5 DEF Arrive
  <2>2. raw' = None
    BY <1>1, <1>5 DEF IInv, DeviceOK
  <2>3. 0 \in 0..DeviceMs /\ CloseMs \in 0..CloseMs /\ 0 < StartMs /\ 0 \in Nat
    BY Times, Sizes
  <2>4. TypeOK'
    BY <1>1, <1>3, <2>1, <2>2, <2>3 DEF IInv, TypeOK
  <2> QED BY <1>2, <2>1, <2>2, <2>3, <2>4 DEF IInv, DeviceOK, Intended
<1> QED BY <1>4, <1>5 DEF IInv, TypeOK

\* Time.
LEMMA NetworkAfterStep ==
  ASSUME IInv, NEW ms \in Nat, NetworkAfter(ms)
  PROVE  /\ src' \in 0..BufferMs + ChunkMs + ColdStartMs /\ reopens' \in Nat
         /\ coming' \subseteq 1..BufferMs + ColdStartMs
<1>1. src \in 0..BufferMs + ChunkMs + ColdStartMs /\ coming \subseteq 1..BufferMs + ColdStartMs
  BY DEF IInv, TypeOK
<1>2. src' \in 0..BufferMs + ChunkMs + ColdStartMs /\ reopens' \in Nat
  BY <1>1, Times DEF NetworkAfter, IInv, TypeOK
<1>3. ASSUME NEW y \in coming' PROVE y \in 1..BufferMs + ColdStartMs
  <2>1. y \in Sooner(coming, ms) /\ y \notin (-ms)..0
    BY <1>3 DEF NetworkAfter
  <2>2. PICK x \in coming : y = x - ms
    BY <2>1 DEF Sooner
  <2>3. x \in 1..BufferMs + ColdStartMs
    BY <1>1
  <2> QED BY <2>1, <2>2, <2>3, Times
<1> QED BY <1>2, <1>3

LEMMA ElapseStep ==
  ASSUME IInv, Elapse, raw' \in Int \cup {None}
  PROVE  /\ TypeOK' /\ Ordered(buf')
         /\ running' => delay' > 0
         /\ ~running' => delay' < StartMs
         /\ ~initialized => delay' = 0 /\ ~running'
<1>1. /\ src' \in 0..BufferMs + ChunkMs + ColdStartMs /\ reopens' \in Nat
      /\ coming' \subseteq 1..BufferMs + ColdStartMs
  BY NetworkAfterStep DEF Elapse
<1>2. Ordered(Sooner(buf, 1))
  BY OrderedSooner DEF IInv
<1>3. Ordered(buf') /\ buf' \subseteq Int
  BY <1>2, OrderedSubset DEF Elapse, Ordered
<1>4. delay \in 0..DeviceMs /\ closeIn \in 0..CloseMs /\ running \in BOOLEAN
  BY DEF IInv, TypeOK
<1>5. closeIn' \in 0..CloseMs
  BY <1>4, Sizes DEF Elapse
<1>6. CASE running
  <2>1. delay > 0 /\ delay' = delay - 1 /\ running' = (delay > 1)
    BY <1>6 DEF Elapse, IInv, DeviceOK
  <2>2. running' \in BOOLEAN /\ (running' <=> delay > 1)
    <3> DEFINE more == delay > 1
    <3>1. more \in BOOLEAN /\ running' = more
      BY <2>1
    <3> HIDE DEF more
    <3>2. running' \in BOOLEAN /\ (running' <=> more)
      BY <3>1, Zenon
    <3> QED BY <3>2 DEF more
  <2>3. delay' \in 0..DeviceMs
    BY <1>4, <2>1, Times
  <2>4. (delay > 1 => delay' > 0) /\ (~(delay > 1) => delay' < StartMs)
    BY <1>4, <2>1, Sizes
  <2>5. TypeOK'
    BY <1>1, <1>3, <1>5, <2>2, <2>3 DEF Elapse, IInv, TypeOK
  <2>6. (running' => delay' > 0) /\ (~running' => delay' < StartMs)
    BY <2>2, <2>4, Zenon
  <2> QED BY <1>3, <1>6, <2>5, <2>6 DEF IInv, DeviceOK
<1>7. CASE ~running
  <2>1. delay' = delay /\ running' = FALSE
    BY <1>7 DEF Elapse
  <2>2. TypeOK'
    BY <1>1, <1>3, <1>4, <1>5, <2>1 DEF Elapse, IInv, TypeOK
  <2> QED BY <1>3, <1>7, <2>1, <2>2 DEF IInv, DeviceOK
<1> QED BY <1>4, <1>6, <1>7

\* While a chunk is expected to be written the device is full enough to play, so
\* that what is queued ahead of the next chunk shrinks with the chunk's lead.  Only
\* a silence of no bytes leaves a device as it is, and then the chunk is early.
LEMMA TickStep == ASSUME IInv, Tick PROVE IInv'
<1>1. Elapse /\ Idle /\ raw' = IF raw = None \/ running THEN raw ELSE raw + 1
  BY DEF Tick
<1>0. raw \in Int \cup {None} /\ raw' \in Int \cup {None} /\ (raw' = None => raw = None)
      /\ (raw = None => raw' = None)
  BY <1>1, Times DEF IInv, TypeOK
<1>2. /\ TypeOK' /\ Ordered(buf')
      /\ running' => delay' > 0
      /\ ~running' => delay' < StartMs
      /\ ~initialized => delay' = 0 /\ ~running'
  BY <1>0, <1>1, ElapseStep
<1>3. UNCHANGED <<initialized, playing, overflow, near>>
  BY <1>1 DEF Elapse
<1>4. DeviceOK'
  BY <1>0, <1>2, <1>3 DEF IInv, DeviceOK
<1>5. Intended'
  <2> SUFFICES ASSUME raw # None PROVE Intended'
    BY <1>0 DEF Intended
  <2>1. /\ initialized /\ buf # {} /\ delay \in 0..DeviceMs /\ overflow \in Nat
        /\ raw \in Int /\ playing \in BOOLEAN
    BY <1>0 DEF IInv, DeviceOK, Intended, TypeOK
  <2>2. buf' = Sooner(buf, 1)
    BY <1>1, <2>1 DEF Elapse
  <2>3. buf' # {} /\ Min(buf') = Min(buf) - 1
    BY <2>1, <2>2, OrderedSooner DEF IInv
  <2>4. Min(buf) \in Int
    BY <2>1, FirstOf DEF IInv
  <2>5. CASE running
    <3>1. delay' = delay - 1 /\ raw' = raw
      BY <1>1, <2>5 DEF Elapse
    <3>2. Queued' = Queued
      BY <1>3, <2>1, <2>3, <2>4, <3>1, Times DEF Queued
    <3> QED BY <1>3, <2>3, <3>1, <3>2 DEF IInv, Intended
  <2>6. CASE ~running
    <3>1. delay' = delay /\ raw' = raw + 1
      BY <1>1, <2>6 DEF Elapse
    <3>2. Queued' = Queued + 1
      BY <1>3, <2>1, <2>3, <2>4, <3>1, Times DEF Queued
    <3>3. Ready
      <4>1. delay < StartMs
        BY <2>6 DEF IInv, DeviceOK
      <4>2. DeviceMs - delay >= PeriodMs
        BY <2>1, <4>1, Times, Sizes
      <4> QED BY <2>1, <4>2 DEF Ready
    <3>4. overflow = 0 /\ ~Due(Min(buf))
      BY <1>1, <2>1, <3>3 DEF Idle, NothingToWrite
    <3>5. ~playing /\ ~(Late(Min(buf)) >= 0)
      BY <3>4 DEF Due
    <3>6. Queued = raw
      BY <3>5 DEF IInv, Intended
    <3>7. Late(Min(buf)) = Queued
      BY <2>1, <2>4, <3>4, Times DEF Late, Queued
    <3>8. raw + 1 <= 0
      BY <2>1, <3>5, <3>6, <3>7
    <3> QED BY <1>3, <2>3, <3>1, <3>2, <3>5, <3>6, <3>8 DEF Intended
  <2> QED BY <2>5, <2>6
<1> QED BY <1>2, <1>4, <1>5 DEF IInv

LEMMA StallStep == ASSUME IInv, Stall PROVE IInv'
<1>1. Elapse /\ raw' = None
  BY DEF Stall
<1>2. /\ TypeOK' /\ Ordered(buf')
      /\ running' => delay' > 0
      /\ ~running' => delay' < StartMs
      /\ ~initialized => delay' = 0 /\ ~running'
  BY <1>1, ElapseStep
<1>3. UNCHANGED <<initialized, playing>>
  BY <1>1 DEF Elapse
<1> QED BY <1>1, <1>2, <1>3 DEF IInv, DeviceOK, Intended

LEMMA CloseTaskStep == ASSUME IInv, CloseTask PROVE IInv'
<1>1. /\ delay \in Nat /\ NetworkAfter(delay) /\ buf' = Sooner(buf, delay) \cap Nat
      /\ initialized' = FALSE /\ playing' = FALSE /\ delay' = 0 /\ running' = FALSE
      /\ raw' = None
      /\ UNCHANGED <<empties, overflow, closeIn, near>>
  BY Times DEF CloseTask, IInv, TypeOK
<1>2. /\ src' \in 0..BufferMs + ChunkMs + ColdStartMs /\ reopens' \in Nat
      /\ coming' \subseteq 1..BufferMs + ColdStartMs
  BY <1>1, NetworkAfterStep
<1>3. Ordered(Sooner(buf, delay))
  BY <1>1, OrderedSooner DEF IInv
<1>4. Ordered(buf') /\ buf' \subseteq Int
  BY <1>1, <1>3, OrderedSubset DEF Ordered
<1>5. 0 \in 0..DeviceMs /\ 0 < StartMs
  BY Times, Sizes
<1>6. TypeOK'
  BY <1>1, <1>2, <1>4, <1>5 DEF IInv, TypeOK
<1> QED BY <1>1, <1>4, <1>5, <1>6 DEF IInv, DeviceOK, Intended

LEMMA StutterStep == ASSUME IInv, UNCHANGED vars PROVE IInv'
BY DEF IInv, TypeOK, DeviceOK, Ordered, Intended, Queued, vars, network, device

LEMMA NextIInv == ASSUME IInv, [Next]_vars PROVE IInv'
BY HandleRestStep, TakeChunkStep, SilenceStep, StarveStep, SendStep, RestartStep, ArriveStep,
   TickStep, StallStep, CloseTaskStep, StutterStep DEF Next, Handle

-----------------------------------------------------------------------------
LEMMA InductiveInvariant == Spec => []IInv
<1>1. Init => IInv
  BY InitIInv
<1>2. IInv /\ [Next]_vars => IInv'
  BY NextIInv
<1> QED BY <1>1, <1>2, PTL DEF Spec

(***************************************************************************)
(* The player never takes the device to hold more than it does, and its    *)
(* other variables keep their types too.                                   *)
(***************************************************************************)
THEOREM PlayerTypes == Spec => []TypeOK
<1>1. IInv => TypeOK
  BY DEF IInv
<1> QED BY <1>1, InductiveInvariant, PTL

\* When a chunk is taken there is nothing left of the one before.
LEMMA TakenAsIntended ==
  ASSUME IInv, TakeChunk, raw # None
  PROVE  /\ raw \in Int /\ Late(Min(buf)) \in Int
         /\ playing => Late(Min(buf)) = IF near THEN raw ELSE raw - Correction(raw)
         /\ ~playing => Late(Min(buf)) = raw /\ raw <= 0
<1>1. overflow = 0 /\ buf # {} /\ delay \in Nat /\ raw \in Int
  BY Times DEF TakeChunk, IInv, TypeOK
<1>2. Min(buf) \in Int
  BY <1>1, FirstOf DEF IInv
<1>3. Late(Min(buf)) \in Int /\ Late(Min(buf)) = Queued
  BY <1>1, <1>2, Times DEF Late, Queued
<1> QED BY <1>1, <1>3 DEF IInv, Intended

(***************************************************************************)
(* getchunk and adjust_speed bring the stream closer to its time with each *)
(* chunk, and never to the other side of it, through partial writes and    *)
(* however the second is counted.                                          *)
(***************************************************************************)
THEOREM PlayerAdjusts == Spec => AdjustsTowards
<1> DEFINE e == Late(Min(buf))
           A == TakeChunk /\ raw # None =>
                  /\ near \/ ~playing => e = raw
                  /\ ~near /\ playing => e = 0 \/ Abs(e) < Abs(raw)
                  /\ raw >= 0 => e >= 0
                  /\ raw <= 0 => e <= 0
<1>1. IInv => A
  <2> SUFFICES ASSUME IInv, TakeChunk, raw # None PROVE A
    OBVIOUS
  <2>1. /\ raw \in Int /\ e \in Int
        /\ playing => e = IF near THEN raw ELSE raw - Correction(raw)
        /\ ~playing => e = raw
    BY TakenAsIntended
  <2>2. /\ Correction(raw) \in Int
        /\ raw > 0 => 0 < Correction(raw) /\ Correction(raw) <= raw
        /\ raw < 0 => raw <= Correction(raw) /\ Correction(raw) < 0
        /\ raw = 0 => Correction(raw) = 0
    BY <2>1, CorrectionTowards
  <2> HIDE DEF e
  <2>3. CASE near \/ ~playing
    BY <2>1, <2>3
  <2>4. CASE ~near /\ playing
    <3>1. e = raw - Correction(raw)
      BY <2>1, <2>4
    <3> QED BY <2>1, <2>2, <2>4, <3>1 DEF Abs
  <2> QED BY <2>3, <2>4
<1> QED BY <1>1, InductiveInvariant, PTL DEF AdjustsTowards

(***************************************************************************)
(* Playback starts on time, if only the player has a say in it, for every  *)
(* sample format: the silences of getchunk lead up to the first chunk in   *)
(* as many steps as NOT_EVEN_CLOSE_MS and the uint16_t of a chunk's size   *)
(* make it, those included that are cut down to nothing.                   *)
(***************************************************************************)
THEOREM PlayerStarts == Spec => StartsInTime
<1>1. IInv /\ TakeChunk /\ raw # None /\ ~playing => near'
  <2> SUFFICES ASSUME IInv, TakeChunk, raw # None, ~playing PROVE near'
    OBVIOUS
  <2>1. Late(Min(buf)) \in Int /\ Late(Min(buf)) <= 0
    BY TakenAsIntended
  <2>2. Due(Min(buf)) /\ near' = Near(Late(Min(buf)))
    BY DEF TakeChunk
  <2>3. Late(Min(buf)) >= 0 \/ Near(Late(Min(buf)))
    BY <2>2 DEF Due
  <2>4. Near(Late(Min(buf)))
    BY <2>1, <2>3, Times DEF Near, Abs
  <2> QED BY <2>2, <2>4
<1> QED BY <1>1, InductiveInvariant, PTL DEF StartsInTime

(***************************************************************************)
(* A first chunk whose instant was missed does not wait in the buffer      *)
(* until the device is closed.                                             *)
(***************************************************************************)
THEOREM PlayerOvershoots == Spec => Starts
<1>1. IInv => (CloseTask /\ ~playing => raw = None \/ raw <= 0)
  BY DEF IInv, Intended
<1> QED BY <1>1, InductiveInvariant, PTL DEF Starts

-----------------------------------------------------------------------------
(* The close task.                                                         *)

\* The receive buffer holds more than two chunks, allowing for the 20 % the close
\* task allows for.
HoldsTwoChunks == 2 * ChunkMs < CloseMs

\* The device asks for more when it holds this.
AskMs == DeviceMs - PeriodMs

(***************************************************************************)
(* While only the player has a say in it the device runs down no faster    *)
(* than the time of the close task, and asks for the next chunk before     *)
(* either is over: a chunk is played at half its speed at worst.           *)
(***************************************************************************)
CloseAhead ==
  raw # None /\ playing =>
    /\ closeIn > 0
    /\ closeIn + AskMs + 2 * ChunkMs >= CloseMs + (delay + overflow)

\* The chunk that is taken is at most twice as long as it should be.
LEMMA LengthAtMostTwice ==
  ASSUME IInv, buf # {}
  PROVE  Length(Min(buf)) \in Int /\ Length(Min(buf)) <= 2 * ChunkMs
<1> DEFINE l == Min(buf)
<1>1. l \in Int /\ delay \in Nat
  BY FirstOf, Times DEF IInv, TypeOK
<1>2. Ordered(buf \ {l})
  BY OrderedSubset DEF IInv
<1>3. buf \ {l} # {} => Min(buf \ {l}) \in Int
  BY <1>2, FirstOf
<1> HIDE DEF l
<1>4. CASE Near(Late(l))
  BY <1>4, Times DEF Length, l
<1>5. CASE ~Near(Late(l)) /\ buf = {l}
  BY <1>5, Times, Sizes DEF Length, l
<1>6. CASE ~Near(Late(l)) /\ buf # {l}
  <2>1. buf \ {l} # {}
    BY <1>6
  <2>2. After(l) \in Int
    BY <1>1, <1>3, <2>1, Times DEF After, Late
  <2>3. Correction(After(l)) \in Int /\ -ChunkMs <= Correction(After(l))
    BY <2>2, CorrectionTowards
  <2>4. Length(l) = ChunkMs - Correction(After(l))
    BY <1>6 DEF Length
  <2>5. Length(l) \in Int /\ Length(l) <= 2 * ChunkMs
    BY <2>3, <2>4, Times
  <2> QED BY <2>5 DEF l
<1> QED BY <1>4, <1>5, <1>6

LEMMA CloseAheadStep ==
  ASSUME HoldsTwoChunks, IInv, CloseAhead, [Next]_vars
  PROVE  CloseAhead'
<1>1. /\ delay \in 0..DeviceMs /\ overflow \in Nat /\ closeIn \in 0..CloseMs
      /\ DeviceMs \in Nat /\ PeriodMs \in Nat /\ ChunkMs \in Nat /\ CloseMs \in Nat
      /\ playing \in BOOLEAN
  BY Times, Sizes DEF IInv, TypeOK
<1>2. AskMs \in Int /\ 2 * ChunkMs < CloseMs
  BY <1>1 DEF AskMs, HoldsTwoChunks
<1>3. CASE HandleRest
  <2>1. initialized /\ UNCHANGED <<playing, closeIn>>
    BY <1>3 DEF HandleRest, Ready
  <2>2. CASE raw' = None
    BY <2>2 DEF CloseAhead
  <2>3. CASE raw' # None
    <3>1. Write(overflow) /\ raw' = raw
      BY <1>3, <2>3 DEF HandleRest
    <3>2. delay' + overflow' = delay + overflow /\ delay' \in Nat /\ overflow' \in Nat
      BY <1>1, <2>1, <3>1, WriteStep
    <3>3. CloseMs + (delay' + overflow') = CloseMs + (delay + overflow)
      BY <3>2
    <3> QED BY <2>1, <3>1, <3>3 DEF CloseAhead, AskMs
  <2> QED BY <2>2, <2>3
<1>4. CASE TakeChunk
  <2> DEFINE len == Length(Min(buf))
  <2>1. initialized /\ DeviceMs - delay >= PeriodMs /\ closeIn' = CloseMs /\ buf # {}
    BY <1>4 DEF TakeChunk, Ready, PutOff
  <2>2. CASE raw' = None
    BY <2>2 DEF CloseAhead
  <2>3. CASE raw' # None
    <3>1. Write(len)
      BY <1>4, <2>3 DEF TakeChunk
    <3>2. len \in Int /\ len <= 2 * ChunkMs
      BY <2>1, LengthAtMostTwice
    <3> HIDE DEF len
    <3>3. delay' = delay + Lesser(len, DeviceMs - delay) /\ overflow' = len - Lesser(len, DeviceMs - delay)
      BY <3>1 DEF Write
    <3>4. delay' + overflow' = delay + len /\ delay' \in Int /\ overflow' \in Int
      BY <1>1, <3>2, <3>3 DEF Lesser
    <3>5. closeIn' > 0 /\ closeIn' + AskMs + 2 * ChunkMs >= CloseMs + (delay' + overflow')
      <4>1. delay + len <= AskMs + 2 * ChunkMs
        BY <1>1, <2>1, <3>2 DEF AskMs
      <4>2. CloseMs + AskMs + 2 * ChunkMs >= CloseMs + (delay + len)
        BY <1>1, <1>2, <3>2, <4>1
      <4>3. CloseMs > 0
        BY <1>1, <1>2
      <4>4. CloseMs + (delay' + overflow') = CloseMs + (delay + len)
        BY <3>4
      <4> QED BY <2>1, <4>2, <4>3, <4>4
    <3> QED BY <3>5 DEF CloseAhead, AskMs
  <2> QED BY <2>2, <2>3
<1>5. CASE Silence
  <2>1. ~playing /\ playing' = playing
    BY <1>5 DEF Silence, Due
  <2> QED BY <2>1 DEF CloseAhead
<1>6. CASE Starve
  BY <1>6 DEF Starve, CloseAhead
<1>7. CASE Send
  BY <1>7 DEF Send, CloseAhead, device, AskMs
<1>8. CASE Restart
  BY <1>8 DEF Restart, CloseAhead, device, AskMs
<1>9. ASSUME NEW l \in coming, Arrive(l) PROVE CloseAhead'
  <2>1. CASE raw' = None
    BY <2>1 DEF CloseAhead
  <2>2. CASE raw' # None
    <3>1. raw' = raw
      BY <1>9, <2>2 DEF Arrive
    <3>2. initialized
      BY <2>2, <3>1 DEF IInv, DeviceOK
    <3>3. UNCHANGED <<playing, closeIn, delay, overflow>>
      BY <1>9, <3>2 DEF Arrive, device
    <3> QED BY <3>1, <3>3 DEF CloseAhead, AskMs
  <2> QED BY <2>1, <2>2
<1>10. CASE Tick
  <2>1. (raw' = None \/ raw # None) /\ playing' = playing /\ overflow' = overflow
    BY <1>10 DEF Tick, Elapse
  <2>2. SUFFICES ASSUME raw # None, playing
                 PROVE  /\ closeIn' > 0
                        /\ closeIn' + AskMs + 2 * ChunkMs >= CloseMs + (delay' + overflow')
    BY <2>1 DEF CloseAhead, AskMs
  <2>3. initialized /\ ~(DeviceMs - delay >= PeriodMs)
    <3>1. buf # {} /\ ~NothingToWrite
      BY <2>2 DEF IInv, Intended, NothingToWrite, Due
    <3> QED BY <1>10, <2>2, <3>1 DEF Tick, Idle, Ready, IInv, DeviceOK
  <2>4. ~(delay < StartMs)
    BY <1>1, <2>3, Times, Sizes
  <2>5. delay' = delay - 1
    BY <1>10, <2>4 DEF Tick, Elapse, IInv, DeviceOK
  <2>6. closeIn > 0 /\ closeIn + AskMs + 2 * ChunkMs >= CloseMs + (delay + overflow)
    BY <2>2 DEF CloseAhead
  <2>7. closeIn' = closeIn - 1
    BY <1>10, <2>6 DEF Tick, Elapse
  <2>8. delay - 1 >= AskMs
    BY <1>1, <2>3 DEF AskMs
  <2> QED BY <1>1, <1>2, <2>1, <2>5, <2>6, <2>7, <2>8
<1>11. CASE Stall
  BY <1>11 DEF Stall, CloseAhead
<1>12. CASE CloseTask
  BY <1>12 DEF CloseTask, CloseAhead
<1>13. CASE UNCHANGED vars
  BY <1>13 DEF vars, device, CloseAhead, AskMs
<1> QED BY <1>3, <1>4, <1>5, <1>6, <1>7, <1>8, <1>9, <1>10, <1>11, <1>12, <1>13 DEF Next, Handle

(***************************************************************************)
(* The close task does not close a device that plays, if only the player   *)
(* has a say in it and the buffer holds more than two chunks: each chunk   *)
(* that is taken puts it off, and the device asks for the next one in      *)
(* time.                                                                   *)
(***************************************************************************)
THEOREM PlayerClosesIdle ==
  ASSUME HoldsTwoChunks
  PROVE  Spec => ClosesIdle
<1>1. Init => CloseAhead
  BY DEF Init, CloseAhead
<1>2. IInv /\ CloseAhead /\ [Next]_vars => CloseAhead'
  BY CloseAheadStep
<1>3. CloseAhead => (CloseTask => raw = None \/ ~playing)
  BY DEF CloseAhead, CloseTask
<1> QED BY <1>1, <1>2, <1>3, InductiveInvariant, PTL DEF Spec, ClosesIdle
=============================================================================
