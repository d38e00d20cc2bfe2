----------------------- MODULE ControlSocket_proofs -----------------------
(***************************************************************************)
(* Proofs about ControlSocket, for every size of the line buffer and for   *)
(* everything a client may write.                                          *)
(***************************************************************************)
EXTENDS ControlSocket, TLAPS, WellFoundedInduction

Line == [start : Nat, len : Nat, valid : BOOLEAN]

\* A sequence of lines each of which starts where the one before it ends.
IsScript(s) ==
  /\ s \in Seq(Line)
  /\ \A k \in 1..Len(s) : s[k].start = IF k = 1 THEN 0 ELSE EndOf(s[k - 1])

-----------------------------------------------------------------------------
(* What the client writes.                                                 *)

\* A set of numbers that is not empty has a least one.
LEMMA LeastNumber ==
  ASSUME NEW T, T \subseteq Nat, T # {}
  PROVE  \E m \in T : \A n \in T : m <= n
<1> DEFINE R == OpToRel(<, Nat)
<1>1. IsWellFoundedOn(R, Nat)
  BY NatLessThanWellFounded
<1>2. \A x, y \in Nat : y < x => <<y, x>> \in R
  BY DEF OpToRel
<1> HIDE DEF R
<1>3. PICK m \in T : \A y \in T : ~ (<<y, m>> \in R)
  BY <1>1, WFMin
<1>4. ASSUME NEW n \in T PROVE m <= n
  <2>1. m \in Nat /\ n \in Nat
    OBVIOUS
  <2>2. ~(n < m)
    BY <1>2, <1>3, <2>1
  <2> QED BY <2>1, <2>2
<1> QED BY <1>4

\* The numbers of a line.
LEMMA LineType ==
  ASSUME NEW s, IsScript(s), NEW k \in DOMAIN s
  PROVE  /\ k \in 1..Len(s) /\ Len(s) \in Nat /\ DOMAIN s = 1..Len(s)
         /\ s[k] \in Line /\ s[k].start \in Nat /\ s[k].len \in Nat /\ s[k].valid \in BOOLEAN
         /\ EndOf(s[k]) \in Nat /\ EndOf(s[k]) = s[k].start + s[k].len + 1
<1>1. s \in Seq(Line)
  BY DEF IsScript
<1>2. Len(s) \in Nat /\ DOMAIN s = 1..Len(s)
  BY <1>1
<1>3. s[k] \in Line
  BY <1>1, <1>2
<1>4. s[k].start \in Nat /\ s[k].len \in Nat /\ s[k].valid \in BOOLEAN
  BY <1>3 DEF Line
<1> QED BY <1>2, <1>3, <1>4 DEF EndOf

\* Later lines start after earlier ones have ended.
LEMMA LinesInOrder ==
  ASSUME NEW s, IsScript(s), NEW j \in DOMAIN s, NEW k \in DOMAIN s, j < k
  PROVE  EndOf(s[j]) <= s[k].start
<1> DEFINE Bad == {i \in DOMAIN s : j < i /\ ~(EndOf(s[j]) <= s[i].start)}
<1>1. SUFFICES ASSUME Bad # {} PROVE FALSE
  OBVIOUS
<1>2. Bad \subseteq Nat
  BY LineType
<1>3. PICK m \in Bad : \A n \in Bad : m <= n
  <2> HIDE DEF Bad
  <2> QED BY <1>1, <1>2, LeastNumber
<1>4. /\ m \in 1..Len(s) /\ Len(s) \in Nat /\ DOMAIN s = 1..Len(s) /\ j \in 1..Len(s)
      /\ j < m /\ ~(EndOf(s[j]) <= s[m].start) /\ EndOf(s[j]) \in Nat
  BY <1>3, LineType
<1>5. m # 1 /\ m - 1 \in DOMAIN s /\ s[m].start = EndOf(s[m - 1])
  BY <1>4 DEF IsScript
<1>6. m - 1 # j
  BY <1>4, <1>5
<1>7. j < m - 1 /\ m - 1 \notin Bad
  BY <1>3, <1>4, <1>6
<1>8. EndOf(s[j]) <= s[m - 1].start
  BY <1>5, <1>7
<1>9. s[m - 1].start \in Nat /\ s[m - 1].len \in Nat
      /\ EndOf(s[m - 1]) = s[m - 1].start + s[m - 1].len + 1
  BY <1>5, LineType
<1> QED BY <1>4, <1>5, <1>8, <1>9

\* Every byte that is written belongs to one line.
LEMMA LineOfByte ==
  ASSUME IsScript(script), NEW p \in 1..Total
  PROVE  /\ LineOf(p) \in DOMAIN script
         /\ script[LineOf(p)].start < p /\ p <= EndOf(script[LineOf(p)])
<1> DEFINE T == {k \in DOMAIN script : p <= EndOf(script[k])}
<1>1. script # <<>> /\ p \in 1..EndOf(script[Len(script)])
  BY DEF Total
<1>2. script \in Seq(Line) /\ Len(script) \in Nat /\ DOMAIN script = 1..Len(script)
  BY DEF IsScript
<1>3. Len(script) \in DOMAIN script
  BY <1>1, <1>2
<1>4. Len(script) \in T
  BY <1>1, <1>3
<1>5. T \subseteq Nat /\ T # {}
  BY <1>2, <1>4
<1>6. PICK m \in T : \A n \in T : m <= n
  <2> HIDE DEF T
  <2> QED BY <1>5, LeastNumber
<1>7. m \in 1..Len(script) /\ m \in DOMAIN script /\ p <= EndOf(script[m]) /\ p \in Nat /\ p > 0
  BY <1>2, <1>6
<1>8. script[m].start < p
  <2>1. CASE m = 1
    BY <1>7, <2>1 DEF IsScript
  <2>2. CASE m # 1
    <3>1. m - 1 \in DOMAIN script /\ script[m].start = EndOf(script[m - 1])
      BY <1>2, <1>7, <2>2 DEF IsScript
    <3>2. m - 1 \notin T
      BY <1>2, <1>6, <1>7
    <3>3. EndOf(script[m - 1]) \in Nat
      BY <3>1, LineType
    <3> QED BY <1>7, <3>1, <3>2, <3>3
  <2> QED BY <2>1, <2>2
<1> QED BY <1>7, <1>8 DEF LineOf

\* The line of a byte is the one between whose start and end it lies.
LEMMA LineOfUnique ==
  ASSUME IsScript(script), NEW p \in 1..Total, NEW k \in DOMAIN script,
         script[k].start < p, p <= EndOf(script[k])
  PROVE  LineOf(p) = k
<1> DEFINE l == LineOf(p)
<1>1. l \in DOMAIN script /\ script[l].start < p /\ p <= EndOf(script[l])
  BY LineOfByte
<1> HIDE DEF l
<1>2. /\ l \in 1..Len(script) /\ k \in 1..Len(script) /\ Len(script) \in Nat /\ p \in Nat
      /\ script[l].start \in Nat /\ script[k].start \in Nat
      /\ EndOf(script[l]) \in Nat /\ EndOf(script[k]) \in Nat
  BY <1>1, LineType
<1>3. ~(l < k)
  <2>1. l < k => EndOf(script[l]) <= script[k].start
    BY <1>1, LinesInOrder
  <2> QED BY <1>1, <1>2, <2>1
<1>4. ~(k < l)
  <2>1. k < l => EndOf(script[k]) <= script[l].start
    BY <1>1, LinesInOrder
  <2> QED BY <1>1, <1>2, <2>1
<1>5. l = k
  BY <1>2, <1>3, <1>4
<1> QED BY <1>5 DEF l

\* The last line ends where the script does.
LEMMA EndOfWithin ==
  ASSUME IsScript(script), NEW k \in DOMAIN script
  PROVE  EndOf(script[k]) <= Total /\ Total \in Nat
<1>1. script \in Seq(Line) /\ Len(script) \in Nat /\ DOMAIN script = 1..Len(script) /\ k \in 1..Len(script)
  BY DEF IsScript
<1>2. script # <<>> /\ Len(script) \in DOMAIN script
  BY <1>1
<1> DEFINE l == Len(script)
<1>3. Total = EndOf(script[l])
  BY <1>2 DEF Total
<1>4. /\ EndOf(script[k]) \in Nat /\ EndOf(script[l]) \in Nat
      /\ EndOf(script[l]) = script[l].start + script[l].len + 1
      /\ script[l].start \in Nat /\ script[l].len \in Nat
  BY <1>2, LineType
<1>5. k < l => EndOf(script[k]) <= script[l].start
  BY <1>2, LinesInOrder
<1> QED BY <1>1, <1>3, <1>4, <1>5

\* The bytes of line k are <<k, 1>>, <<k, 2>>, ... and a newline.
LEMMA BytesOfLine ==
  ASSUME IsScript(script), NEW k \in DOMAIN script
  PROVE  /\ \A j \in 1..script[k].len : Written(script[k].start + j) = <<k, j>>
         /\ Written(EndOf(script[k])) = Newline
<1>1. /\ script[k].start \in Nat /\ script[k].len \in Nat
      /\ EndOf(script[k]) = script[k].start + script[k].len + 1
      /\ EndOf(script[k]) <= Total /\ Total \in Nat
  BY LineType, EndOfWithin
<1>2. ASSUME NEW j \in 1..script[k].len PROVE Written(script[k].start + j) = <<k, j>>
  <2> DEFINE p == script[k].start + j
  <2>1. /\ p \in 1..Total /\ script[k].start < p /\ p <= EndOf(script[k]) /\ p # EndOf(script[k])
        /\ p - script[k].start = j
    BY <1>1
  <2> HIDE DEF p
  <2>2. LineOf(p) = k
    BY <2>1, LineOfUnique
  <2>3. Written(p) = <<k, j>>
    BY <2>1, <2>2 DEF Written
  <2> QED BY <2>3 DEF p
<1>3. Written(EndOf(script[k])) = Newline
  <2> DEFINE p == EndOf(script[k])
  <2>1. p \in 1..Total /\ script[k].start < p /\ p <= EndOf(script[k]) /\ p = EndOf(script[k])
    BY <1>1
  <2> HIDE DEF p
  <2>2. LineOf(p) = k
    BY <2>1, LineOfUnique
  <2>3. Written(p) = Newline
    BY <2>1, <2>2 DEF Written
  <2> QED BY <2>3 DEF p
<1> QED BY <1>2, <1>3

\* The first byte of a line is found nowhere else.
LEMMA FirstByte ==
  ASSUME IsScript(script), NEW p \in 1..Total, NEW k \in DOMAIN script, Written(p) = <<k, 1>>
  PROVE  p = script[k].start + 1
<1>1. /\ LineOf(p) \in DOMAIN script
      /\ script[LineOf(p)].start < p /\ p <= EndOf(script[LineOf(p)])
  BY LineOfByte
<1>2. k # 0
  BY LineType
<1>3. <<k, 1>> # Newline
  BY <1>2 DEF Newline
<1>4. <<k, 1>> = <<LineOf(p), p - script[LineOf(p)].start>>
  BY <1>3 DEF Written
<1>5. LineOf(p) = k /\ p - script[k].start = 1
  BY <1>4
<1>6. script[k].start \in Nat /\ p \in Nat
  BY LineType
<1> QED BY <1>5, <1>6

-----------------------------------------------------------------------------
(* The inductive invariant.                                                *)

Byte == Nat \X Nat

TypeOK ==
  /\ IsScript(script) /\ pos \in 0..Total
  /\ line \in [0..Size - 1 -> Byte] /\ offset \in 0..Size - 1 /\ offset <= pos
  /\ handled \in Seq(DOMAIN script)

\* The buffer holds what was read last.
HoldsLast == \A i \in 0..offset - 1 : line[i] = Written(pos - offset + i + 1)

\* What has been handled starts before what is in the buffer.
HandledBefore == \A i \in DOMAIN handled : script[handled[i]].start < pos - offset

\* With the newline before a line the buffer has been emptied.
EmptyAtLine == \A k \in DOMAIN script : pos = script[k].start => offset = 0

FirstFits == script # <<>> /\ script[1].valid /\ script[1].len > 0 /\ FirstLineLen < Size

\* Before the first newline has been read there is none in the buffer.
FirstPending ==
  FirstFits /\ pos < FirstLineLen =>
    /\ offset = pos /\ handled = <<>>
    /\ \A i \in 0..Size - 1 : i >= pos => line[i] = Zero

IInv ==
  /\ TypeOK /\ line[Size - 1] = Zero
  /\ HoldsLast /\ HandledBefore /\ HandledInOrder /\ EmptyAtLine
  /\ FirstPending /\ FirstRequestHandled

\* Each byte that is written is a byte.
LEMMA WrittenType ==
  ASSUME IsScript(script), NEW p \in 1..Total
  PROVE  Written(p) \in Byte
<1>1. /\ LineOf(p) \in DOMAIN script
      /\ script[LineOf(p)].start < p /\ p <= EndOf(script[LineOf(p)])
  BY LineOfByte
<1>2. LineOf(p) \in Nat /\ script[LineOf(p)].start \in Nat /\ p \in Nat
  BY <1>1, LineType
<1>3. p - script[LineOf(p)].start \in Nat
  BY <1>1, <1>2
<1> QED BY <1>2, <1>3 DEF Written, Newline, Byte

\* What read returns is within the script.
Reads(n) == n \in Nat /\ n > 0 /\ n <= Size - offset - 1 /\ pos + n <= Total

LEMMA Numbers ==
  ASSUME TypeOK
  PROVE  /\ Size \in Nat /\ Size > 1 /\ offset \in Nat /\ offset < Size /\ pos \in Nat
         /\ offset <= pos /\ Total \in Nat /\ pos <= Total
<1>1. Size \in Nat /\ Size > 1
  BY SizeAssumption
<1>2. Total \in Nat
  <2>1. CASE script = <<>>
    BY <2>1 DEF Total
  <2>2. CASE script # <<>>
    <3>1. script \in Seq(Line)
      BY DEF TypeOK, IsScript
    <3>2. Len(script) \in DOMAIN script
      BY <2>2, <3>1
    <3> QED BY <3>2, EndOfWithin DEF TypeOK
  <2> QED BY <2>1, <2>2
<1> QED BY <1>1, <1>2 DEF TypeOK

\* The buffer after read: its first offset + n bytes are what was read last, and
\* its last one is still a zero.
LEMMA FilledHolds ==
  ASSUME TypeOK, HoldsLast, line[Size - 1] = Zero, NEW n, Reads(n)
  PROVE  /\ Filled(n) \in [0..Size - 1 -> Byte]
         /\ Filled(n)[Size - 1] = Zero
         /\ \A i \in 0..Size - 1 : i < offset + n =>
              /\ pos - offset + i + 1 \in 1..Total
              /\ Filled(n)[i] = Written(pos - offset + i + 1)
         /\ \A i \in 0..Size - 1 : i >= offset + n => Filled(n)[i] = line[i]
<1>1. /\ Size \in Nat /\ Size > 1 /\ offset \in Nat /\ offset < Size /\ pos \in Nat
      /\ offset <= pos /\ Total \in Nat /\ pos <= Total
  BY Numbers
<1>2. n \in Nat /\ n > 0 /\ n <= Size - offset - 1 /\ pos + n <= Total
  BY DEF Reads
<1>3. \A i \in 0..Size - 1 :
        Filled(n)[i] = IF i \in offset..offset + n - 1 THEN Written(pos + i - offset + 1) ELSE line[i]
  BY DEF Filled
<1>4. ASSUME NEW i \in 0..Size - 1, i < offset + n
      PROVE  /\ pos - offset + i + 1 \in 1..Total
             /\ Filled(n)[i] = Written(pos - offset + i + 1)
  <2>1. pos - offset + i + 1 \in 1..Total /\ pos + i - offset + 1 = pos - offset + i + 1
    BY <1>1, <1>2, <1>4
  <2>2. CASE i >= offset
    <3>1. i \in offset..offset + n - 1
      BY <1>1, <1>2, <1>4, <2>2
    <3> QED BY <1>3, <2>1, <3>1
  <2>3. CASE i < offset
    <3>1. i \in 0..offset - 1 /\ ~(i \in offset..offset + n - 1)
      BY <1>1, <1>2, <2>3
    <3> QED BY <1>3, <2>1, <3>1 DEF HoldsLast
  <2> QED BY <1>1, <2>2, <2>3
<1>5. ASSUME NEW i \in 0..Size - 1, i >= offset + n
      PROVE  Filled(n)[i] = line[i]
  <2>1. ~(i \in offset..offset + n - 1)
    BY <1>1, <1>2, <1>5
  <2> QED BY <1>3, <2>1
<1>6. Size - 1 \in 0..Size - 1 /\ Size - 1 >= offset + n
  BY <1>1, <1>2
<1>7. Filled(n)[Size - 1] = Zero
  BY <1>5, <1>6
<1>8. ASSUME NEW i \in 0..Size - 1 PROVE Filled(n)[i] \in Byte
  <2>1. CASE i < offset + n
    BY <1>4, <2>1, WrittenType DEF TypeOK
  <2>2. CASE i >= offset + n
    BY <1>5, <2>2 DEF TypeOK
  <2> QED BY <1>1, <1>2, <2>1, <2>2
<1>9. Filled(n) \in [0..Size - 1 -> Byte]
  <2>1. Filled(n) = [i \in 0..Size - 1 |-> Filled(n)[i]]
    BY DEF Filled
  <2> QED BY <1>8, <2>1
<1> QED BY <1>4, <1>5, <1>7, <1>9

\* What jsonrpc_parse_string finds in the buffer is a request that starts there.
LEMMA ParseFinds ==
  ASSUME IsScript(script), NEW buf, NEW n \in Nat, NEW k \in Parse(buf, n)
  PROVE  /\ k \in DOMAIN script
         /\ \E i \in 0..n - 1 : buf[i] = <<k, 1>>
<1>1. /\ k \in DOMAIN script /\ script[k].len > 0
      /\ \E i \in 0..n - 1 :
           \A j \in 1..script[k].len : i + j <= n /\ buf[i + j - 1] = <<k, j>>
  BY DEF Parse
<1>2. script[k].len \in Nat
  BY <1>1, LineType
<1>3. 1 \in 1..script[k].len
  BY <1>1, <1>2
<1>4. PICK i \in 0..n - 1 : \A j \in 1..script[k].len : i + j <= n /\ buf[i + j - 1] = <<k, j>>
  BY <1>1
<1>5. buf[i + 1 - 1] = <<k, 1>>
  BY <1>3, <1>4
<1>6. i + 1 - 1 = i
  OBVIOUS
<1> QED BY <1>1, <1>5, <1>6

\* A request at the front of the buffer is found, and nothing else.
LEMMA ParseFront ==
  ASSUME IsScript(script), NEW buf, NEW n \in Nat, NEW k \in DOMAIN script,
         script[k].valid, script[k].len > 0, script[k].len <= n,
         \A j \in 1..script[k].len : buf[j - 1] = <<k, j>>
  PROVE  Parse(buf, n) = {k}
<1>1. script[k].len \in Nat /\ k \in 1..Len(script) /\ Len(script) \in Nat
  BY LineType
<1>2. 1 \in 1..script[k].len /\ 0 \in 0..n - 1
  BY <1>1
<1>3. buf[0] = <<k, 1>> /\ buf[0] # Newline
  <2>1. buf[1 - 1] = <<k, 1>>
    BY <1>2
  <2>2. 1 - 1 = 0 /\ k # 0
    BY <1>1
  <2> QED BY <2>1, <2>2 DEF Newline
<1>4. k \in Parse(buf, n)
  <2>1. \A j \in 0..0 - 1 : buf[j] = Newline
    OBVIOUS
  <2>2. \A j \in 1..script[k].len : 0 + j <= n /\ buf[0 + j - 1] = <<k, j>>
    <3> TAKE j \in 1..script[k].len
    <3>1. 0 + j - 1 = j - 1 /\ 0 + j <= n
      BY <1>1
    <3> QED BY <3>1
  <2> QED BY <1>2, <2>1, <2>2 DEF Parse
<1>5. ASSUME NEW l \in Parse(buf, n) PROVE l = k
  <2>1. PICK i \in 0..n - 1 :
          /\ \A j \in 0..i - 1 : buf[j] = Newline
          /\ \A j \in 1..script[l].len : i + j <= n /\ buf[i + j - 1] = <<l, j>>
    BY DEF Parse
  <2>2. i = 0
    <3>1. i # 0 => 0 \in 0..i - 1
      OBVIOUS
    <3> QED BY <1>3, <2>1, <3>1
  <2>3. script[l].len \in Nat /\ script[l].len > 0
    BY LineType DEF Parse
  <2>4. 1 \in 1..script[l].len /\ 0 + 1 - 1 = 0
    BY <2>3
  <2>5. buf[0] = <<l, 1>>
    BY <2>1, <2>2, <2>4
  <2> QED BY <1>3, <2>5
<1> QED BY <1>4, <1>5

-----------------------------------------------------------------------------
(* A step of socket_handle_client.                                         *)

\* While the script stays the same so does everything that depends on it only.
LEMMA SameScript ==
  ASSUME script' = script
  PROVE  /\ IsScript(script)' <=> IsScript(script)
         /\ Total' = Total
         /\ \A p : Written(p)' = Written(p)
         /\ FirstFits' <=> FirstFits
         /\ FirstLineLen' = FirstLineLen
<1>1. ASSUME NEW p PROVE LineOf(p)' = LineOf(p)
  BY DEF LineOf, EndOf
<1>2. ASSUME NEW p PROVE Written(p)' = Written(p)
  BY <1>1 DEF Written, EndOf, Newline
<1>3. Total' = Total
  BY DEF Total, EndOf
<1>4. IsScript(script)' <=> IsScript(script)
  BY DEF IsScript, Line, EndOf
<1>5. FirstLineLen' = FirstLineLen
  BY DEF FirstLineLen
<1>6. FirstFits' <=> FirstFits
  BY <1>5 DEF FirstFits
<1> QED BY <1>2, <1>3, <1>4, <1>5, <1>6

\* The first line, if the connection has one.
LEMMA FirstLine ==
  ASSUME TypeOK, FirstFits
  PROVE  /\ 1 \in DOMAIN script /\ script[1].start = 0 /\ script[1].len \in Nat
         /\ FirstLineLen = EndOf(script[1]) /\ FirstLineLen = script[1].len + 1
<1>1. script \in Seq(Line) /\ script # <<>>
  BY DEF TypeOK, IsScript, FirstFits
<1>2. 1 \in 1..Len(script) /\ 1 \in DOMAIN script
  BY <1>1
<1>3. script[1].start = 0
  BY <1>2 DEF TypeOK, IsScript
<1>4. script[1].len \in Nat /\ EndOf(script[1]) = script[1].start + script[1].len + 1
  BY <1>2, LineType DEF TypeOK
<1> QED BY <1>2, <1>3, <1>4 DEF FirstLineLen

\* The first newline is found with the read that brings it, and the request
\* before it is handled.
LEMMA FirstIsHandled ==
  ASSUME IInv, NEW n, Reads(n), FirstFits, pos < FirstLineLen, FirstLineLen <= pos + n
  PROVE  EndOfLine(Filled(n)) /\ Parse(Filled(n), offset + n) = {1} /\ handled = <<>>
<1> DEFINE l == script[1].len
<1>1. TypeOK /\ HoldsLast /\ line[Size - 1] = Zero /\ FirstPending
  BY DEF IInv
<1>2. /\ Size \in Nat /\ Size > 1 /\ offset \in Nat /\ offset < Size /\ pos \in Nat
      /\ n \in Nat /\ n > 0 /\ n <= Size - offset - 1
  BY <1>1, Numbers DEF Reads
<1>3. offset = pos /\ handled = <<>>
  BY <1>1 DEF FirstPending
<1>4. /\ 1 \in DOMAIN script /\ script[1].start = 0 /\ l \in Nat
      /\ FirstLineLen = EndOf(script[1]) /\ FirstLineLen = l + 1
      /\ script[1].valid /\ l > 0 /\ l + 1 < Size
  BY <1>1, FirstLine DEF FirstFits
<1>5. IsScript(script)
  BY <1>1 DEF TypeOK
<1>6. \A j \in 1..l : Written(0 + j) = <<1, j>>
  BY <1>4, <1>5, BytesOfLine
<1>7. Written(l + 1) = Newline
  BY <1>4, <1>5, BytesOfLine
<1>8. \A i \in 0..Size - 1 : i < offset + n => Filled(n)[i] = Written(pos - offset + i + 1)
  BY <1>1, FilledHolds
<1> HIDE DEF l
<1>9. Filled(n)[l] = Newline
  <2>1. l \in 0..Size - 1 /\ l < offset + n /\ pos - offset + l + 1 = l + 1
    BY <1>2, <1>3, <1>4
  <2> QED BY <1>7, <1>8, <2>1
<1>10. l \in offset..Size - 2
  BY <1>2, <1>3, <1>4
<1>11. ASSUME NEW j \in 1..l PROVE Filled(n)[j - 1] = <<1, j>>
  <2>1. j - 1 \in 0..Size - 1 /\ j - 1 < offset + n /\ pos - offset + (j - 1) + 1 = 0 + j
    BY <1>2, <1>3, <1>4
  <2> QED BY <1>6, <1>8, <2>1
<1>12. offset + n \in Nat /\ l <= offset + n
  BY <1>2, <1>3, <1>4
<1>13. Parse(Filled(n), offset + n) = {1}
  BY <1>4, <1>5, <1>11, <1>12, ParseFront DEF l
<1> QED BY <1>3, <1>9, <1>10, <1>13 DEF EndOfLine

\* Before the first newline comes no line is found.
LEMMA FirstIsAwaited ==
  ASSUME IInv, NEW n, Reads(n), FirstFits, pos + n < FirstLineLen
  PROVE  /\ ~EndOfLine(Filled(n)) /\ offset = pos /\ handled = <<>>
         /\ \A i \in 0..Size - 1 : i >= offset + n => Filled(n)[i] = Zero
<1>1. TypeOK /\ HoldsLast /\ line[Size - 1] = Zero /\ FirstPending
  BY DEF IInv
<1>2. /\ Size \in Nat /\ Size > 1 /\ offset \in Nat /\ offset < Size /\ pos \in Nat
      /\ n \in Nat /\ n > 0 /\ n <= Size - offset - 1
  BY <1>1, Numbers DEF Reads
<1>3. /\ 1 \in DOMAIN script /\ script[1].start = 0 /\ script[1].len \in Nat
      /\ FirstLineLen = EndOf(script[1]) /\ FirstLineLen = script[1].len + 1
  BY <1>1, FirstLine
<1>4. /\ offset = pos /\ handled = <<>> /\ \A i \in 0..Size - 1 : i >= pos => line[i] = Zero
  BY <1>1, <1>2, <1>3 DEF FirstPending
<1>5. /\ \A i \in 0..Size - 1 : i < offset + n => Filled(n)[i] = Written(pos - offset + i + 1)
      /\ \A i \in 0..Size - 1 : i >= offset + n => Filled(n)[i] = line[i]
  BY <1>1, FilledHolds
<1>6. \A i \in 0..Size - 1 : i >= offset + n => Filled(n)[i] = Zero
  BY <1>2, <1>4, <1>5
<1>7. \A j \in 1..script[1].len : Written(script[1].start + j) = <<1, j>>
  BY <1>1, <1>3, BytesOfLine DEF TypeOK
<1>8. ASSUME NEW i \in offset..Size - 2 PROVE Filled(n)[i] # Newline
  <2>1. i \in 0..Size - 1
    BY <1>2
  <2>2. CASE i < offset + n
    <3>1. i + 1 \in 1..script[1].len /\ script[1].start + (i + 1) = pos - offset + i + 1
      BY <1>2, <1>3, <1>4, <2>1, <2>2
    <3>2. Filled(n)[i] = <<1, i + 1>>
      BY <1>5, <1>7, <2>1, <2>2, <3>1
    <3> QED BY <3>2 DEF Newline
  <2>3. CASE i >= offset + n
    BY <1>6, <2>1, <2>3 DEF Newline, Zero
  <2> QED BY <1>2, <2>1, <2>2, <2>3
<1> QED BY <1>4, <1>6, <1>8 DEF EndOfLine

\* At the end of a line the newline has just been read.
LEMMA EndIsFound ==
  ASSUME IInv, NEW n, Reads(n), NEW k \in DOMAIN script, pos + n = script[k].start
  PROVE  EndOfLine(Filled(n))
<1>1. TypeOK /\ HoldsLast /\ line[Size - 1] = Zero /\ IsScript(script)
  BY DEF IInv, TypeOK
<1>2. /\ Size \in Nat /\ Size > 1 /\ offset \in Nat /\ offset < Size /\ pos \in Nat
      /\ n \in Nat /\ n > 0 /\ n <= Size - offset - 1
  BY <1>1, Numbers DEF Reads
<1>3. k \in 1..Len(script) /\ Len(script) \in Nat /\ DOMAIN script = 1..Len(script)
  BY <1>1, LineType
<1>4. k # 1 /\ k - 1 \in DOMAIN script /\ pos + n = EndOf(script[k - 1])
  BY <1>1, <1>2, <1>3 DEF IsScript
<1>5. Written(pos + n) = Newline
  BY <1>1, <1>4, BytesOfLine
<1> DEFINE i == offset + n - 1
<1>6. i \in 0..Size - 1 /\ i \in offset..Size - 2 /\ i < offset + n /\ pos - offset + i + 1 = pos + n
  BY <1>2
<1> HIDE DEF i
<1>7. Filled(n)[i] = Newline
  BY <1>1, <1>5, <1>6, FilledHolds
<1> QED BY <1>6, <1>7 DEF EndOfLine

\* A request in the buffer starts there, after all that have been handled.
LEMMA ParsedIsNext ==
  ASSUME IInv, NEW n, Reads(n), NEW k \in Parse(Filled(n), offset + n)
  PROVE  /\ k \in DOMAIN script /\ script[k].start < pos + n
         /\ \A i \in DOMAIN handled : handled[i] < k
<1>1. TypeOK /\ HoldsLast /\ line[Size - 1] = Zero /\ IsScript(script) /\ HandledBefore
  BY DEF IInv, TypeOK
<1>2. /\ Size \in Nat /\ Size > 1 /\ offset \in Nat /\ offset < Size /\ pos \in Nat
      /\ n \in Nat /\ n > 0 /\ n <= Size - offset - 1 /\ offset + n \in Nat
  BY <1>1, Numbers DEF Reads
<1>3. k \in DOMAIN script /\ \E i \in 0..(offset + n) - 1 : Filled(n)[i] = <<k, 1>>
  <2> DEFINE buf == Filled(n)
             m == offset + n
  <2>1. k \in Parse(buf, m) /\ m \in Nat
    BY <1>2
  <2>2. buf = Filled(n) /\ m = offset + n
    OBVIOUS
  <2> HIDE DEF buf, m
  <2>3. k \in DOMAIN script /\ \E i \in 0..m - 1 : buf[i] = <<k, 1>>
    BY ONLY <2>1, <1>1, ParseFinds
  <2> QED BY ONLY <2>2, <2>3
<1>4. PICK i \in 0..(offset + n) - 1 : Filled(n)[i] = <<k, 1>>
  BY <1>3
<1>5. i \in 0..Size - 1 /\ i < offset + n
  BY <1>2
<1> DEFINE p == pos - offset + i + 1
<1>6. p \in 1..Total /\ Written(p) = <<k, 1>>
  BY <1>1, <1>4, <1>5, FilledHolds
<1>7. p = script[k].start + 1
  <2> HIDE DEF p
  <2> QED BY <1>1, <1>3, <1>6, FirstByte
<1>8. script[k].start \in Nat /\ k \in Nat
  BY <1>1, <1>3, LineType
<1>9. script[k].start < pos + n /\ script[k].start >= pos - offset
  BY <1>2, <1>5, <1>7, <1>8
<1>10. ASSUME NEW j \in DOMAIN handled PROVE handled[j] < k
  <2> DEFINE h == handled[j]
  <2>1. h \in DOMAIN script /\ script[h].start < pos - offset
    BY <1>1 DEF TypeOK, HandledBefore
  <2> HIDE DEF h
  <2>2. /\ h \in Nat /\ script[h].start \in Nat /\ script[k].len \in Nat
        /\ EndOf(script[k]) = script[k].start + script[k].len + 1
    BY <1>1, <1>3, <2>1, LineType
  <2>3. k < h => EndOf(script[k]) <= script[h].start
    BY <1>1, <1>3, <2>1, LinesInOrder
  <2>4. h < k
    BY <1>2, <1>8, <1>9, <2>1, <2>2, <2>3
  <2> QED BY <2>4 DEF h
<1> QED BY <1>3, <1>9, <1>10

\* A line has been found and is cleared.
LEMMA LineKeeps ==
  ASSUME IInv, NEW n, Reads(n), script' = script, pos' = pos + n, offset' = 0,
         line' = [Filled(n) EXCEPT ![offset + n] = Zero, ![0] = Zero],
         EndOfLine(Filled(n)),
         \/ Parse(Filled(n), offset + n) = {} /\ handled' = handled
         \/ \E k \in Parse(Filled(n), offset + n) : handled' = Append(handled, k)
  PROVE  IInv'
<1>1. TypeOK /\ HoldsLast /\ line[Size - 1] = Zero /\ IsScript(script) /\ HandledBefore
      /\ HandledInOrder /\ FirstPending /\ FirstRequestHandled /\ handled \in Seq(DOMAIN script)
  BY DEF IInv, TypeOK
<1>2. /\ Size \in Nat /\ Size > 1 /\ offset \in Nat /\ offset < Size /\ pos \in Nat
      /\ n \in Nat /\ n > 0 /\ n <= Size - offset - 1 /\ offset <= pos
      /\ Total \in Nat /\ pos + n <= Total
  BY <1>1, Numbers DEF Reads
<1>3. Filled(n) \in [0..Size - 1 -> Byte] /\ Filled(n)[Size - 1] = Zero
  BY <1>1, FilledHolds
<1>4. line' \in [0..Size - 1 -> Byte] /\ line'[Size - 1] = Zero
  <2>1. Zero \in Byte
    BY DEF Zero, Byte
  <2>2. 0 \in 0..Size - 1 /\ offset + n \in 0..Size - 1 /\ Size - 1 \in 0..Size - 1
    BY <1>2
  <2> HIDE DEF Filled
  <2> QED BY <1>3, <2>1, <2>2
<1>5. ASSUME NEW k \in Parse(Filled(n), offset + n)
      PROVE  /\ k \in DOMAIN script /\ script[k].start < pos + n
             /\ \A i \in DOMAIN handled : handled[i] < k
  BY ParsedIsNext
<1>6. /\ handled' \in Seq(DOMAIN script)
      /\ \A i \in DOMAIN handled' : script[handled'[i]].start < pos + n
      /\ \A i, j \in DOMAIN handled' : i < j => handled'[i] < handled'[j]
  <2>1. \A i \in DOMAIN handled : handled[i] \in DOMAIN script /\ script[handled[i]].start < pos + n
    <3> TAKE i \in DOMAIN handled
    <3>1. handled[i] \in DOMAIN script /\ script[handled[i]].start < pos - offset
      BY <1>1 DEF HandledBefore
    <3>2. script[handled[i]].start \in Nat
      BY <1>1, <3>1, LineType
    <3> QED BY <1>2, <3>1, <3>2
  <2>2. CASE handled' = handled
    BY <1>1, <2>1, <2>2 DEF HandledInOrder
  <2>3. ASSUME NEW k \in Parse(Filled(n), offset + n), handled' = Append(handled, k)
        PROVE  /\ handled' \in Seq(DOMAIN script)
               /\ \A i \in DOMAIN handled' : script[handled'[i]].start < pos + n
               /\ \A i, j \in DOMAIN handled' : i < j => handled'[i] < handled'[j]
    <3>1. k \in DOMAIN script /\ script[k].start < pos + n /\ \A i \in DOMAIN handled : handled[i] < k
      BY <1>5
    <3>2. handled' \in Seq(DOMAIN script)
      BY <1>1, <2>3, <3>1
    <3>3. /\ Len(handled) \in Nat /\ DOMAIN handled = 1..Len(handled)
          /\ DOMAIN handled' = 1..Len(handled) + 1
          /\ \A i \in 1..Len(handled) : handled'[i] = handled[i]
          /\ handled'[Len(handled) + 1] = k
      BY <1>1, <2>3
    <3>4. \A i \in DOMAIN handled' : i \in DOMAIN handled \/ i = Len(handled) + 1
      BY <3>3
    <3>5. \A i \in DOMAIN handled' : script[handled'[i]].start < pos + n
      BY <2>1, <3>1, <3>3, <3>4
    <3>6. ASSUME NEW i \in DOMAIN handled', NEW j \in DOMAIN handled', i < j
          PROVE  handled'[i] < handled'[j]
      <4>1. i \in 1..Len(handled)
        BY <3>3, <3>6
      <4>2. CASE j = Len(handled) + 1
        BY <3>1, <3>3, <4>1, <4>2
      <4>3. CASE j \in DOMAIN handled
        BY <1>1, <3>3, <3>6, <4>1, <4>3 DEF HandledInOrder
      <4> QED BY <3>4, <4>2, <4>3
    <3> QED BY <3>2, <3>5, <3>6
  <2> QED BY <2>2, <2>3
<1>7. /\ IsScript(script)' /\ Total' = Total /\ (FirstFits' <=> FirstFits)
      /\ FirstLineLen' = FirstLineLen
  BY <1>1, SameScript
<1>8. TypeOK'
  <2>1. pos' \in 0..Total' /\ offset' \in 0..Size - 1 /\ offset' <= pos'
    BY <1>2, <1>7
  <2>2. handled' \in Seq(DOMAIN script')
    BY <1>6
  <2> QED BY <1>4, <1>7, <2>1, <2>2, Zenon DEF TypeOK, Byte
<1>9. HoldsLast'
  BY DEF HoldsLast
<1>10. HandledBefore' /\ HandledInOrder'
  <2>1. pos' - offset' = pos + n
    BY <1>2
  <2> QED BY <1>6, <2>1 DEF HandledBefore, HandledInOrder
<1>11. EmptyAtLine'
  BY DEF EmptyAtLine
<1>12. CASE ~FirstFits
  BY <1>4, <1>7, <1>8, <1>9, <1>10, <1>11, <1>12
     DEF IInv, FirstPending, FirstRequestHandled, FirstFits, Zero
<1>13. CASE FirstFits
  <2>1. FirstLineLen \in Nat /\ FirstLineLen > 0
    BY <1>1, <1>13, FirstLine
  <2>2. ~(pos + n < FirstLineLen)
    BY <1>13, FirstIsAwaited
  <2>3. handled' # <<>> /\ handled'[1] = 1
    <3>1. CASE pos < FirstLineLen
      <4>1. Parse(Filled(n), offset + n) = {1} /\ handled = <<>>
        BY <1>2, <1>13, <2>1, <2>2, <3>1, FirstIsHandled
      <4>2. handled' = Append(<<>>, 1)
        BY <4>1
      <4> QED BY <4>2
    <3>2. CASE pos >= FirstLineLen
      <4>1. handled # <<>> /\ handled[1] = 1
        BY <1>1, <1>13, <3>2 DEF FirstRequestHandled, FirstFits
      <4>2. handled' = handled \/ \E k \in DOMAIN script : handled' = Append(handled, k)
        BY <1>5
      <4>3. 1 \in 1..Len(handled) /\ Len(handled) \in Nat
        BY <1>1, <4>1
      <4> QED BY <1>1, <4>1, <4>2, <4>3
    <3> QED BY <1>2, <2>1, <3>1, <3>2
  <2>4. FirstPending' /\ FirstRequestHandled'
    BY <1>7, <2>2, <2>3 DEF FirstPending, FirstRequestHandled
  <2> QED BY <1>4, <1>8, <1>9, <1>10, <1>11, <2>4 DEF IInv, Zero
<1> QED BY <1>12, <1>13

\* The line goes on.
LEMMA PartialKeeps ==
  ASSUME IInv, NEW n, Reads(n), script' = script, pos' = pos + n, offset' = offset + n,
         line' = Filled(n), ~EndOfLine(Filled(n)), handled' = handled
  PROVE  IInv'
<1>1. TypeOK /\ HoldsLast /\ line[Size - 1] = Zero /\ IsScript(script) /\ HandledBefore
      /\ HandledInOrder /\ FirstPending /\ FirstRequestHandled /\ handled \in Seq(DOMAIN script)
  BY DEF IInv, TypeOK
<1>2. /\ Size \in Nat /\ Size > 1 /\ offset \in Nat /\ offset < Size /\ pos \in Nat
      /\ n \in Nat /\ n > 0 /\ n <= Size - offset - 1 /\ offset <= pos
      /\ Total \in Nat /\ pos + n <= Total
  BY <1>1, Numbers DEF Reads
<1>3. /\ Filled(n) \in [0..Size - 1 -> Byte] /\ Filled(n)[Size - 1] = Zero
      /\ \A i \in 0..Size - 1 : i < offset + n => Filled(n)[i] = Written(pos - offset + i + 1)
  BY <1>1, FilledHolds
<1>4. line' \in [0..Size - 1 -> Byte] /\ line'[Size - 1] = Zero
  BY <1>3
<1>5. /\ IsScript(script)' /\ Total' = Total /\ (FirstFits' <=> FirstFits)
      /\ FirstLineLen' = FirstLineLen /\ \A p : Written(p)' = Written(p)
  BY <1>1, SameScript
<1>6. TypeOK'
  <2>1. pos' \in 0..Total' /\ offset' \in 0..Size - 1 /\ offset' <= pos'
    BY <1>2, <1>5
  <2>2. handled' \in Seq(DOMAIN script')
    BY <1>1
  <2> QED BY <1>4, <1>5, <2>1, <2>2, Zenon DEF TypeOK, Byte
<1>7. pos' - offset' = pos - offset
  BY <1>2
<1>8. HoldsLast'
  <2>1. ASSUME NEW i \in 0..offset' - 1 PROVE line'[i] = Written(pos' - offset' + i + 1)
    <3>1. i \in 0..Size - 1 /\ i < offset + n
      BY <1>2
    <3> QED BY <1>3, <1>7, <3>1
  <2>2. ASSUME NEW i \in 0..offset' - 1 PROVE line'[i] = (Written(pos - offset + i + 1))'
    BY <2>1, <1>5
  <2> QED BY <2>2 DEF HoldsLast
<1>9. HandledBefore' /\ HandledInOrder'
  BY <1>1, <1>7 DEF HandledBefore, HandledInOrder
<1>10. EmptyAtLine'
  <2>1. \A k \in DOMAIN script : pos + n # script[k].start
    BY EndIsFound
  <2> QED BY <2>1 DEF EmptyAtLine
<1>11. CASE ~FirstFits
  BY <1>4, <1>5, <1>6, <1>8, <1>9, <1>10, <1>11
     DEF IInv, FirstPending, FirstRequestHandled, FirstFits, Zero
<1>12. CASE FirstFits
  <2>1. FirstLineLen \in Nat /\ FirstLineLen > 0
    BY <1>1, <1>12, FirstLine
  <2>2. CASE pos + n < FirstLineLen
    <3>1. /\ offset = pos /\ handled = <<>>
          /\ \A i \in 0..Size - 1 : i >= offset + n => Filled(n)[i] = Zero
      BY <1>12, <2>2, FirstIsAwaited
    <3>2. FirstPending'
      BY <1>2, <3>1 DEF FirstPending, Zero
    <3>3. FirstRequestHandled'
      BY <1>2, <1>5, <2>1, <2>2 DEF FirstRequestHandled
    <3> QED BY <1>4, <1>6, <1>8, <1>9, <1>10, <3>2, <3>3 DEF IInv, Zero
  <2>3. CASE pos + n >= FirstLineLen
    <3>1. ~(pos < FirstLineLen)
      BY <1>12, <2>3, <1>2, <2>1, FirstIsHandled
    <3>2. handled # <<>> /\ handled[1] = 1
      BY <1>1, <1>2, <1>12, <2>1, <3>1 DEF FirstRequestHandled, FirstFits
    <3>3. FirstPending' /\ FirstRequestHandled'
      BY <1>2, <1>5, <2>1, <2>3, <3>2 DEF FirstPending, FirstRequestHandled
    <3> QED BY <1>4, <1>6, <1>8, <1>9, <1>10, <3>3 DEF IInv, Zero
  <2> QED BY <1>2, <2>1, <2>2, <2>3
<1> QED BY <1>11, <1>12

-----------------------------------------------------------------------------
(* The theorems.                                                           *)

\* What a step of socket_handle_client is, case by case.
LEMMA HandleClientCases ==
  ASSUME TypeOK, NEW n \in 1..Size, HandleClient(n)
  PROVE  /\ Reads(n) /\ script' = script /\ pos' = pos + n
         /\ \/ /\ EndOfLine(Filled(n)) /\ offset' = 0
               /\ line' = [Filled(n) EXCEPT ![offset + n] = Zero, ![0] = Zero]
               /\ \/ Parse(Filled(n), offset + n) = {} /\ handled' = handled
                  \/ \E k \in Parse(Filled(n), offset + n) : handled' = Append(handled, k)
            \/ /\ ~EndOfLine(Filled(n)) /\ offset' = offset + n
               /\ line' = Filled(n) /\ handled' = handled
<1>1. n \in 1..Room /\ pos + n <= Total
  BY DEF HandleClient
<1>2. Size \in Nat /\ offset \in Nat
  BY Numbers
<1>3. Reads(n)
  BY <1>1, <1>2 DEF Reads, Room
<1>4. script' = script /\ pos' = pos + n
  BY DEF HandleClient
<1>5. CASE EndOfLine(Filled(n))
  BY <1>3, <1>4, <1>5 DEF HandleClient, ClearLine
<1>6. CASE ~EndOfLine(Filled(n))
  BY <1>3, <1>4, <1>6 DEF HandleClient
<1> QED BY <1>5, <1>6

LEMMA HandleClientKeeps ==
  ASSUME IInv, NEW n \in 1..Size, HandleClient(n)
  PROVE  IInv'
<1>1. TypeOK
  BY DEF IInv
<1> QED BY <1>1, HandleClientCases, LineKeeps, PartialKeeps

\* A new connection starts with an empty buffer.
Fresh ==
  /\ IsScript(script) /\ pos = 0 /\ line = [i \in 0..Size - 1 |-> Zero] /\ offset = 0
  /\ handled = <<>>

LEMMA FreshIInv == Fresh => IInv
<1> SUFFICES ASSUME Fresh PROVE IInv
  OBVIOUS
<1> USE DEF Fresh
<1>1. Size \in Nat /\ Size > 1 /\ Size - 1 \in 0..Size - 1 /\ Zero \in Byte
  BY SizeAssumption DEF Zero, Byte
<1>2. Total \in Nat
  <2>1. CASE script = <<>>
    BY <2>1 DEF Total
  <2>2. CASE script # <<>>
    <3>1. script \in Seq(Line)
      BY DEF IsScript
    <3>2. Len(script) \in DOMAIN script
      BY <2>2, <3>1
    <3> QED BY <3>2, EndOfWithin
  <2> QED BY <2>1, <2>2
<1>3. TypeOK
  BY <1>1, <1>2 DEF TypeOK
<1>4. line[Size - 1] = Zero
  BY <1>1
<1>5. HoldsLast /\ HandledBefore /\ HandledInOrder /\ EmptyAtLine
  BY DEF HoldsLast, HandledBefore, HandledInOrder, EmptyAtLine
<1>6. FirstPending
  BY DEF FirstPending
<1>7. FirstRequestHandled
  <2>1. SUFFICES ASSUME FirstFits, pos >= FirstLineLen PROVE FALSE
    BY DEF FirstRequestHandled, FirstFits
  <2>2. FirstLineLen = script[1].len + 1 /\ script[1].len \in Nat
    BY <1>3, <2>1, FirstLine
  <2> QED BY <2>1, <2>2
<1> QED BY <1>3, <1>4, <1>5, <1>6, <1>7 DEF IInv

LEMMA InitIInv == Init => IInv
<1> SUFFICES ASSUME Init PROVE IInv
  OBVIOUS
<1>1. IsScript(script)
  BY DEF Init, IsScript
<1> QED BY <1>1, FreshIInv DEF Init, Fresh

LEMMA AcceptKeeps ==
  ASSUME NEW s \in Scripts, Accept(s)
  PROVE  IInv'
<1>1. IsScript(script)'
  BY ScriptsAssumption DEF Accept, IsScript, Line
<1>2. Fresh'
  BY <1>1 DEF Accept, Fresh, Zero
<1> QED BY <1>2, FreshIInv, PTL

\* The variables of the invariant are left alone.
LEMMA StutterKeeps ==
  ASSUME IInv, UNCHANGED <<script, pos, line, offset, handled>>
  PROVE  IInv'
<1>1. /\ IsScript(script)' /\ Total' = Total /\ (FirstFits' <=> FirstFits)
      /\ FirstLineLen' = FirstLineLen /\ \A p : Written(p)' = Written(p)
  BY SameScript DEF IInv, TypeOK
<1>2. TypeOK'
  BY <1>1 DEF IInv, TypeOK, Byte
<1>3. HoldsLast'
  BY <1>1 DEF IInv, HoldsLast
<1>4. HandledBefore' /\ HandledInOrder' /\ EmptyAtLine'
  BY DEF IInv, HandledBefore, HandledInOrder, EmptyAtLine
<1>5. FirstPending'
  BY <1>1 DEF IInv, FirstPending, Zero
<1>6. FirstRequestHandled'
  BY <1>1 DEF IInv, FirstRequestHandled
<1>7. line'[Size - 1] = Zero'
  BY DEF IInv, Zero
<1> QED BY <1>2, <1>3, <1>4, <1>5, <1>6, <1>7 DEF IInv

LEMMA NextKeeps == IInv /\ [Next]_vars => IInv'
<1> SUFFICES ASSUME IInv, [Next]_vars PROVE IInv'
  OBVIOUS
<1>1. ASSUME NEW s \in Scripts, Accept(s) PROVE IInv'
  BY <1>1, AcceptKeeps
<1>2. ASSUME NEW n \in 1..Size, HandleClient(n) PROVE IInv'
  BY <1>2, HandleClientKeeps
<1>3. CASE ReadNothing
  BY <1>3, StutterKeeps DEF ReadNothing, Closed
<1>4. CASE HangUp
  BY <1>4, StutterKeeps DEF HangUp, Closed
<1>5. CASE UNCHANGED vars
  BY <1>5, StutterKeeps DEF vars
<1> QED BY <1>1, <1>2, <1>3, <1>4, <1>5 DEF Next

LEMMA Invariance == Spec => []IInv
BY InitIInv, NextKeeps, PTL DEF Spec

(***************************************************************************)
(* read never goes beyond the line buffer and the buffer always ends with  *)
(* a zero, whatever a client writes and however it is fragmented.          *)
(***************************************************************************)
THEOREM BufferCorrect == Spec => []BufferInv
<1>1. IInv => BufferInv
  BY DEF IInv, TypeOK, BufferInv
<1> QED BY <1>1, Invariance, PTL

(***************************************************************************)
(* A first request that fits the buffer is handled with the read that      *)
(* brings its newline.                                                     *)
(***************************************************************************)
THEOREM FirstRequestCorrect == Spec => []FirstRequestHandled
<1>1. IInv => FirstRequestHandled
  BY DEF IInv
<1> QED BY <1>1, Invariance, PTL

(***************************************************************************)
(* Requests are handled in the order in which they were written, each at   *)
(* most once: what is handled next starts in the buffer, and what has been *)
(* handled starts before it.                                               *)
(***************************************************************************)
THEOREM OrderCorrect == Spec => []HandledInOrder
<1>1. IInv => HandledInOrder
  BY DEF IInv
<1> QED BY <1>1, Invariance, PTL

\* A request that starts with an empty buffer and is read in one piece is handled.
LEMMA WholeLineHandled ==
  ASSUME IInv, Next, NEW k \in DOMAIN script, open, pos = script[k].start,
         pos' = EndOf(script[k]), script[k].valid, script[k].len > 0
  PROVE  handled' = Append(handled, k)
<1>1. TypeOK /\ HoldsLast /\ line[Size - 1] = Zero /\ IsScript(script) /\ offset = 0
  BY DEF IInv, TypeOK, EmptyAtLine
<1>2. /\ script[k].start \in Nat /\ script[k].len \in Nat
      /\ EndOf(script[k]) = script[k].start + script[k].len + 1
  BY <1>1, LineType
<1>3. PICK n \in 1..Size : HandleClient(n)
  BY <1>2 DEF Next, Accept, ReadNothing, HangUp, Closed
<1>4. Reads(n) /\ pos' = pos + n
  BY <1>1, <1>3, HandleClientCases
<1>5. Size \in Nat /\ n \in Nat /\ n <= Size - offset - 1
  BY <1>4, SizeAssumption DEF Reads
<1> DEFINE l == script[k].len
<1>6. l \in Nat /\ n = l + 1
  BY <1>2, <1>4, <1>5
<1>7. \A i \in 0..Size - 1 : i < offset + n => Filled(n)[i] = Written(pos - offset + i + 1)
  BY <1>1, <1>4, FilledHolds
<1>8. /\ \A j \in 1..l : Written(script[k].start + j) = <<k, j>>
      /\ Written(EndOf(script[k])) = Newline
  BY <1>1, BytesOfLine
<1> HIDE DEF l
<1>9. Filled(n)[l] = Newline
  <2>1. l \in 0..Size - 1 /\ l < offset + n /\ pos - offset + l + 1 = EndOf(script[k])
    BY <1>1, <1>2, <1>5, <1>6 DEF l
  <2> QED BY <1>7, <1>8, <2>1
<1>10. EndOfLine(Filled(n))
  <2>1. l \in offset..Size - 2
    BY <1>1, <1>5, <1>6
  <2> QED BY <1>9, <2>1 DEF EndOfLine
<1>11. ASSUME NEW j \in 1..l PROVE Filled(n)[j - 1] = <<k, j>>
  <2>1. j - 1 \in 0..Size - 1 /\ j - 1 < offset + n
        /\ pos - offset + (j - 1) + 1 = script[k].start + j
    BY <1>1, <1>2, <1>5, <1>6
  <2> QED BY <1>7, <1>8, <2>1
<1>12. offset + n \in Nat /\ l <= offset + n
  BY <1>1, <1>5, <1>6
<1>13. Parse(Filled(n), offset + n) = {k}
  BY <1>1, <1>11, <1>12, ParseFront DEF l
<1>14. \E i \in Parse(Filled(n), offset + n) : handled' = Append(handled, i)
  BY <1>1, <1>3, <1>10, <1>13, HandleClientCases
<1> QED BY <1>13, <1>14

(***************************************************************************)
(* On a connection on which only requests and empty lines are written, the *)
(* next newline brings the reader in step again, whatever became of the    *)
(* earlier requests: one read in one piece after it is handled.            *)
(***************************************************************************)
THEOREM RecoveryCorrect == Spec => RecoversAtNewline
<1>1. ASSUME IInv, Next, NEW k \in DOMAIN script,
             open, pos = script[k].start, pos' = EndOf(script[k]),
             script[k].len > 0, \A j \in 1..k : script[j].valid
      PROVE  handled' = Append(handled, k)
  <2>1. k \in 1..k
    BY <1>1 DEF IInv, TypeOK, IsScript
  <2>2. script[k].valid
    BY <1>1, <2>1
  <2> QED BY <1>1, <2>2, WholeLineHandled
<1>2. IInv /\ [Next]_vars =>
        [\A k \in DOMAIN script :
           /\ open /\ pos = script[k].start /\ pos' = EndOf(script[k])
           /\ script[k].len > 0 /\ \A j \in 1..k : script[j].valid
           => handled' = Append(handled, k)]_vars
  BY <1>1
<1> QED BY <1>2, Invariance, PTL DEF Spec, RecoversAtNewline
=============================================================================
