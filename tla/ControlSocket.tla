--------------------------- MODULE ControlSocket ---------------------------
(***************************************************************************)
(* How the server reads JSON-RPC requests from a connection to its control *)
(* port (socket_handle_client and handle_line of socket.c, and what        *)
(* server.c's loop does about connections).  Connections do not affect     *)
(* each other, so there is one, which is opened and closed repeatedly.     *)
(*                                                                         *)
(* A client writes lines.  Which request a byte belongs to is all that     *)
(* matters: the i-th byte of line k is <<k, i>>.  read returns any part of *)
(* what the client has written and the server has not read yet.            *)
(***************************************************************************)
EXTENDS Integers, Sequences

CONSTANTS
  Size,       \* LINEBUFFER_SIZE
  Scripts     \* what a client may write: sequences of lines, each a record of
              \* where it starts, its length len and whether it is a valid request

\* How many bytes have been written with line l and its newline.
EndOf(l) == l.start + l.len + 1

ASSUME SizeAssumption == Size \in Nat \ {0, 1}

\* Each line starts where the one before it ends.
ASSUME ScriptsAssumption ==
  \A s \in Scripts :
    /\ s \in Seq([start : Nat, len : Nat, valid : BOOLEAN])
    /\ \A k \in 1..Len(s) : s[k].start = IF k = 1 THEN 0 ELSE EndOf(s[k - 1])

VARIABLES
  open,       \* the connection is in ctx->clients
  script,     \* what its client writes
  pos,        \* how many bytes of it have been read
  line,       \* sc->line
  offset,     \* sc->line_offset
  handled,    \* the requests that have been handled, in order
  event       \* what the last step came to

vars == <<open, script, pos, line, offset, handled, event>>

Newline == <<0, 0>>
Zero == <<0, 1>>

\* How many bytes the client writes, the line that the p-th one belongs to, and
\* that byte.
Total == IF script = <<>> THEN 0 ELSE EndOf(script[Len(script)])
LineOf(p) == CHOOSE k \in DOMAIN script : script[k].start < p /\ p <= EndOf(script[k])
Written(p) ==
  IF p = EndOf(script[LineOf(p)]) THEN Newline
                                  ELSE <<LineOf(p), p - script[LineOf(p)].start>>

\* Mutant: no byte is kept for the terminating zero.
RoomForAll == Size - offset

\* How many bytes read is asked for.
Room == Size - offset - 1

\* Mutant: the search begins after the first byte that was read.
EndOfLineLater(buf) == \E i \in offset + 1 .. Size - 2 : buf[i] = Newline

\* The condition under which the loop of socket_handle_client finds a line.  It
\* looks at all of the buffer, also beyond what has been read.
EndOfLine(buf) == \E i \in offset .. Size - 2 : buf[i] = Newline

\* jsonrpc_parse_string, of the first n bytes of the buffer: white space at the
\* front and whatever follows a complete JSON object are ignored.
Parse(buf, n) ==
  {k \in DOMAIN script :
     /\ script[k].valid /\ script[k].len > 0
     /\ \E i \in 0..n - 1 :
          /\ \A j \in 0..i - 1 : buf[j] = Newline
          /\ \A j \in 1..script[k].len : i + j <= n /\ buf[i + j - 1] = <<k, j>>}

\* Mutant: the line is kept.
KeepLine(buf, n) == line' = buf /\ offset' = offset

\* Mutant: a line that is not a request is kept.
ClearRequest(buf, n) ==
  IF Parse(buf, n) = {} THEN KeepLine(buf, n)
  ELSE line' = [buf EXCEPT ![n] = Zero, ![0] = Zero] /\ offset' = 0

\* What is left of a line that has been handled: its first byte is cleared.
ClearLine(buf, n) == line' = [buf EXCEPT ![n] = Zero, ![0] = Zero] /\ offset' = 0

\* The line buffer when n bytes have been read.
Filled(n) ==
  [i \in 0..Size - 1 |-> IF i \in offset..offset + n - 1 THEN Written(pos + i - offset + 1)
                                                         ELSE line[i]]

\* socket_handle_client when read returns n bytes.
HandleClient(n) ==
  LET buf == Filled(n)
  IN  /\ open /\ n \in 1..Room /\ pos + n <= Total
      /\ pos' = pos + n
      /\ IF EndOfLine(buf)
         THEN /\ \/ Parse(buf, offset + n) = {} /\ event' = "invalid" /\ UNCHANGED handled
                 \/ \E k \in Parse(buf, offset + n) :
                      event' = "request" /\ handled' = Append(handled, k)
              /\ ClearLine(buf, offset + n)
         ELSE /\ line' = buf
              /\ offset' = offset + n
              /\ event' = "partial"
              /\ UNCHANGED handled
      /\ UNCHANGED <<open, script>>

Closed ==
  /\ open' = FALSE
  /\ event' = "closed"
  /\ UNCHANGED <<script, pos, line, offset, handled>>

\* read returns 0: the client has closed the connection, or the buffer is full
\* and read is asked for nothing.
ReadNothing ==
  /\ open
  /\ pos = Total \/ Room = 0
  /\ Closed

\* EPOLLHUP or EPOLLERR: loop removes the connection.
HangUp == open /\ Closed

\* socket_handle_in
Accept(s) ==
  /\ ~open
  /\ open' = TRUE
  /\ script' = s
  /\ pos' = 0
  /\ line' = [i \in 0..Size - 1 |-> Zero]
  /\ offset' = 0
  /\ handled' = <<>>
  /\ event' = "accepted"

-----------------------------------------------------------------------------
Init ==
  /\ open = FALSE
  /\ script = <<>> /\ pos = 0
  /\ line = [i \in 0..Size - 1 |-> Zero] /\ offset = 0
  /\ handled = <<>> /\ event = "closed"

Next ==
  \/ \E s \in Scripts : Accept(s)
  \/ \E n \in 1..Size : HandleClient(n)
  \/ ReadNothing
  \/ HangUp

Spec == Init /\ [][Next]_vars

-----------------------------------------------------------------------------
(***************************************************************************)
(* Reading never goes beyond the line buffer and always leaves a zero at   *)
(* its end, however the lines of a client are fragmented.                  *)
(***************************************************************************)
BufferInv ==
  /\ offset \in 0..Size - 1
  /\ line[Size - 1] = Zero

\* The bytes of a line and its newline.
FirstLineLen == script[1].len + 1

(***************************************************************************)
(* The first request on a connection is handled as soon as its newline has *)
(* been read, in whatever pieces it arrives, if it fits the line buffer.   *)
(***************************************************************************)
FirstRequestHandled ==
  script # <<>> /\ script[1].valid /\ script[1].len > 0 /\ FirstLineLen < Size =>
    (pos >= FirstLineLen => handled # <<>> /\ handled[1] = 1)

(***************************************************************************)
(* No request is handled twice or before an earlier one.                   *)
(***************************************************************************)
HandledInOrder == \A i, j \in DOMAIN handled : i < j => handled[i] < handled[j]

(***************************************************************************)
(* A client that writes only requests and empty lines is never out of step *)
(* for longer than a line: whatever became of its earlier requests (taken  *)
(* for two by a newline left in the buffer, lost behind another one in the *)
(* same read, cut in the middle), one that is then read in one piece is    *)
(* handled.                                                                *)
(***************************************************************************)
RecoversAtNewline ==
  [][\A k \in DOMAIN script :
       /\ open /\ pos = script[k].start /\ pos' = EndOf(script[k])
       /\ script[k].len > 0 /\ \A j \in 1..k : script[j].valid
       => handled' = Append(handled, k)]_vars

(***************************************************************************)
(* What is handled is a "full line" (socket.c:426): there is a newline in  *)
(* what has been read.                                                     *)
(***************************************************************************)
OnlyFullLines ==
  [][event' \in {"request", "invalid"} =>
       \E p \in pos + 1 .. pos' : Written(p) = Newline]_vars
=============================================================================
