----------------------------- MODULE ClientLoop -----------------------------
(***************************************************************************)
(* The client program around its poll loop (client.c): the connection to   *)
(* the server with its hello task (intercom_client.c), the opening and     *)
(* closing of the sound device with its close task (alsaplayer.c), and     *)
(* what happens to all of it when the server cannot be reached or has      *)
(* another address.                                                        *)
(*                                                                         *)
(* It is about lifetimes.  A task is a place in memory: freed when it has  *)
(* run or was dropped, and used again for whichever task is posted next,   *)
(* while hello_task and close_task still hold its address.  A socket is a  *)
(* number that is free again once the socket is closed, and loop() polls   *)
(* the number it was told last.                                            *)
(*                                                                         *)
(* Delays are left out: tasks run at any time.  The one order that matters *)
(* is kept by IsNext.  Audio is known by its format only; AlsaPlayer says  *)
(* when it is played.                                                      *)
(***************************************************************************)
EXTENDS Integers, FiniteSets

CONSTANTS
  Ptrs,         \* bound: places for tasks
  Fds,          \* bound: numbers for sockets
  Formats,      \* sample formats
  Nearest,      \* what snd_pcm_hw_params_set_rate_near makes of a format
  Null,         \* NULL, of a pointer
  NoFd,         \* -1, which poll ignores
  NoFormat      \* the format before there is one

ASSUME ClientLoopAssumption ==
  /\ Null \notin Ptrs /\ NoFd \notin Fds /\ NoFormat \notin Formats
  /\ Nearest \in [Formats -> Formats]

VARIABLES
  task,         \* what each place holds: the function of a task, or "free"
  hello_task,   \* intercom_ctx.hello_task
  close_task,   \* alsaplayer_ctx.close_task
  fd,           \* intercom_ctx.fd
  open,         \* fd is a socket, not the number of one that was closed
  said,         \* a hello was sent over it
  polled,       \* the last of fds[], which is for the intercom
  revents,      \* what poll reported of it and loop() has not handled yet
  initialized,  \* alsaplayer_ctx.initialized
  format,       \* alsaplayer_ctx.rate, channels and frame_size
  alsafds,      \* the first of fds[], which are for the device, are polled
  alive,        \* the process has not ended
  fault,        \* history: memory was used after it was freed
  stale,        \* history: alsaplayer_remove_task found a pointer to a task
                \* that does not exist any more
  orphaned      \* history: a socket got a number other than the one polled

connection == <<hello_task, fd, open, said>>
device == <<close_task, initialized, format, alsafds>>
vars == <<task, connection, device, polled, revents, alive, fault, stale, orphaned>>

TaskKinds == {"hello", "close", "decode", "reinit", "resume"}
Pending(k) == {p \in Ptrs : task[p] = k}

-----------------------------------------------------------------------------
(* The task queue, as TaskSet has it, with the places of its tasks.  h is  *)
(* what the places hold at some point of a handler, and r the place of the *)
(* task that runs, or Null.                                                *)

\* post_task: the places, and which of them is the new task's.
Posted(h, k) == {<<[h EXCEPT ![p] = k], p>> : p \in {q \in Ptrs : h[q] = "free"}}

\* Mutant: the task that is running is freed as well.
DropAlways(h, p, r) == IF p = Null THEN h ELSE [h EXCEPT ![p] = "free"]

\* drop_task: the task that is running is left to taskqueue_run.
Drop(h, p, r) == IF p \in {Null, r} THEN h ELSE [h EXCEPT ![p] = "free"]

\* taskqueue_run frees a task when its function has returned.
Ended(h, r) == IF r = Null THEN h ELSE [h EXCEPT ![r] = "free"]

\* p points to memory that has been freed.
Freed(h, p) == p # Null /\ h[p] = "free"

-----------------------------------------------------------------------------
(* Parts of the handlers.                                                  *)

\* Mutant: the device is closed and its task is left.
UninitKeepsTask(h, p, r) == h

\* alsaplayer_uninit, with close_task p: the tasks it leaves, and the device.
\* close_task keeps its value.
Uninit(h, p, r) == IF initialized THEN Drop(h, p, r) ELSE h
UninitFault(h, p) == initialized /\ Freed(h, p)
AlsaClosed ==
  /\ initialized' = FALSE
  /\ alsafds' = (alsafds /\ ~initialized)

\* intercom_uninit frees the data of the hello task, then drops it.
IntercomUninit(h, r) == Drop(h, hello_task, r)
IntercomUninitFault(h) == hello_task = Null \/ h[hello_task] # "hello"

\* intercom_reinit, once the name is resolved: a socket, and intercom_hello.
\* Which number is free depends on the device and on the resolver's threads.
Connect(h, n, r) ==
  \E x \in Posted(h, "hello") :
    /\ task' = Ended(x[1], r) /\ hello_task' = x[2]
    /\ fd' = n /\ open' = TRUE /\ said' = FALSE

\* intercom_reinit ends the program if the name cannot be resolved or there is
\* no route to the address.
IntercomReinit(h, r) ==
  \/ /\ \E n \in Fds : Connect(h, n, r)
     /\ orphaned' = (orphaned \/ (polled # NoFd /\ fd' # polled))
     /\ UNCHANGED alive
  \/ /\ alive' = FALSE
     /\ task' = Ended(h, r)
     /\ UNCHANGED <<connection, orphaned>>

\* Mutant: the pointer to the dropped task is kept.
RemoveTaskKeeps == close_task

\* alsaplayer_remove_task drops close_task and leaves this pointer.
RemoveTask == Null

\* alsaplayer_init and init_alsafd
OpenDevice(h, f) ==
  /\ \E x \in Posted(h, "close") : task' = x[1] /\ close_task' = x[2]
  /\ format' = Nearest[f]
  /\ initialized' = TRUE /\ alsafds' = TRUE

-----------------------------------------------------------------------------
(* Tasks.                                                                  *)

\* hello_task with no news of the address: the resolver is not ready, has failed
\* or gives the same answer.  The hello is sent and the next one posted.
SayHello(r) ==
  /\ task[r] = "hello"
  /\ \E x \in Posted(task, "hello") : task' = Ended(x[1], r) /\ hello_task' = x[2]
  /\ said' = TRUE
  /\ UNCHANGED <<fd, open, device, polled, revents, alive, fault, stale, orphaned>>

\* hello_task when the name of the server resolves to another address, as it may
\* at any time.  All is torn down and set up again at once.
ServerMoved(r) ==
  /\ task[r] = "hello"
  /\ LET h == IntercomUninit(task, r)
     IN  /\ fault' = (fault \/ IntercomUninitFault(task) \/ UninitFault(h, close_task))
         /\ IntercomReinit(Uninit(h, close_task, r), r)
  /\ AlsaClosed
  /\ UNCHANGED <<close_task, format, polled, revents, stale>>

\* intercom_reinit as a task, after an error.
RunReinit(r) ==
  /\ task[r] = "reinit"
  /\ IntercomReinit(task, r)
  /\ UNCHANGED <<device, polled, revents, fault, stale>>

\* resume_polling
RunResume(r) ==
  /\ task[r] = "resume"
  /\ polled' = fd
  /\ task' = Ended(task, r)
  /\ UNCHANGED <<connection, device, revents, alive, fault, stale, orphaned>>

\* alsaplayer_uninit_task
RunClose(r) ==
  /\ task[r] = "close"
  /\ task' = Ended(Uninit(task, close_task, r), r)
  /\ fault' = (fault \/ UninitFault(task, close_task))
  /\ AlsaClosed
  /\ UNCHANGED <<connection, close_task, format, polled, revents, alive, stale, orphaned>>

\* decode_first_input, which touches the first chunk only.
RunDecode(r) ==
  /\ task[r] = "decode"
  /\ task' = Ended(task, r)
  /\ UNCHANGED <<connection, device, polled, revents, alive, fault, stale, orphaned>>

\* resume_polling is posted after the intercom_reinit it follows, with the same
\* delay, and so is run after it.
IsNext(r) == task[r] = "resume" => Pending("reinit") = {}

RunTask(r) ==
  /\ alive /\ IsNext(r)
  /\ \/ SayHello(r) \/ ServerMoved(r) \/ RunReinit(r) \/ RunResume(r)
     \/ RunClose(r) \/ RunDecode(r)

-----------------------------------------------------------------------------
(* Events.                                                                 *)

\* poll: a number that is no socket is POLLNVAL.  A socket has a new port and is
\* connected to the server, which answers a hello or cannot be reached by it, so
\* that nothing happens before the first one.
Poll ==
  /\ alive /\ revents = "none" /\ polled # NoFd
  /\ revents' \in IF open /\ polled = fd THEN {e \in {"POLLIN", "POLLERR"} : said}
                                        ELSE {"POLLNVAL"}
  /\ UNCHANGED <<task, connection, device, polled, alive, fault, stale, orphaned>>

\* loop() comes to what poll reported of the intercom; tasks may have run since.
Reported(e) == alive /\ revents = e /\ revents' = "none"

\* intercom_handle_audio: the device is open for this format,
SameFormat(f) ==
  /\ f = format /\ initialized
  /\ UNCHANGED <<task, device, fault, stale>>

\* or was closed in the meantime,
Reopen(f) ==
  /\ f = format /\ ~initialized
  /\ OpenDevice(task, f)
  /\ UNCHANGED <<fault, stale>>

\* or had another format: alsaplayer_remove_task, alsaplayer_uninit, and anew.
ChangeFormat(f) ==
  /\ f # format
  /\ LET h == Drop(task, close_task, Null)
     IN  /\ OpenDevice(Uninit(h, RemoveTask, Null), f)
         /\ fault' = (fault \/ Freed(task, close_task) \/ UninitFault(h, RemoveTask))
  /\ stale' = (stale \/ (~initialized /\ close_task # Null))

\* intercom_handle_in reads an audio packet that is not too late.
HandleAudio(f) ==
  /\ Reported("POLLIN") /\ polled = fd
  /\ SameFormat(f) \/ Reopen(f) \/ ChangeFormat(f)
  /\ UNCHANGED <<connection, polled, alive, orphaned>>

\* Mutant: nothing makes the connection again.
HandleErrorForGood ==
  /\ Reported("POLLERR") /\ polled = fd
  /\ LET h == IntercomUninit(task, Null)
     IN  /\ fault' = (fault \/ IntercomUninitFault(task) \/ UninitFault(h, close_task))
         /\ task' = Uninit(h, close_task, Null)
  /\ AlsaClosed
  /\ open' = FALSE
  /\ UNCHANGED <<hello_task, fd, said, close_task, format, polled, alive, stale, orphaned>>

\* POLLERR: the connection is torn down, to be set up again in a second.
HandleError ==
  /\ Reported("POLLERR") /\ polled = fd
  /\ LET h == IntercomUninit(task, Null)
     IN  /\ fault' = (fault \/ IntercomUninitFault(task) \/ UninitFault(h, close_task))
         /\ \E x \in Posted(Uninit(h, close_task, Null), "reinit") : task' = x[1]
  /\ AlsaClosed
  /\ open' = FALSE
  /\ UNCHANGED <<hello_task, fd, said, close_task, format, polled, alive, stale, orphaned>>

\* Mutant: polling is not resumed.
HandleInvalidForGood ==
  /\ Reported("POLLNVAL") /\ polled = fd
  /\ polled' = NoFd
  /\ UNCHANGED <<task, connection, device, alive, fault, stale, orphaned>>

\* POLLNVAL: the number is not polled for a second.
HandleInvalid ==
  /\ Reported("POLLNVAL") /\ polled = fd
  /\ polled' = NoFd
  /\ \E x \in Posted(task, "resume") : task' = x[1]
  /\ UNCHANGED <<connection, device, alive, fault, stale, orphaned>>

\* There was nothing to read, or nothing that matters here; or the number is not
\* that of the intercom any more, for which there is no branch.
HandleNothing ==
  /\ revents # "none" /\ Reported(revents)
  /\ revents = "POLLIN" \/ polled # fd
  /\ UNCHANGED <<task, connection, device, polled, alive, fault, stale, orphaned>>

Handle ==
  \/ \E f \in Formats : HandleAudio(f)
  \/ HandleError \/ HandleInvalid \/ HandleNothing

\* POLLOUT of the device: getchunk has a chunk, has the next one decoded by a
\* task and puts off the close task (reschedule_task).  Bound: one decode task
\* at a time; they have no delay.
HandleDevice ==
  /\ alive /\ alsafds /\ initialized
  /\ Pending("decode") = {}
  /\ \E x \in Posted(task, "decode") : task' = x[1]
  /\ fault' = (fault \/ Freed(task, close_task))
  /\ UNCHANGED <<connection, device, polled, revents, alive, stale, orphaned>>

\* sig_term_handler, while the program waits in poll.
SigTerm ==
  /\ alive
  /\ LET h == Drop(task, close_task, Null)
     IN  /\ task' = Uninit(h, RemoveTask, Null)
         /\ fault' = (fault \/ Freed(task, close_task) \/ UninitFault(h, RemoveTask))
  /\ stale' = (stale \/ (~initialized /\ close_task # Null))
  /\ close_task' = RemoveTask
  /\ AlsaClosed
  /\ alive' = FALSE
  /\ UNCHANGED <<connection, format, polled, revents, orphaned>>

-----------------------------------------------------------------------------
Init ==
  \E p \in Ptrs, n \in Fds :
    /\ task = [q \in Ptrs |-> IF q = p THEN "hello" ELSE "free"]
    /\ hello_task = p /\ close_task = Null
    /\ fd = n /\ open = TRUE /\ said = FALSE /\ polled = n /\ revents = "none"
    /\ initialized = FALSE /\ format = NoFormat /\ alsafds = FALSE
    /\ alive = TRUE /\ fault = FALSE /\ stale = FALSE /\ orphaned = FALSE

Next ==
  \/ \E r \in Ptrs : RunTask(r)
  \/ Poll \/ Handle
  \/ HandleDevice
  \/ SigTerm

Spec == Init /\ [][Next]_vars

\* taskqueue_run runs every task, and loop() handles what poll reports.
FairSpec ==
  /\ Spec
  /\ \A r \in Ptrs : WF_vars(RunTask(r))
  /\ WF_vars(Poll) /\ WF_vars(Handle)

-----------------------------------------------------------------------------
Pointers == Ptrs \cup {Null}

TypeOK ==
  /\ task \in [Ptrs -> TaskKinds \cup {"free"}]
  /\ hello_task \in Pointers /\ close_task \in Pointers
  /\ fd \in Fds /\ polled \in Fds \cup {NoFd}
  /\ revents \in {"none", "POLLIN", "POLLERR", "POLLNVAL"}
  /\ format \in Formats \cup {NoFormat}
  /\ open \in BOOLEAN /\ said \in BOOLEAN /\ initialized \in BOOLEAN /\ alsafds \in BOOLEAN
  /\ alive \in BOOLEAN /\ fault \in BOOLEAN /\ stale \in BOOLEAN /\ orphaned \in BOOLEAN

(***************************************************************************)
(* The device and its close task agree: there is one such task while the   *)
(* device is open and none otherwise, close_task points to it, and poll    *)
(* asks for the device.                                                    *)
(***************************************************************************)
DeviceInv ==
  /\ Pending("close") = IF initialized THEN {close_task} ELSE {}
  /\ alsafds = initialized

(***************************************************************************)
(* A client that runs has one hello task, which hello_task points to, or   *)
(* is about to connect again by one intercom_reinit, however errors,       *)
(* changes of address and tasks interleave.  There is never a second one.  *)
(* That there is a first one is true until alsaplayer_remove_task is       *)
(* called with a pointer that outlived its task.                           *)
(***************************************************************************)
ConnectionInv ==
  alive =>
    /\ Pending("hello") \subseteq IF open THEN {hello_task} ELSE {}
    /\ open /\ ~stale => hello_task \in Pending("hello")
    /\ \E p \in Ptrs : Pending("reinit") = IF open THEN {} ELSE {p}

(***************************************************************************)
(* Until then, no handler and no task touches a task or the data of a task *)
(* that has been freed.                                                    *)
(***************************************************************************)
NoFault == fault => stale

\* While the intercom is not polled, one task is to resume it, and none
\* otherwise.
ResumeInv ==
  alive => \E p \in Ptrs : Pending("resume") = IF polled = NoFd THEN {p} ELSE {}

\* What poll reported of a socket is handled before it is closed.
EventInv == alive /\ revents \in {"POLLIN", "POLLERR"} => open

LoopInv == TypeOK /\ DeviceInv /\ ConnectionInv /\ NoFault /\ ResumeInv /\ EventInv

(***************************************************************************)
(* A client whose socket is not polled comes back to it, except if a new   *)
(* socket got another number than the old one while that was still polled: *)
(* for then no branch of loop() is responsible.                            *)
(***************************************************************************)
HearsServer == (alive /\ polled # fd) ~> (~alive \/ orphaned \/ polled = fd)

(***************************************************************************)
(* hello_task is run again and again as long as the client runs (and its   *)
(* pointers are not stale), whatever becomes of its connection; README.md: *)
(* "clients say hello to servers".                                         *)
(***************************************************************************)
RunHello == \E r \in Ptrs : task[r] = "hello" /\ RunTask(r)
KeepsSayingHello == <>(stale \/ ~alive) \/ []<><<RunHello>>_vars
=============================================================================
