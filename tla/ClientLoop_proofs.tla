------------------------- MODULE ClientLoop_proofs -------------------------
(***************************************************************************)
(* Proofs about the tasks, the socket and the device of the client, for    *)
(* any number of tasks, of socket numbers and of sample formats.           *)
(***************************************************************************)
EXTENDS ClientLoop, TLAPS

Places == [Ptrs -> TaskKinds \cup {"free"}]

\* The places of one kind of task, said place by place.
Only(h, k, c, q) ==
  /\ \A p \in Ptrs : h[p] = k <=> (c /\ p = q)
  /\ c => q \in Ptrs

LEMMA OnlyOne ==
  ASSUME NEW h \in Places, NEW k, NEW c \in BOOLEAN, NEW q
  PROVE  {p \in Ptrs : h[p] = k} = (IF c THEN {q} ELSE {}) <=> Only(h, k, c, q)
<1>1. CASE c
  BY <1>1 DEF Only
<1>2. CASE ~c
  BY <1>2 DEF Only
<1> QED BY <1>1, <1>2

\* post_task takes a place that was free.
LEMMA PostedPlace ==
  ASSUME NEW h \in Places, NEW k \in TaskKinds, NEW x \in Posted(h, k)
  PROVE  /\ x[2] \in Ptrs /\ h[x[2]] = "free"
         /\ x[1] \in Places
         /\ \A q \in Ptrs : x[1][q] = IF q = x[2] THEN k ELSE h[q]
<1>1. PICK p \in {q \in Ptrs : h[q] = "free"} : x = <<[h EXCEPT ![p] = k], p>>
  BY DEF Posted
<1>2. x[1] = [h EXCEPT ![p] = k] /\ x[2] = p
  BY <1>1
<1> QED BY <1>2 DEF Places

\* drop_task and the end of a task free one place at most.
LEMMA DropPlaces ==
  ASSUME NEW h \in Places, NEW p \in Pointers, NEW r \in Pointers
  PROVE  /\ Drop(h, p, r) \in Places
         /\ \A q \in Ptrs : Drop(h, p, r)[q] = IF q = p /\ p # r THEN "free" ELSE h[q]
BY ClientLoopAssumption DEF Places, Pointers, Drop

LEMMA EndedPlaces ==
  ASSUME NEW h \in Places, NEW r \in Pointers
  PROVE  /\ Ended(h, r) \in Places
         /\ \A q \in Ptrs : Ended(h, r)[q] = IF q = r THEN "free" ELSE h[q]
BY ClientLoopAssumption DEF Places, Pointers, Ended

-----------------------------------------------------------------------------
\* LoopInv, said place by place.
TasksInv ==
  /\ Only(task, "close", initialized, close_task)
  /\ alsafds = initialized
  /\ alive => \A p \in Ptrs : task[p] = "hello" => open /\ p = hello_task
  /\ alive /\ open /\ ~stale => hello_task \in Ptrs /\ task[hello_task] = "hello"
  /\ alive => \E p \in Ptrs : Only(task, "reinit", ~open, p)
  /\ alive => \E p \in Ptrs : Only(task, "resume", polled = NoFd, p)

IInv == TypeOK /\ TasksInv /\ NoFault /\ EventInv

LEMMA IInvImplies == IInv => LoopInv
<1> SUFFICES ASSUME IInv PROVE LoopInv
  OBVIOUS
<1> USE DEF IInv, TypeOK, TasksInv
<1>1. task \in Places
  BY DEF Places
<1>2. DeviceInv
  BY <1>1, OnlyOne DEF DeviceInv, Pending
<1>3. ConnectionInv
  <2> SUFFICES ASSUME alive PROVE ConnectionInv
    BY DEF ConnectionInv
  <2>1. /\ Pending("hello") \subseteq IF open THEN {hello_task} ELSE {}
        /\ open /\ ~stale => hello_task \in Pending("hello")
    BY DEF Pending
  <2>2. PICK p \in Ptrs : Only(task, "reinit", ~open, p)
    OBVIOUS
  <2>3. Pending("reinit") = IF ~open THEN {p} ELSE {}
    BY <1>1, <2>2, OnlyOne DEF Pending
  <2> QED BY <2>1, <2>3 DEF ConnectionInv
<1>4. ResumeInv
  <2> SUFFICES ASSUME alive
               PROVE  \E p \in Ptrs : Pending("resume") = IF polled = NoFd THEN {p} ELSE {}
    BY DEF ResumeInv
  <2>1. PICK p \in Ptrs : Only(task, "resume", polled = NoFd, p)
    OBVIOUS
  <2>2. Pending("resume") = IF polled = NoFd THEN {p} ELSE {}
    BY <2>1 DEF Only, Pending
  <2> QED BY <2>2
<1> QED BY <1>2, <1>3, <1>4 DEF LoopInv

LEMMA InitIInv == Init => IInv
<1> SUFFICES ASSUME NEW p \in Ptrs, NEW n \in Fds,
                    task = [q \in Ptrs |-> IF q = p THEN "hello" ELSE "free"],
                    hello_task = p, close_task = Null,
                    fd = n, open = TRUE, said = FALSE, polled = n, revents = "none",
                    initialized = FALSE, format = NoFormat, alsafds = FALSE,
                    alive = TRUE, fault = FALSE, stale = FALSE, orphaned = FALSE
             PROVE  IInv
  BY DEF Init
<1>1. TypeOK
  BY DEF TypeOK, Pointers, TaskKinds
<1>2. TasksInv
  BY ClientLoopAssumption DEF TasksInv, Only
<1> QED BY <1>1, <1>2 DEF IInv, NoFault, EventInv

-----------------------------------------------------------------------------
(* Steps.  What a handler has dropped, then posted, then ended.            *)

\* alsaplayer_uninit frees the place of close_task, if the device is open.
LEMMA UninitPlaces ==
  ASSUME IInv, NEW h \in Places, NEW r \in Pointers,
         initialized => close_task # r
  PROVE  /\ Uninit(h, close_task, r) \in Places
         /\ \A q \in Ptrs : Uninit(h, close_task, r)[q] =
                              IF initialized /\ q = close_task THEN "free" ELSE h[q]
<1>1. close_task \in Pointers /\ initialized \in BOOLEAN
  BY DEF IInv, TypeOK
<1>2. CASE initialized
  <2>1. Uninit(h, close_task, r) = Drop(h, close_task, r)
    BY <1>2 DEF Uninit
  <2>2. /\ Drop(h, close_task, r) \in Places
        /\ \A q \in Ptrs : Drop(h, close_task, r)[q] =
                             IF q = close_task /\ close_task # r THEN "free" ELSE h[q]
    BY <1>1, DropPlaces
  <2> QED BY <1>2, <2>1, <2>2
<1>3. CASE ~initialized
  BY <1>3 DEF Uninit
<1> QED BY <1>1, <1>2, <1>3

\* No use of freed memory by it, as long as the close task is there.
LEMMA UninitSafe ==
  ASSUME IInv, NEW h, \A q \in Ptrs : h[q] = task[q]
  PROVE  ~UninitFault(h, close_task)
BY DEF IInv, TasksInv, Only, UninitFault, Freed

\* intercom_reinit, when what is left of the tasks has no hello task but the one
\* that runs, and no intercom_reinit but the one that runs.
LEMMA ReinitStep ==
  ASSUME IInv, alive, NEW h \in Places, NEW r \in Ptrs, IntercomReinit(h, r),
         \A q \in Ptrs : h[q] \in {"hello", "reinit"} => q = r, h[r] # "free"
  PROVE  /\ task' \in Places /\ hello_task' \in Pointers /\ fd' \in Fds
         /\ open' \in BOOLEAN /\ said' \in BOOLEAN /\ alive' \in BOOLEAN
         /\ orphaned' \in BOOLEAN
         /\ \A k \in {"close", "resume"}, q \in Ptrs :
              task'[q] = k <=> h[q] = k /\ q # r
         /\ alive' => /\ open'
                      /\ \A q \in Ptrs : task'[q] = "hello" <=> q = hello_task'
                      /\ hello_task' \in Ptrs
                      /\ \A q \in Ptrs : task'[q] # "reinit"
<1>1. "hello" \in TaskKinds /\ r \in Pointers
  BY DEF TaskKinds, Pointers
<1>2. CASE /\ \E n \in Fds : Connect(h, n, r)
           /\ orphaned' = (orphaned \/ (polled # NoFd /\ fd' # polled))
           /\ UNCHANGED alive
  <2>1. PICK n \in Fds : Connect(h, n, r)
    BY <1>2
  <2>2. PICK x \in Posted(h, "hello") :
          /\ task' = Ended(x[1], r) /\ hello_task' = x[2]
          /\ fd' = n /\ open' = TRUE /\ said' = FALSE
    BY <2>1 DEF Connect
  <2>3. /\ x[2] \in Ptrs /\ h[x[2]] = "free" /\ x[2] # r
        /\ task' \in Places
        /\ \A q \in Ptrs : task'[q] = IF q = r THEN "free"
                                      ELSE IF q = x[2] THEN "hello" ELSE h[q]
    BY <1>1, <2>2, PostedPlace, EndedPlaces
  <2> QED BY <1>2, <2>2, <2>3 DEF IInv, TypeOK, Pointers
<1>3. CASE /\ alive' = FALSE
           /\ task' = Ended(h, r)
           /\ UNCHANGED <<connection, orphaned>>
  <2>1. /\ task' \in Places
        /\ \A q \in Ptrs : task'[q] = IF q = r THEN "free" ELSE h[q]
    BY <1>1, <1>3, EndedPlaces
  <2> QED BY <1>3, <2>1 DEF IInv, TypeOK, connection
<1> QED BY <1>2, <1>3 DEF IntercomReinit

\* Steps that leave these tasks alone keep what TasksInv says of them.
LEMMA SameReinit ==
  ASSUME IInv, UNCHANGED <<open, alive>>,
         \A q \in Ptrs : task'[q] = "reinit" <=> task[q] = "reinit"
  PROVE  alive' => \E p \in Ptrs : Only(task', "reinit", ~open', p)
BY DEF IInv, TasksInv, Only

LEMMA SameResume ==
  ASSUME IInv, UNCHANGED <<polled, alive>>,
         \A q \in Ptrs : task'[q] = "resume" <=> task[q] = "resume"
  PROVE  alive' => \E p \in Ptrs : Only(task', "resume", polled' = NoFd, p)
BY DEF IInv, TasksInv, Only

LEMMA SameTasks ==
  ASSUME IInv, UNCHANGED <<hello_task, open, close_task, initialized, alsafds, polled,
                           alive, stale>>,
         \A q \in Ptrs : \/ task'[q] = task[q]
                         \/ {task'[q], task[q]} = {"decode", "free"}
  PROVE  TasksInv'
<1>1. \A q \in Ptrs : /\ task'[q] = "hello" <=> task[q] = "hello"
                      /\ task'[q] = "close" <=> task[q] = "close"
                      /\ task'[q] = "reinit" <=> task[q] = "reinit"
                      /\ task'[q] = "resume" <=> task[q] = "resume"
  OBVIOUS
<1>2. Only(task', "close", initialized', close_task')
  BY <1>1 DEF IInv, TasksInv, Only
<1> QED BY <1>1, <1>2, SameReinit, SameResume DEF IInv, TasksInv

LEMMA SayHelloStep ==
  ASSUME IInv, alive, NEW r \in Ptrs, SayHello(r)
  PROVE  IInv'
<1> USE DEF IInv
<1>1. task \in Places /\ "hello" \in TaskKinds /\ r \in Pointers
  BY DEF TypeOK, Places, TaskKinds, Pointers
<1>2. PICK x \in Posted(task, "hello") : task' = Ended(x[1], r) /\ hello_task' = x[2]
  BY DEF SayHello
<1>3. /\ x[2] \in Ptrs /\ task[x[2]] = "free"
      /\ task' \in Places
      /\ \A q \in Ptrs : task'[q] = IF q = r THEN "free"
                                    ELSE IF q = x[2] THEN "hello" ELSE task[q]
  BY <1>1, <1>2, PostedPlace, EndedPlaces
<1>4. TypeOK'
  BY <1>2, <1>3 DEF TypeOK, SayHello, Places, Pointers, device
<1>5. TasksInv'
  BY <1>2, <1>3 DEF TasksInv, Only, SayHello, device
<1> QED BY <1>4, <1>5 DEF SayHello, NoFault, EventInv

LEMMA ServerMovedStep ==
  ASSUME IInv, alive, NEW r \in Ptrs, ServerMoved(r)
  PROVE  IInv'
<1> DEFINE h == IntercomUninit(task, r)
           u == Uninit(h, close_task, r)
<1>1. task \in Places /\ hello_task = r /\ task[r] = "hello" /\ open /\ r \in Pointers
  BY DEF IInv, TypeOK, TasksInv, Places, Pointers, ServerMoved
<1>2. h = task
  BY <1>1 DEF IntercomUninit, Drop
<1>3. initialized => close_task \in Ptrs /\ close_task # r
  BY <1>1 DEF IInv, TasksInv, Only
<1>4. /\ u \in Places
      /\ \A q \in Ptrs : u[q] = IF initialized /\ q = close_task THEN "free" ELSE task[q]
  BY <1>1, <1>2, <1>3, UninitPlaces
<1>5. ~IntercomUninitFault(task) /\ ~UninitFault(h, close_task)
  BY <1>1, <1>2, UninitSafe, ClientLoopAssumption DEF IntercomUninitFault
<1>6. /\ IntercomReinit(u, r)
      /\ fault' = fault
      /\ initialized' = FALSE /\ alsafds' = FALSE
      /\ UNCHANGED <<close_task, format, polled, revents, stale>>
  BY <1>5 DEF ServerMoved, AlsaClosed, IInv, TypeOK, TasksInv
<1>7. \A q \in Ptrs : task[q] \in {"hello", "reinit"} => q = r
  BY <1>1 DEF IInv, TasksInv, Only
<1>8. (\A q \in Ptrs : u[q] \in {"hello", "reinit"} => q = r) /\ u[r] # "free"
  BY <1>1, <1>3, <1>4, <1>7
<1> HIDE DEF h, u
<1>9. /\ task' \in Places /\ hello_task' \in Pointers /\ fd' \in Fds
      /\ open' \in BOOLEAN /\ said' \in BOOLEAN /\ alive' \in BOOLEAN
      /\ orphaned' \in BOOLEAN
      /\ \A k \in {"close", "resume"}, q \in Ptrs : task'[q] = k <=> u[q] = k /\ q # r
      /\ alive' => /\ open'
                   /\ \A q \in Ptrs : task'[q] = "hello" <=> q = hello_task'
                   /\ hello_task' \in Ptrs
                   /\ \A q \in Ptrs : task'[q] # "reinit"
  BY <1>4, <1>6, <1>8, ReinitStep
<1>10. TypeOK'
  BY <1>6, <1>9 DEF IInv, TypeOK, Places
<1>11. TasksInv'
  <2>1. \A q \in Ptrs : task'[q] # "close"
    BY <1>4, <1>9 DEF IInv, TasksInv, Only
  <2>2. \A q \in Ptrs : task'[q] = "resume" <=> task[q] = "resume"
    BY <1>1, <1>3, <1>4, <1>9 DEF IInv, TasksInv, Only
  <2>3. alive' => \E p \in Ptrs : Only(task', "resume", polled' = NoFd, p)
    BY <1>6, <2>2 DEF IInv, TasksInv, Only
  <2>4. alive' => \E p \in Ptrs : Only(task', "reinit", ~open', p)
    BY <1>9 DEF Only
  <2> QED BY <1>6, <1>9, <2>1, <2>3, <2>4 DEF TasksInv, Only
<1> QED BY <1>6, <1>9, <1>10, <1>11 DEF IInv, NoFault, EventInv

LEMMA RunReinitStep ==
  ASSUME IInv, alive, NEW r \in Ptrs, RunReinit(r)
  PROVE  IInv'
<1>1. /\ task \in Places /\ task[r] = "reinit" /\ IntercomReinit(task, r)
      /\ UNCHANGED <<device, polled, revents, fault, stale>>
  BY DEF IInv, TypeOK, Places, RunReinit
<1>2. \A q \in Ptrs : task[q] \in {"hello", "reinit"} => q = r
  BY <1>1 DEF IInv, TasksInv, Only
<1>3. /\ task' \in Places /\ hello_task' \in Pointers /\ fd' \in Fds
      /\ open' \in BOOLEAN /\ said' \in BOOLEAN /\ alive' \in BOOLEAN
      /\ orphaned' \in BOOLEAN
      /\ \A k \in {"close", "resume"}, q \in Ptrs : task'[q] = k <=> task[q] = k /\ q # r
      /\ alive' => /\ open'
                   /\ \A q \in Ptrs : task'[q] = "hello" <=> q = hello_task'
                   /\ hello_task' \in Ptrs
                   /\ \A q \in Ptrs : task'[q] # "reinit"
  BY <1>1, <1>2, ReinitStep
<1>4. \A k \in {"close", "resume"}, q \in Ptrs : task'[q] = k <=> task[q] = k
  BY <1>1, <1>3
<1>5. TypeOK'
  BY <1>1, <1>3 DEF IInv, TypeOK, Places, device
<1>6. TasksInv'
  <2>1. alive' => \E p \in Ptrs : Only(task', "resume", polled' = NoFd, p)
    BY <1>1, <1>4 DEF IInv, TasksInv, Only
  <2>2. alive' => \E p \in Ptrs : Only(task', "reinit", ~open', p)
    BY <1>3 DEF Only
  <2> QED BY <1>1, <1>3, <1>4, <2>1, <2>2 DEF IInv, TasksInv, Only, device
<1> QED BY <1>1, <1>3, <1>5, <1>6 DEF IInv, NoFault, EventInv

LEMMA RunResumeStep ==
  ASSUME IInv, alive, NEW r \in Ptrs, RunResume(r)
  PROVE  IInv'
<1>1. /\ task' \in Places
      /\ \A q \in Ptrs : task'[q] = IF q = r THEN "free" ELSE task[q]
  BY EndedPlaces DEF RunResume, IInv, TypeOK, Places, Pointers
<1>2. /\ task[r] = "resume" /\ polled' = fd
      /\ UNCHANGED <<connection, device, revents, alive, fault, stale, orphaned>>
  BY DEF RunResume
<1>3. polled' \in Fds /\ polled' # NoFd
  BY <1>2, ClientLoopAssumption DEF IInv, TypeOK
<1>4. TypeOK'
  BY <1>1, <1>2, <1>3 DEF IInv, TypeOK, Places, connection, device
<1>5. TasksInv'
  <2>1. \A q \in Ptrs : task'[q] # "resume"
    BY <1>1, <1>2 DEF IInv, TasksInv, Only
  <2>2. \E p \in Ptrs : Only(task', "resume", polled' = NoFd, p)
    BY <1>3, <2>1 DEF Only
  <2> QED BY <1>1, <1>2, <2>2 DEF IInv, TasksInv, Only, connection, device
<1> QED BY <1>2, <1>4, <1>5 DEF IInv, NoFault, EventInv, connection

LEMMA RunCloseStep ==
  ASSUME IInv, alive, NEW r \in Ptrs, RunClose(r)
  PROVE  IInv'
<1>1. task \in Places /\ r = close_task /\ initialized /\ r \in Pointers
  BY DEF RunClose, IInv, TypeOK, Places, Pointers, TasksInv, Only
<1>2. Uninit(task, close_task, r) = task
  BY <1>1 DEF Uninit, Drop
<1>3. /\ task' \in Places
      /\ \A q \in Ptrs : task'[q] = IF q = r THEN "free" ELSE task[q]
  BY <1>1, <1>2, EndedPlaces DEF RunClose
<1>4. ~UninitFault(task, close_task)
  BY UninitSafe
<1>5. /\ task[r] = "close" /\ fault' = fault /\ initialized' = FALSE /\ alsafds' = FALSE
      /\ UNCHANGED <<connection, close_task, format, polled, revents, alive, stale, orphaned>>
  BY <1>1, <1>4 DEF RunClose, AlsaClosed, IInv, TypeOK
<1>6. TypeOK'
  BY <1>3, <1>5 DEF IInv, TypeOK, Places, connection
<1>7. TasksInv'
  <2>1. \A q \in Ptrs : task'[q] # "close"
    BY <1>1, <1>3 DEF IInv, TasksInv, Only
  <2>2. \A q \in Ptrs : /\ task'[q] = "hello" <=> task[q] = "hello"
                        /\ task'[q] = "reinit" <=> task[q] = "reinit"
                        /\ task'[q] = "resume" <=> task[q] = "resume"
    BY <1>3, <1>5
  <2>3. UNCHANGED <<hello_task, open, close_task, stale, polled, alive>>
    BY <1>5 DEF connection
  <2>4. /\ alive' => \E p \in Ptrs : Only(task', "reinit", ~open', p)
        /\ alive' => \E p \in Ptrs : Only(task', "resume", polled' = NoFd, p)
    BY <2>2, <2>3, SameReinit, SameResume
  <2>5. /\ alive' => \A p \in Ptrs : task'[p] = "hello" => open' /\ p = hello_task'
        /\ alive' /\ open' /\ ~stale' => hello_task' \in Ptrs /\ task'[hello_task'] = "hello"
    BY <2>2, <2>3 DEF IInv, TasksInv
  <2>6. Only(task, "close", initialized, close_task)' /\ alsafds' = initialized'
    BY <1>5, <2>1, <2>3 DEF Only
  <2> QED BY <2>4, <2>5, <2>6 DEF TasksInv
<1> QED BY <1>5, <1>6, <1>7 DEF IInv, NoFault, EventInv, connection

LEMMA RunDecodeStep ==
  ASSUME IInv, alive, NEW r \in Ptrs, RunDecode(r)
  PROVE  IInv'
<1>1. /\ task' \in Places
      /\ \A q \in Ptrs : task'[q] = IF q = r THEN "free" ELSE task[q]
  BY EndedPlaces DEF RunDecode, IInv, TypeOK, Places, Pointers
<1>2. /\ task[r] = "decode"
      /\ UNCHANGED <<connection, device, polled, revents, alive, fault, stale, orphaned>>
  BY DEF RunDecode
<1>3. TypeOK'
  BY <1>1, <1>2 DEF IInv, TypeOK, Places, connection, device
<1>4. TasksInv'
  BY <1>1, <1>2, SameTasks DEF connection, device
<1> QED BY <1>2, <1>3, <1>4 DEF IInv, NoFault, EventInv, connection

-----------------------------------------------------------------------------
LEMMA PollStep == ASSUME IInv, Poll PROVE IInv'
<1>1. TypeOK' /\ EventInv'
  BY DEF Poll, IInv, TypeOK, EventInv, connection, device
<1>2. TasksInv'
  BY SameTasks DEF Poll, connection, device
<1> QED BY <1>1, <1>2 DEF IInv, NoFault, Poll

\* The opening of the device, from places h that have no close task.
LEMMA OpenStep ==
  ASSUME NEW h \in Places, NEW f \in Formats, OpenDevice(h, f),
         \A q \in Ptrs : h[q] # "close"
  PROVE  /\ task' \in Places /\ close_task' \in Ptrs
         /\ initialized' = TRUE /\ alsafds' = TRUE /\ format' \in Formats
         /\ \A q \in Ptrs : task'[q] = "close" <=> q = close_task'
         /\ \A q \in Ptrs : task'[q] = h[q] \/ (h[q] = "free" /\ task'[q] = "close")
<1>1. "close" \in TaskKinds
  BY DEF TaskKinds
<1>2. PICK x \in Posted(h, "close") : task' = x[1] /\ close_task' = x[2]
  BY DEF OpenDevice
<1>3. /\ task' \in Places /\ close_task' \in Ptrs /\ h[close_task'] = "free"
      /\ \A q \in Ptrs : task'[q] = IF q = close_task' THEN "close" ELSE h[q]
  BY <1>1, <1>2, PostedPlace
<1> QED BY <1>3, ClientLoopAssumption DEF OpenDevice

LEMMA ReopenStep ==
  ASSUME IInv, NEW f \in Formats, Reported("POLLIN"), Reopen(f),
         UNCHANGED <<connection, polled, alive, orphaned>>
  PROVE  IInv'
<1>1. /\ task \in Places /\ OpenDevice(task, f) /\ \A q \in Ptrs : task[q] # "close"
      /\ UNCHANGED <<fault, stale>>
  BY DEF Reopen, IInv, TypeOK, Places, TasksInv, Only
<1>2. /\ task' \in Places /\ close_task' \in Ptrs
      /\ initialized' = TRUE /\ alsafds' = TRUE /\ format' \in Formats
      /\ \A q \in Ptrs : task'[q] = "close" <=> q = close_task'
      /\ \A q \in Ptrs : task'[q] = task[q] \/ (task[q] = "free" /\ task'[q] = "close")
  BY <1>1, OpenStep
<1>3. TypeOK'
  BY <1>1, <1>2 DEF IInv, TypeOK, Places, Pointers, connection, Reported
<1>4. \A q \in Ptrs : /\ task'[q] = "hello" <=> task[q] = "hello"
                      /\ task'[q] = "reinit" <=> task[q] = "reinit"
                      /\ task'[q] = "resume" <=> task[q] = "resume"
  BY <1>2
<1>5. TasksInv'
  BY <1>1, <1>2, <1>4, SameReinit, SameResume DEF IInv, TasksInv, Only, connection
<1> QED BY <1>1, <1>3, <1>5 DEF IInv, NoFault, EventInv, Reported

\* The pointer of a task that has ended may name the place of another one, but
\* of none that waits for the connection: there is a socket that was polled.
LEMMA ChangeFormatStep ==
  ASSUME IInv, NEW f \in Formats, Reported("POLLIN"), polled = fd, ChangeFormat(f),
         UNCHANGED <<connection, polled, alive, orphaned>>
  PROVE  IInv'
<1> DEFINE h == Drop(task, close_task, Null)
<1>1. /\ task \in Places /\ close_task \in Pointers /\ Null \in Pointers
      /\ initialized \in BOOLEAN /\ stale \in BOOLEAN
  BY DEF IInv, TypeOK, Places, Pointers
<1>2. /\ h \in Places
      /\ \A q \in Ptrs : h[q] = IF q = close_task THEN "free" ELSE task[q]
  BY <1>1, DropPlaces, ClientLoopAssumption
<1>3. Uninit(h, RemoveTask, Null) = h /\ ~UninitFault(h, RemoveTask)
  BY DEF Uninit, UninitFault, RemoveTask, Drop, Freed
<1>4. \A q \in Ptrs : h[q] # "close"
  BY <1>2 DEF IInv, TasksInv, Only
<1>5. /\ OpenDevice(h, f)
      /\ fault' = (fault \/ Freed(task, close_task))
      /\ stale' = (stale \/ (~initialized /\ close_task # Null))
      /\ alive /\ revents = "POLLIN" /\ revents' = "none"
  BY <1>3 DEF ChangeFormat, Reported
<1> HIDE DEF h
<1>6. /\ task' \in Places /\ close_task' \in Ptrs
      /\ initialized' = TRUE /\ alsafds' = TRUE /\ format' \in Formats
      /\ \A q \in Ptrs : task'[q] = "close" <=> q = close_task'
      /\ \A q \in Ptrs : task'[q] = h[q] \/ (h[q] = "free" /\ task'[q] = "close")
  BY <1>2, <1>4, <1>5, OpenStep
<1>7. TypeOK'
  BY <1>1, <1>5, <1>6 DEF IInv, TypeOK, Places, Pointers, connection
<1>8. \A q \in Ptrs : task'[q] \in {"hello", "reinit", "resume"} => task[q] = task'[q]
  BY <1>2, <1>6
<1>9. open /\ polled # NoFd
  BY <1>5, ClientLoopAssumption DEF IInv, EventInv, TypeOK
<1>10. \A q \in Ptrs : task'[q] # "reinit" /\ task'[q] # "resume"
  BY <1>5, <1>8, <1>9 DEF IInv, TasksInv, Only
<1>11. ~stale' => /\ ~stale
                  /\ close_task = Null \/ (initialized /\ task[close_task] = "close")
  BY <1>1, <1>5 DEF IInv, TasksInv, Only
<1>12. ~stale' => hello_task' \in Ptrs /\ task'[hello_task'] = "hello"
  <2> SUFFICES ASSUME ~stale' PROVE hello_task' \in Ptrs /\ task'[hello_task'] = "hello"
    OBVIOUS
  <2>1. hello_task' = hello_task /\ hello_task \in Ptrs /\ task[hello_task] = "hello"
    BY <1>5, <1>9, <1>11 DEF IInv, TasksInv, connection
  <2>2. hello_task # close_task
    BY <1>11, <2>1, ClientLoopAssumption
  <2> QED BY <1>2, <1>6, <2>1, <2>2
<1>13. TasksInv'
  <2>1. open' /\ polled' # NoFd
    BY <1>9 DEF connection
  <2>2. Ptrs # {}
    BY <1>6
  <2>3. \A q \in Ptrs : task'[q] = "hello" => open' /\ q = hello_task'
    BY <1>5, <1>8, <2>1 DEF IInv, TasksInv, connection
  <2>4. /\ \E p \in Ptrs : Only(task', "reinit", ~open', p)
        /\ \E p \in Ptrs : Only(task', "resume", polled' = NoFd, p)
    BY <1>10, <2>1, <2>2 DEF Only
  <2> QED BY <1>6, <1>12, <2>3, <2>4 DEF TasksInv, Only
<1>14. NoFault'
  BY <1>1, <1>5, <1>11 DEF IInv, NoFault, Freed
<1> QED BY <1>5, <1>7, <1>13, <1>14 DEF IInv, EventInv

LEMMA HandleAudioStep ==
  ASSUME IInv, NEW f \in Formats, HandleAudio(f)
  PROVE  IInv'
<1>1. CASE SameFormat(f)
  <2>1. TypeOK' /\ EventInv'
    BY <1>1 DEF HandleAudio, SameFormat, Reported, IInv, TypeOK, EventInv, connection, device
  <2>2. TasksInv'
    BY <1>1, SameTasks DEF HandleAudio, SameFormat, connection, device
  <2> QED BY <1>1, <2>1, <2>2 DEF IInv, NoFault, HandleAudio, SameFormat
<1>2. CASE Reopen(f)
  BY <1>2, ReopenStep DEF HandleAudio
<1>3. CASE ChangeFormat(f)
  BY <1>3, ChangeFormatStep DEF HandleAudio
<1> QED BY <1>1, <1>2, <1>3 DEF HandleAudio

LEMMA HandleErrorStep == ASSUME IInv, HandleError PROVE IInv'
<1> DEFINE h == IntercomUninit(task, Null)
           u == Uninit(h, close_task, Null)
<1>1. /\ task \in Places /\ hello_task \in Pointers /\ close_task \in Pointers
      /\ Null \in Pointers /\ initialized \in BOOLEAN /\ Null \notin Ptrs
      /\ "reinit" \in TaskKinds
  BY ClientLoopAssumption DEF IInv, TypeOK, Places, Pointers, TaskKinds
<1>2. alive /\ open /\ polled = fd /\ polled # NoFd /\ revents' = "none"
  BY ClientLoopAssumption DEF HandleError, Reported, IInv, EventInv, TypeOK
<1>3. /\ h \in Places
      /\ \A q \in Ptrs : h[q] = IF q = hello_task THEN "free" ELSE task[q]
  <2>1. /\ Drop(task, hello_task, Null) \in Places
        /\ \A q \in Ptrs : Drop(task, hello_task, Null)[q] =
                             IF q = hello_task /\ hello_task # Null THEN "free" ELSE task[q]
    BY <1>1, DropPlaces
  <2>2. h = Drop(task, hello_task, Null)
    BY DEF IntercomUninit
  <2> QED BY <1>1, <2>1, <2>2
<1>4. /\ u \in Places
      /\ \A q \in Ptrs : u[q] = IF initialized /\ q = close_task THEN "free" ELSE h[q]
  <2>1. initialized => close_task # Null
    BY <1>1 DEF IInv, TasksInv, Only
  <2> QED BY <1>1, <1>3, <2>1, UninitPlaces
<1>5. PICK x \in Posted(u, "reinit") : task' = x[1]
  BY DEF HandleError
<1>6. /\ fault' = (fault \/ IntercomUninitFault(task) \/ UninitFault(h, close_task))
      /\ initialized' = FALSE /\ alsafds' = FALSE /\ open' = FALSE
      /\ UNCHANGED <<hello_task, fd, said, close_task, format, polled, alive, stale, orphaned>>
  BY DEF HandleError, AlsaClosed, IInv, TypeOK, TasksInv
<1> HIDE DEF u
<1>7. /\ x[2] \in Ptrs /\ task' \in Places
      /\ \A q \in Ptrs : task'[q] = IF q = x[2] THEN "reinit" ELSE u[q]
  BY <1>1, <1>4, <1>5, PostedPlace
<1>8. /\ \A q \in Ptrs : u[q] # "close"
      /\ \A q \in Ptrs : u[q] # "hello"
      /\ \A q \in Ptrs : u[q] # "reinit"
      /\ \A q \in Ptrs : u[q] # "resume"
  BY <1>2, <1>3, <1>4 DEF IInv, TasksInv, Only
<1>9. TypeOK'
  BY <1>2, <1>6, <1>7 DEF IInv, TypeOK, Places
<1>10. TasksInv'
  <2>1. Only(task', "reinit", ~open', x[2])
    BY <1>6, <1>7, <1>8 DEF Only
  <2>2. Only(task', "resume", polled' = NoFd, x[2])
    BY <1>2, <1>6, <1>7, <1>8 DEF Only
  <2>3. \A q \in Ptrs : task'[q] # "close" /\ task'[q] # "hello"
    BY <1>7, <1>8
  <2> QED BY <1>6, <1>7, <2>1, <2>2, <2>3 DEF TasksInv, Only
<1>11. NoFault'
  <2> SUFFICES ASSUME ~stale PROVE ~fault'
    BY <1>6 DEF NoFault
  <2>1. hello_task \in Ptrs /\ task[hello_task] = "hello"
    BY <1>2 DEF IInv, TasksInv
  <2>2. ~IntercomUninitFault(task)
    BY <1>1, <2>1 DEF IntercomUninitFault
  <2>3. initialized => close_task \in Ptrs /\ h[close_task] = "close"
    BY <1>3, <2>1 DEF IInv, TasksInv, Only
  <2>4. ~UninitFault(h, close_task)
    BY <2>3 DEF UninitFault, Freed
  <2> QED BY <1>6, <2>2, <2>4 DEF IInv, NoFault
<1> QED BY <1>2, <1>6, <1>9, <1>10, <1>11 DEF IInv, EventInv

LEMMA HandleInvalidStep == ASSUME IInv, HandleInvalid PROVE IInv'
<1>1. task \in Places /\ "resume" \in TaskKinds
  BY DEF IInv, TypeOK, Places, TaskKinds
<1>2. PICK x \in Posted(task, "resume") : task' = x[1]
  BY DEF HandleInvalid
<1>3. /\ x[2] \in Ptrs /\ task[x[2]] = "free" /\ task' \in Places
      /\ \A q \in Ptrs : task'[q] = IF q = x[2] THEN "resume" ELSE task[q]
  BY <1>1, <1>2, PostedPlace
<1>4. /\ alive /\ polled = fd /\ polled # NoFd /\ polled' = NoFd /\ revents' = "none"
      /\ UNCHANGED <<connection, device, alive, fault, stale, orphaned>>
  BY ClientLoopAssumption DEF HandleInvalid, Reported, IInv, TypeOK
<1>5. TypeOK'
  BY <1>3, <1>4 DEF IInv, TypeOK, Places, connection, device
<1>6. TasksInv'
  <2>1. Only(task', "resume", polled' = NoFd, x[2])
    BY <1>3, <1>4 DEF IInv, TasksInv, Only
  <2>2. \A q \in Ptrs : /\ task'[q] = "hello" <=> task[q] = "hello"
                        /\ task'[q] = "close" <=> task[q] = "close"
                        /\ task'[q] = "reinit" <=> task[q] = "reinit"
    BY <1>3
  <2>3. Only(task', "close", initialized', close_task')
    BY <1>4, <2>2 DEF IInv, TasksInv, Only, device
  <2> QED BY <1>3, <1>4, <2>1, <2>2, <2>3, SameReinit DEF IInv, TasksInv, connection, device
<1> QED BY <1>4, <1>5, <1>6 DEF IInv, NoFault, EventInv

LEMMA HandleNothingStep == ASSUME IInv, HandleNothing PROVE IInv'
<1>1. TypeOK' /\ EventInv'
  BY DEF HandleNothing, Reported, IInv, TypeOK, EventInv, connection, device
<1>2. TasksInv'
  BY SameTasks DEF HandleNothing, connection, device
<1> QED BY <1>1, <1>2 DEF IInv, NoFault, HandleNothing

LEMMA HandleDeviceStep == ASSUME IInv, HandleDevice PROVE IInv'
<1>1. task \in Places /\ "decode" \in TaskKinds
  BY DEF IInv, TypeOK, Places, TaskKinds
<1>2. PICK x \in Posted(task, "decode") : task' = x[1]
  BY DEF HandleDevice
<1>3. /\ x[2] \in Ptrs /\ task[x[2]] = "free" /\ task' \in Places
      /\ \A q \in Ptrs : task'[q] = IF q = x[2] THEN "decode" ELSE task[q]
  BY <1>1, <1>2, PostedPlace
<1>4. ~Freed(task, close_task)
  BY DEF HandleDevice, IInv, TasksInv, Only, Freed
<1>5. fault' = fault /\ UNCHANGED <<connection, device, polled, revents, alive, stale, orphaned>>
  BY <1>4 DEF HandleDevice, IInv, TypeOK
<1>6. TypeOK'
  BY <1>3, <1>5 DEF IInv, TypeOK, Places, connection, device
<1>7. TasksInv'
  BY <1>3, <1>5, SameTasks DEF connection, device
<1> QED BY <1>5, <1>6, <1>7 DEF IInv, NoFault, EventInv, connection

LEMMA SigTermStep == ASSUME IInv, SigTerm PROVE IInv'
<1> DEFINE h == Drop(task, close_task, Null)
<1>1. /\ task \in Places /\ close_task \in Pointers /\ Null \in Pointers
      /\ initialized \in BOOLEAN /\ stale \in BOOLEAN /\ fault \in BOOLEAN
  BY DEF IInv, TypeOK, Places, Pointers
<1>2. /\ h \in Places
      /\ \A q \in Ptrs : h[q] = IF q = close_task THEN "free" ELSE task[q]
  BY <1>1, DropPlaces, ClientLoopAssumption
<1>3. Uninit(h, RemoveTask, Null) = h /\ ~UninitFault(h, RemoveTask)
  BY DEF Uninit, UninitFault, RemoveTask, Drop, Freed
<1>4. \A q \in Ptrs : h[q] # "close"
  BY <1>2 DEF IInv, TasksInv, Only
<1>5. /\ task' = h /\ close_task' = Null /\ alive' = FALSE
      /\ initialized' = FALSE /\ alsafds' = FALSE
      /\ fault' = (fault \/ Freed(task, close_task))
      /\ stale' = (stale \/ (~initialized /\ close_task # Null))
      /\ UNCHANGED <<connection, format, polled, revents, orphaned>>
  BY <1>3 DEF SigTerm, AlsaClosed, RemoveTask, IInv, TypeOK, TasksInv
<1> HIDE DEF h
<1>6. TypeOK'
  BY <1>1, <1>2, <1>5 DEF IInv, TypeOK, Places, Pointers, connection
<1>7. TasksInv'
  BY <1>4, <1>5 DEF TasksInv, Only
<1>8. NoFault'
  BY <1>1, <1>5 DEF IInv, NoFault, Freed, TasksInv, Only
<1> QED BY <1>5, <1>6, <1>7, <1>8 DEF IInv, EventInv

LEMMA StutterStep == ASSUME IInv, UNCHANGED vars PROVE IInv'
<1>1. TypeOK' /\ EventInv'
  BY DEF IInv, TypeOK, EventInv, vars, connection, device
<1>2. TasksInv'
  BY SameTasks DEF vars, connection, device
<1> QED BY <1>1, <1>2 DEF IInv, NoFault, vars

-----------------------------------------------------------------------------
LEMMA NextIInv == ASSUME IInv, [Next]_vars PROVE IInv'
<1>1. ASSUME NEW r \in Ptrs, RunTask(r) PROVE IInv'
  BY <1>1, SayHelloStep, ServerMovedStep, RunReinitStep, RunResumeStep, RunCloseStep,
     RunDecodeStep DEF RunTask
<1>2. CASE Handle
  BY <1>2, HandleAudioStep, HandleErrorStep, HandleInvalidStep, HandleNothingStep DEF Handle
<1> QED BY <1>1, <1>2, PollStep, HandleDeviceStep, SigTermStep, StutterStep DEF Next

(***************************************************************************)
(* However errors, changes of the server's address, format changes and     *)
(* tasks interleave: the open device has exactly one close task and        *)
(* close_task points to it, there is at most one hello task and one way    *)
(* back to the connection (ConnectionInv), exactly one task resumes        *)
(* polling while it is suspended (ResumeInv), and no freed task is used    *)
(* unless alsaplayer_remove_task was given a pointer that outlived its     *)
(* task (NoFault).                                                         *)
(***************************************************************************)
THEOREM LoopInvariant == Spec => []LoopInv
<1>1. Init => IInv
  BY InitIInv
<1>2. IInv /\ [Next]_vars => IInv'
  BY NextIInv
<1>3. IInv => LoopInv
  BY IInvImplies
<1> QED BY <1>1, <1>2, <1>3, PTL DEF Spec

(***************************************************************************)
(* The client's variables keep their types: every pointer names a place or *)
(* is NULL, every socket is a number.                                      *)
(***************************************************************************)
THEOREM LoopTypes == Spec => []TypeOK
<1>1. LoopInv => TypeOK
  BY DEF LoopInv
<1> QED BY <1>1, LoopInvariant, PTL

(***************************************************************************)
(* alsaplayer_init, alsaplayer_uninit and alsaplayer_uninit_task keep one  *)
(* close task for an open device and none for a closed one.                *)
(***************************************************************************)
THEOREM LoopDevice == Spec => []DeviceInv
<1>1. LoopInv => DeviceInv
  BY DEF LoopInv
<1> QED BY <1>1, LoopInvariant, PTL

(***************************************************************************)
(* hello_task, intercom_uninit and intercom_reinit never leave a client    *)
(* with two hello tasks, nor, until remove_task goes wrong, with neither a *)
(* hello task nor a pending intercom_reinit.                               *)
(***************************************************************************)
THEOREM LoopConnection == Spec => []ConnectionInv
<1>1. LoopInv => ConnectionInv
  BY DEF LoopInv
<1> QED BY <1>1, LoopInvariant, PTL

(***************************************************************************)
(* Freed tasks are used after alsaplayer_remove_task went wrong, and only  *)
(* then.                                                                   *)
(***************************************************************************)
THEOREM LoopNoFault == Spec => []NoFault
<1>1. LoopInv => NoFault
  BY DEF LoopInv
<1> QED BY <1>1, LoopInvariant, PTL

(***************************************************************************)
(* A client that has stopped polling its socket has one task that resumes  *)
(* it.                                                                     *)
(***************************************************************************)
THEOREM LoopResume == Spec => []ResumeInv
<1>1. LoopInv => ResumeInv
  BY DEF LoopInv
<1> QED BY <1>1, LoopInvariant, PTL
=============================================================================
