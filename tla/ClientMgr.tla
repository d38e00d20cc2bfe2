----------------------------- MODULE ClientMgr -----------------------------
(***************************************************************************)
(* The server's list of clients (clientmgr.c), with what the control       *)
(* socket does to it (socket.c) and the clients that say hello             *)
(* (hello_task of intercom_client.c).  Hellos are lost, but only MaxLost   *)
(* of them in a row; clients are started, stopped and restarted, and       *)
(* change their address.                                                   *)
(*                                                                         *)
(* Time is in steps of half a second and not a variable: a timer holds how *)
(* long it has left.  The clients of a stream are a set of records;        *)
(* RegisteredOnce is why no order is needed to tell which one is found     *)
(* first.  The purge task of a client is named by a pointer that its       *)
(* record holds.                                                           *)
(***************************************************************************)
EXTENDS Integers, FiniteSets, SequencesExt

CONSTANTS
  Ids,          \* client ids
  Addresses,    \* IP addresses clients may have
  Ports,        \* ports they may send from
  Volumes,      \* volume_percent
  NumStreams,   \* VECTOR_LEN(snapctx.streams)
  Name,         \* the name of each stream, a sequence of characters
  HelloEvery,   \* 1.5 s, between two hellos
  PurgeAfter,   \* 5 s, from the last hello until a client is purged
  MaxLost,      \* how many hellos in a row may be lost
  Pointers      \* bound: places for purge tasks

Streams == 1..NumStreams

ASSUME ClientMgrAssumption ==
  /\ NumStreams \in Nat \ {0} /\ Name \in [Streams -> Seq(Nat)]
  /\ HelloEvery \in Nat \ {0} /\ PurgeAfter \in Nat /\ MaxLost \in Nat
  /\ Volumes \subseteq 0..255

\* So many hellos are lost that a client that is there is not purged.
ASSUME ToleranceAssumption == (MaxLost + 1) * HelloEvery < PurgeAfter

VARIABLES
  clients,      \* s->clients of every stream
  tasks,        \* the pending purge tasks
  inst,         \* the client processes
  heard         \* history: where the last hello of each process came from, {}
                \* if there was none

server == <<clients, tasks>>
vars == <<clients, tasks, inst, heard>>

Task == [ptr : Pointers, id : Ids, left : 0..PurgeAfter]
Record == [id : Ids, ip : Addresses, port : Ports, volume : Volumes, muted : BOOLEAN,
           purge : Pointers]
Process == [up : BOOLEAN, ip : Addresses, port : Ports, volume : Volumes,
            timer : 0..HelloEvery, lost : 0..MaxLost]

\* find_client: the streams are searched in order.
Found(id) ==
  {x \in Streams \X UNION {clients[s] : s \in Streams} :
     x[2] \in clients[x[1]] /\ x[2].id = id}
FindClient(id) == {x \in Found(id) : \A y \in Found(id) : x[1] <= y[1]}

\* stream_find_name: the last stream whose name the given one begins with.
FindName(name) ==
  {s \in Streams : /\ IsPrefix(Name[s], name)
                   /\ \A r \in Streams : r > s => ~IsPrefix(Name[r], name)}

IsRoughly(a, b) == a - b \in -1..1

\* The volumes a client may have when it has been sent volume v: the packet may
\* be lost.
Sent(id, v) == {inst[id].volume, v}

-----------------------------------------------------------------------------
(* The server.                                                             *)

\* Mutant: the purge task of the old record is left behind.
DeleteKeepsTask(x) == [streams |-> [clients EXCEPT ![x[1]] = @ \ {x[2]}], tasks |-> tasks]

\* delete_client_internal
Delete(x) ==
  [streams |-> [clients EXCEPT ![x[1]] = @ \ {x[2]}],
   tasks |-> {t \in tasks : t.ptr # x[2].purge}]

\* new_client and stream_client_add: a client joins the first stream.
Create(id, from, cs, ts) ==
  \E p \in Pointers :
    /\ \A t \in ts : t.ptr # p
    /\ tasks' = ts \cup {[ptr |-> p, id |-> id, left |-> PurgeAfter]}
    /\ clients' = [cs EXCEPT ![1] = @ \cup
         {[id |-> id, ip |-> from.ip, port |-> from.port, volume |-> from.volume,
           muted |-> FALSE, purge |-> p]}]

\* Mutant: a hello does not prolong the registration.
NoReschedule(x) == tasks

\* reschedule_task, for the purge task of a client.
Reschedule(x) ==
  {IF t.ptr = x[2].purge THEN [t EXCEPT !.left = PurgeAfter] ELSE t : t \in tasks}

\* Mutant: every hello is that of a new client.
NewInstance(x, from) == TRUE

\* The hello does not come from the process the record was made for.
OtherInstance(x, from) == x[2].port # from.port

\* clientmgr_refresh_client.  The volume is pushed to a client that has another.
RefreshClient(id, from) ==
  \/ /\ FindClient(id) = {}
     /\ Create(id, from, clients, tasks)
     /\ inst' = [inst EXCEPT ![id].timer = HelloEvery, ![id].lost = 0]
  \/ \E x \in FindClient(id) :
       /\ OtherInstance(x, from)
       /\ Create(id, from, Delete(x).streams, Delete(x).tasks)
       /\ inst' = [inst EXCEPT ![id].timer = HelloEvery, ![id].lost = 0]
  \/ \E x \in FindClient(id) :
       /\ ~OtherInstance(x, from)
       /\ tasks' = Reschedule(x)
       /\ UNCHANGED clients
       /\ \E v \in IF IsRoughly(from.volume, x[2].volume) THEN {from.volume}
                                                          ELSE Sent(id, x[2].volume) :
            inst' = [inst EXCEPT ![id].timer = HelloEvery, ![id].lost = 0, ![id].volume = v]

\* Mutant: the task is run but the client stays.
RunPurgeNothing(t) ==
  /\ t.left = 0
  /\ tasks' = tasks \ {t}
  /\ UNCHANGED <<clients, inst, heard>>

\* schedule_delete_client, run by the task queue: drop_task leaves the task that
\* is running to the task queue.
RunPurge(t) ==
  /\ t.left = 0
  /\ \/ /\ FindClient(t.id) = {}
        /\ tasks' = tasks \ {t}
        /\ UNCHANGED clients
     \/ \E x \in FindClient(t.id) :
          /\ clients' = Delete(x).streams
          /\ tasks' = Delete(x).tasks \ {t}
  /\ UNCHANGED <<inst, heard>>

\* handle_client_setstream: nothing happens if the name of the present stream is
\* how that of the new one begins.
SetStream(id, name) ==
  /\ \E x \in FindClient(id), s \in FindName(name) :
       /\ ~IsPrefix(Name[x[1]], Name[s])
       /\ clients' = [clients EXCEPT ![s] = @ \cup {x[2]}, ![x[1]] = @ \ {x[2]}]
  /\ UNCHANGED <<tasks, inst, heard>>

\* handle_client_setvolume, for a volume object whose members "percent" and
\* "muted" are sets of one value, or none if the member is missing.  "muted" is
\* looked up only if there is no "percent".
SetVolume(id, percent, muted) ==
  /\ \E x \in FindClient(id) :
       \/ \E p \in percent :
            /\ clients' = [clients EXCEPT ![x[1]] =
                             (@ \ {x[2]}) \cup {[x[2] EXCEPT !.volume = p]}]
            /\ \E v \in Sent(id, p) : inst' = [inst EXCEPT ![id].volume = v]
       \/ \E m \in muted :
            /\ percent = {}
            /\ clients' = [clients EXCEPT ![x[1]] =
                             (@ \ {x[2]}) \cup {[x[2] EXCEPT !.muted = m]}]
            /\ UNCHANGED inst
  /\ UNCHANGED <<tasks, heard>>

-----------------------------------------------------------------------------
(* The clients.                                                            *)

\* hello_task: the hello arrives or is lost, and the next one is due later.
Hello(id) ==
  /\ inst[id].up /\ inst[id].timer = 0
  /\ heard' = [heard EXCEPT ![id] = {<<inst[id].ip, inst[id].port>>}]
  /\ RefreshClient(id, inst[id])

LoseHello(id) ==
  /\ inst[id].up /\ inst[id].timer = 0 /\ inst[id].lost < MaxLost
  /\ inst' = [inst EXCEPT ![id].timer = HelloEvery, ![id].lost = @ + 1]
  /\ UNCHANGED <<server, heard>>

Start(id, ip, port) ==
  /\ ~inst[id].up
  /\ inst' = [inst EXCEPT ![id] = [@ EXCEPT !.up = TRUE, !.ip = ip, !.port = port,
                                            !.timer = 0, !.lost = 0]]
  /\ UNCHANGED <<server, heard>>

Stop(id) ==
  /\ inst[id].up
  /\ inst' = [inst EXCEPT ![id].up = FALSE, ![id].timer = 0, ![id].lost = 0]
  /\ heard' = [heard EXCEPT ![id] = {}]
  /\ UNCHANGED server

\* The client is given another address; its socket keeps its port.
Roam(id, ip) ==
  /\ inst[id].up /\ ip # inst[id].ip
  /\ inst' = [inst EXCEPT ![id].ip = ip]
  /\ UNCHANGED <<server, heard>>

\* Half a second passes; what is due then is done before more time passes.
Tick ==
  /\ \A id \in Ids : inst[id].up => inst[id].timer > 0
  /\ \A t \in tasks : t.left > 0
  /\ inst' = [id \in Ids |-> IF inst[id].up THEN [inst[id] EXCEPT !.timer = @ - 1]
                                            ELSE inst[id]]
  /\ tasks' = {[t EXCEPT !.left = @ - 1] : t \in tasks}
  /\ UNCHANGED <<clients, heard>>

-----------------------------------------------------------------------------
Init ==
  /\ clients = [s \in Streams |-> {}]
  /\ tasks = {}
  /\ inst \in [Ids -> {p \in Process : ~p.up /\ p.timer = 0 /\ p.lost = 0
                                       /\ p.ip = (CHOOSE a \in Addresses : TRUE)
                                       /\ p.port = (CHOOSE a \in Ports : TRUE)}]
  /\ heard = [id \in Ids |-> {}]

Control(id) ==
  \/ \E s \in Streams : SetStream(id, Name[s])
  \/ \E v \in Volumes, m \in {{}, {TRUE}, {FALSE}} : SetVolume(id, {v}, m)
  \/ \E m \in BOOLEAN : SetVolume(id, {}, {m})

Next ==
  \/ \E id \in Ids : Hello(id)
  \/ \E id \in Ids : LoseHello(id)
  \/ \E id \in Ids, ip \in Addresses, port \in Ports : Start(id, ip, port)
  \/ \E id \in Ids : Stop(id)
  \/ \E id \in Ids, ip \in Addresses : Roam(id, ip)
  \/ \E t \in tasks : RunPurge(t)
  \/ \E id \in Ids : Control(id)
  \/ Tick

Spec == Init /\ [][Next]_vars

\* The main loops of server and clients run what is due; time passes.
FairSpec ==
  /\ Spec
  /\ WF_vars(Tick) /\ WF_vars(\E t \in tasks : RunPurge(t))
  /\ \A id \in Ids : WF_vars(Hello(id) \/ LoseHello(id))

-----------------------------------------------------------------------------
TypeOK ==
  /\ clients \in [Streams -> SUBSET Record]
  /\ tasks \subseteq Task
  /\ inst \in [Ids -> Process]
  /\ heard \in [Ids -> SUBSET (Addresses \X Ports)]

\* Every record, with the stream it is in.
Registered == {x \in Streams \X UNION {clients[s] : s \in Streams} : x[2] \in clients[x[1]]}

(***************************************************************************)
(* No client is in two streams or twice in one, whatever hellos, restarts, *)
(* purges and moves interleave.                                            *)
(***************************************************************************)
RegisteredOnce == \A x, y \in Registered : x[2].id = y[2].id => x = y

(***************************************************************************)
(* Records and purge tasks are paired off: purge_task always points to a   *)
(* pending task for that client, and no task is left over that would purge *)
(* a later instance of a client too early.                                 *)
(***************************************************************************)
PurgePaired ==
  /\ \A x \in Registered : \E t \in tasks : t.ptr = x[2].purge /\ t.id = x[2].id
  /\ \A t \in tasks : \E x \in Registered : t.ptr = x[2].purge /\ t.id = x[2].id
  /\ \A t, u \in tasks : t.ptr = u.ptr => t = u

(***************************************************************************)
(* The list of clients and the task queue are consistent.                  *)
(***************************************************************************)
RegistryInv == TypeOK /\ RegisteredOnce /\ PurgePaired

(***************************************************************************)
(* A client that is up and has been heard is on the list, as the instance  *)
(* it is, although hellos are lost (README.md, "servers maintain a list of *)
(* clients that have recently said hello").                                *)
(***************************************************************************)
StaysRegistered ==
  \A id \in Ids : heard[id] # {} =>
    \E x \in Registered : x[2].id = id /\ x[2].port = inst[id].port

(***************************************************************************)
(* The settings of a client that has been heard are changed by the control *)
(* socket only, never by a hello, a timer or what other clients do.        *)
(***************************************************************************)
SettingsKept ==
  [][\A id \in Ids : \A x \in Registered :
       /\ x[2].id = id /\ heard[id] # {} /\ heard'[id] # {}
       /\ ~Control(id)
       => x[2] \in clients'[x[1]]]_vars

(***************************************************************************)
(* A client that has gone is taken off the list.                           *)
(***************************************************************************)
GoneIsPurged ==
  \A id \in Ids : ~inst[id].up ~> (inst[id].up \/ \A x \in Registered : x[2].id # id)
=============================================================================
