------------------------- MODULE ClientMgr_proofs -------------------------
(***************************************************************************)
(* Proofs about ClientMgr, for any number of clients and streams.          *)
(*                                                                         *)
(* The invariant is stated for a list of clients cs and a set of tasks ts, *)
(* so that the lemmas on adding, deleting and changing a record apply to   *)
(* the intermediate values of RefreshClient as well.                       *)
(***************************************************************************)
EXTENDS ClientMgr, TLAPS

ListType(cs, ts) == cs \in [Streams -> SUBSET Record] /\ ts \subseteq Task

Once(cs) ==
  \A s, u \in Streams : \A r \in cs[s], q \in cs[u] : r.id = q.id => s = u /\ r = q

TaskOfRecord(cs, ts) ==
  \A s \in Streams : \A r \in cs[s] : \E t \in ts : t.ptr = r.purge /\ t.id = r.id

RecordOfTask(cs, ts) ==
  \A t \in ts : \E s \in Streams : \E r \in cs[s] : t.ptr = r.purge /\ t.id = r.id

OnePerPointer(ts) == \A t, u \in ts : t.ptr = u.ptr => t = u

Consistent(cs, ts) ==
  /\ ListType(cs, ts) /\ Once(cs)
  /\ TaskOfRecord(cs, ts) /\ RecordOfTask(cs, ts) /\ OnePerPointer(ts)

Absent(cs, id) == \A s \in Streams : \A r \in cs[s] : r.id # id

-----------------------------------------------------------------------------
(* What the invariants and find_client say, record by record.              *)

\* A member of Registered is a stream and a record in its list.
LEMMA RegisteredMember ==
  ASSUME NEW x, x \in Registered
  PROVE  x = <<x[1], x[2]>> /\ x[1] \in Streams /\ x[2] \in clients[x[1]]
BY DEF Registered

\* A record in the list of a stream is a member of Registered.
LEMMA MemberRegistered ==
  ASSUME NEW s \in Streams, NEW r \in clients[s]
  PROVE  <<s, r>> \in Registered
BY DEF Registered

\* RegistryInv is Consistent, with the types of the processes.
LEMMA ConsistentIsRegistryInv ==
  RegistryInv <=> TypeOK /\ Consistent(clients, tasks)
<1>1. ASSUME RegistryInv PROVE Consistent(clients, tasks)
  <2>1. ListType(clients, tasks)
    BY <1>1 DEF RegistryInv, TypeOK, ListType
  <2>2. Once(clients)
    <3> SUFFICES ASSUME NEW s \in Streams, NEW u \in Streams, NEW r \in clients[s],
                        NEW q \in clients[u], r.id = q.id
                 PROVE  s = u /\ r = q
      BY DEF Once
    <3>1. <<s, r>> \in Registered /\ <<u, q>> \in Registered
      BY MemberRegistered
    <3>2. <<s, r>> = <<u, q>>
      BY <1>1, <3>1 DEF RegistryInv, RegisteredOnce
    <3> QED BY <3>2
  <2>3. TaskOfRecord(clients, tasks)
    <3> SUFFICES ASSUME NEW s \in Streams, NEW r \in clients[s]
                 PROVE  \E t \in tasks : t.ptr = r.purge /\ t.id = r.id
      BY DEF TaskOfRecord
    <3>1. <<s, r>> \in Registered
      BY MemberRegistered
    <3>2. PICK t \in tasks : t.ptr = <<s, r>>[2].purge /\ t.id = <<s, r>>[2].id
      BY <1>1, <3>1 DEF RegistryInv, PurgePaired
    <3> QED BY <3>2
  <2>4. RecordOfTask(clients, tasks)
    <3> SUFFICES ASSUME NEW t \in tasks
                 PROVE  \E s \in Streams : \E r \in clients[s] : t.ptr = r.purge /\ t.id = r.id
      BY DEF RecordOfTask
    <3>1. PICK x \in Registered : t.ptr = x[2].purge /\ t.id = x[2].id
      BY <1>1 DEF RegistryInv, PurgePaired
    <3> QED BY <3>1, RegisteredMember
  <2>5. OnePerPointer(tasks)
    BY <1>1 DEF RegistryInv, PurgePaired, OnePerPointer
  <2> QED BY <2>1, <2>2, <2>3, <2>4, <2>5 DEF Consistent
<1>2. ASSUME TypeOK, Consistent(clients, tasks) PROVE RegistryInv
  <2>1. RegisteredOnce
    <3> SUFFICES ASSUME NEW x \in Registered, NEW y \in Registered, x[2].id = y[2].id
                 PROVE  x = y
      BY DEF RegisteredOnce
    <3>1. x[1] = y[1] /\ x[2] = y[2]
      BY <1>2, RegisteredMember DEF Consistent, Once
    <3> QED BY <3>1, RegisteredMember
  <2>2. ASSUME NEW x \in Registered
        PROVE  \E t \in tasks : t.ptr = x[2].purge /\ t.id = x[2].id
    BY <1>2, RegisteredMember DEF Consistent, TaskOfRecord
  <2>3. ASSUME NEW t \in tasks
        PROVE  \E x \in Registered : t.ptr = x[2].purge /\ t.id = x[2].id
    <3>1. PICK s \in Streams : \E r \in clients[s] : t.ptr = r.purge /\ t.id = r.id
      BY <1>2 DEF Consistent, RecordOfTask
    <3>2. PICK r \in clients[s] : t.ptr = r.purge /\ t.id = r.id
      BY <3>1
    <3>3. t.ptr = <<s, r>>[2].purge /\ t.id = <<s, r>>[2].id
      BY <3>2
    <3> QED BY <3>3, MemberRegistered
  <2>4. \A t, u \in tasks : t.ptr = u.ptr => t = u
    BY <1>2 DEF Consistent, OnePerPointer
  <2> QED BY <1>2, <2>1, <2>2, <2>3, <2>4 DEF RegistryInv, PurgePaired
<1>3. RegistryInv => TypeOK
  BY DEF RegistryInv
<1> QED BY <1>1, <1>2, <1>3

\* What find_client finds is a record with the id that was asked for.
LEMMA FindClientFinds ==
  ASSUME NEW id, NEW x \in FindClient(id)
  PROVE  x = <<x[1], x[2]>> /\ x[1] \in Streams /\ x[2] \in clients[x[1]] /\ x[2].id = id
BY DEF FindClient, Found

\* If there is a record find_client finds one.
LEMMA FindClientMisses ==
  ASSUME NEW id, Once(clients), FindClient(id) = {}
  PROVE  Absent(clients, id)
<1> SUFFICES ASSUME NEW s \in Streams, NEW r \in clients[s], r.id = id
             PROVE  FALSE
  BY DEF Absent
<1>1. <<s, r>> \in Found(id)
  BY DEF Found
<1>2. ASSUME NEW y \in Found(id) PROVE s <= y[1]
  <2>1. y[1] \in Streams /\ y[2] \in clients[y[1]] /\ y[2].id = id
    BY DEF Found
  <2>2. s = y[1]
    BY <2>1 DEF Once
  <2> QED BY <2>2, ClientMgrAssumption DEF Streams
<1>3. <<s, r>> \in FindClient(id)
  BY <1>1, <1>2 DEF FindClient
<1> QED BY <1>3

-----------------------------------------------------------------------------
(* What the operations on the list do to Consistent.                       *)

\* delete_client_internal: record and task go together.
LEMMA DeleteConsistent ==
  ASSUME NEW cs, NEW ts, Consistent(cs, ts), NEW s \in Streams, NEW r \in cs[s]
  PROVE  /\ Consistent([cs EXCEPT ![s] = @ \ {r}], {t \in ts : t.ptr # r.purge})
         /\ Absent([cs EXCEPT ![s] = @ \ {r}], r.id)
<1> DEFINE ds == [cs EXCEPT ![s] = @ \ {r}]
           us == {t \in ts : t.ptr # r.purge}
<1>1. /\ \A v \in Streams : \A q \in ds[v] : q \in cs[v] /\ ~(v = s /\ q = r)
      /\ \A v \in Streams : \A q \in cs[v] : q \in ds[v] \/ (v = s /\ q = r)
      /\ ds \in [Streams -> SUBSET Record]
  BY DEF Consistent, ListType
<1>2. us \subseteq ts /\ \A t \in ts : t.ptr # r.purge => t \in us
  OBVIOUS
<1> HIDE DEF ds
<1>3. ListType(ds, us)
  BY <1>1 DEF Consistent, ListType
<1>4. Once(ds)
  BY <1>1 DEF Consistent, Once
<1>5. TaskOfRecord(ds, us)
  <2> SUFFICES ASSUME NEW v \in Streams, NEW q \in ds[v]
               PROVE  \E t \in us : t.ptr = q.purge /\ t.id = q.id
    BY DEF TaskOfRecord
  <2>1. PICK t \in ts : t.ptr = q.purge /\ t.id = q.id
    BY <1>1 DEF Consistent, TaskOfRecord
  <2>2. PICK u \in ts : u.ptr = r.purge /\ u.id = r.id
    BY DEF Consistent, TaskOfRecord
  <2>3. ~(v = s /\ q = r) /\ q \in cs[v]
    BY <1>1
  <2>4. q.id # r.id
    BY <2>3 DEF Consistent, Once
  <2>5. t.ptr # r.purge
    BY <2>1, <2>2, <2>4 DEF Consistent, OnePerPointer
  <2> QED BY <2>1, <2>5
<1>6. RecordOfTask(ds, us)
  <2> SUFFICES ASSUME NEW t \in us
               PROVE  \E v \in Streams : \E q \in ds[v] : t.ptr = q.purge /\ t.id = q.id
    BY DEF RecordOfTask
  <2>1. PICK v \in Streams : \E q \in cs[v] : t.ptr = q.purge /\ t.id = q.id
    BY DEF Consistent, RecordOfTask
  <2>2. PICK q \in cs[v] : t.ptr = q.purge /\ t.id = q.id
    BY <2>1
  <2>3. q # r
    BY <2>2
  <2> QED BY <1>1, <2>2, <2>3
<1>7. OnePerPointer(us)
  BY DEF Consistent, OnePerPointer
<1>8. Absent(ds, r.id)
  BY <1>1 DEF Consistent, Once, Absent
<1> QED BY <1>3, <1>4, <1>5, <1>6, <1>7, <1>8 DEF Consistent, ds

\* new_client and stream_client_add: a client that is not on the list is added
\* with a task of its own.
LEMMA AddConsistent ==
  ASSUME NEW cs, NEW ts, Consistent(cs, ts), NEW r \in Record, Absent(cs, r.id),
         NEW t \in Task, t.ptr = r.purge, t.id = r.id, \A u \in ts : u.ptr # t.ptr
  PROVE  Consistent([cs EXCEPT ![1] = @ \cup {r}], ts \cup {t})
<1> DEFINE ds == [cs EXCEPT ![1] = @ \cup {r}]
           us == ts \cup {t}
<1>0. 1 \in Streams
  BY ClientMgrAssumption DEF Streams
<1>1. /\ \A v \in Streams : \A q \in ds[v] : q \in cs[v] \/ (v = 1 /\ q = r)
      /\ \A v \in Streams : \A q \in cs[v] : q \in ds[v]
      /\ r \in ds[1]
      /\ ds \in [Streams -> SUBSET Record]
  BY <1>0 DEF Consistent, ListType
<1> HIDE DEF ds
<1>3. ListType(ds, us)
  BY <1>1 DEF Consistent, ListType
<1>4. Once(ds)
  BY <1>1 DEF Consistent, Once, Absent
<1>5. TaskOfRecord(ds, us)
  BY <1>1 DEF Consistent, TaskOfRecord
<1>6. RecordOfTask(ds, us)
  BY <1>0, <1>1 DEF Consistent, RecordOfTask
<1>7. OnePerPointer(us)
  BY DEF Consistent, OnePerPointer
<1> QED BY <1>3, <1>4, <1>5, <1>6, <1>7 DEF Consistent, ds

\* A record is replaced by one of the same client, in the same stream or another:
\* its task stays its task.
LEMMA ReplaceConsistent ==
  ASSUME NEW cs, NEW ts, Consistent(cs, ts), NEW s \in Streams, NEW r \in cs[s],
         NEW u \in Streams, NEW q \in Record, q.id = r.id, q.purge = r.purge,
         NEW ds \in [Streams -> SUBSET Record],
         \A v \in Streams : \A p \in ds[v] :
            (p \in cs[v] /\ ~(v = s /\ p = r)) \/ (v = u /\ p = q),
         \A v \in Streams : \A p \in cs[v] : p \in ds[v] \/ (v = s /\ p = r),
         q \in ds[u]
  PROVE  Consistent(ds, ts)
<1>1. ListType(ds, ts)
  BY DEF Consistent, ListType
<1>2. Once(ds)
  BY DEF Consistent, Once
<1>3. TaskOfRecord(ds, ts)
  BY DEF Consistent, TaskOfRecord
<1>4. RecordOfTask(ds, ts)
  BY DEF Consistent, RecordOfTask
<1> QED BY <1>1, <1>2, <1>3, <1>4 DEF Consistent

\* Tasks are given another time, and nothing else.
LEMMA RetimeConsistent ==
  ASSUME NEW cs, NEW ts, Consistent(cs, ts), NEW us, us \subseteq Task,
         \A t \in ts : \E u \in us : u.ptr = t.ptr /\ u.id = t.id,
         \A u \in us : \E t \in ts : u.ptr = t.ptr /\ u.id = t.id,
         OnePerPointer(us)
  PROVE  Consistent(cs, us)
<1>1. ListType(cs, us)
  BY DEF Consistent, ListType
<1>2. TaskOfRecord(cs, us)
  <2> SUFFICES ASSUME NEW s \in Streams, NEW r \in cs[s]
               PROVE  \E t \in us : t.ptr = r.purge /\ t.id = r.id
    BY DEF TaskOfRecord
  <2>1. PICK t \in ts : t.ptr = r.purge /\ t.id = r.id
    BY DEF Consistent, TaskOfRecord
  <2> QED BY <2>1
<1>3. RecordOfTask(cs, us)
  <2> SUFFICES ASSUME NEW u \in us
               PROVE  \E s \in Streams : \E r \in cs[s] : u.ptr = r.purge /\ u.id = r.id
    BY DEF RecordOfTask
  <2>1. PICK t \in ts : u.ptr = t.ptr /\ u.id = t.id
    OBVIOUS
  <2> QED BY <2>1 DEF Consistent, RecordOfTask
<1> QED BY <1>1, <1>2, <1>3 DEF Consistent

-----------------------------------------------------------------------------
(* The inductive invariant.                                                *)

\* How long a client that has lost l hellos in a row may go on losing them.
Slack(l) == (MaxLost - l) * HelloEvery

(***************************************************************************)
(* A client that has been heard is up and on the list as the instance it   *)
(* is, and will be heard again before its purge task is due.               *)
(***************************************************************************)
Kept ==
  \A id \in Ids : heard[id] # {} =>
     /\ inst[id].up
     /\ \E s \in Streams : \E r \in clients[s] : r.id = id /\ r.port = inst[id].port
     /\ \A t \in tasks : t.id = id => t.left > inst[id].timer + Slack(inst[id].lost)

IInv == TypeOK /\ Consistent(clients, tasks) /\ Kept

\* Each hello that is lost takes HelloEvery of the slack; with all of it left the
\* purge task is further away.
LEMMA SlackFacts ==
  /\ \A l \in 0..MaxLost : Slack(l) \in Nat
  /\ \A l \in 0..MaxLost : l < MaxLost => Slack(l) = HelloEvery + Slack(l + 1)
  /\ HelloEvery + Slack(0) < PurgeAfter
<1>1. MaxLost \in Nat /\ HelloEvery \in Nat /\ PurgeAfter \in Nat
  BY ClientMgrAssumption
<1>2. \A k \in Nat : k * HelloEvery \in Nat /\ (k + 1) * HelloEvery = HelloEvery + k * HelloEvery
  BY <1>1
<1>3. ASSUME NEW l \in 0..MaxLost PROVE Slack(l) \in Nat
  <2>1. MaxLost - l \in Nat
    BY <1>1
  <2> QED BY <1>2, <2>1 DEF Slack
<1>4. ASSUME NEW l \in 0..MaxLost, l < MaxLost PROVE Slack(l) = HelloEvery + Slack(l + 1)
  <2>1. MaxLost - (l + 1) \in Nat /\ MaxLost - l = (MaxLost - (l + 1)) + 1
    BY <1>1, <1>4
  <2> QED BY <1>2, <2>1 DEF Slack
<1>5. HelloEvery + Slack(0) < PurgeAfter
  <2>1. MaxLost - 0 = MaxLost
    BY <1>1
  <2> QED BY <1>1, <1>2, <2>1, ToleranceAssumption DEF Slack
<1> QED BY <1>3, <1>4, <1>5

\* A task that is due is not the purge task of a client that has been heard.
LEMMA DueIsNotHeard ==
  ASSUME IInv, NEW t \in tasks, t.left = 0
  PROVE  t.id \in Ids /\ heard[t.id] = {}
<1>1. t.id \in Ids
  BY DEF IInv, TypeOK, Task
<1>2. SUFFICES ASSUME heard[t.id] # {} PROVE FALSE
  BY <1>1
<1>3. inst[t.id].timer \in Nat /\ inst[t.id].lost \in 0..MaxLost
  BY <1>1, ClientMgrAssumption DEF IInv, TypeOK, Process
<1>4. t.left > inst[t.id].timer + Slack(inst[t.id].lost)
  BY <1>1, <1>2 DEF IInv, Kept
<1> HIDE DEF IInv
<1> QED BY <1>3, <1>4, SlackFacts

\* The types of what a client process says hello with.
LEMMA ProcessType ==
  ASSUME TypeOK, NEW id \in Ids
  PROVE  /\ inst[id] \in Process /\ inst[id].ip \in Addresses /\ inst[id].port \in Ports
         /\ inst[id].volume \in Volumes /\ inst[id].up \in BOOLEAN
         /\ inst[id].timer \in 0..HelloEvery /\ inst[id].lost \in 0..MaxLost
BY DEF TypeOK, Process

\* new_client on a list without the client.
LEMMA CreateConsistent ==
  ASSUME TypeOK, NEW id \in Ids, NEW cs, NEW ts, Consistent(cs, ts), Absent(cs, id),
         Create(id, inst[id], cs, ts)
  PROVE  /\ Consistent(clients', tasks')
         /\ \A s \in Streams : \A r \in cs[s] : r \in clients'[s]
         /\ \E s \in Streams : \E r \in clients'[s] : r.id = id /\ r.port = inst[id].port
         /\ \A t \in tasks' : t \in ts \/ (t.id = id /\ t.left = PurgeAfter)
<1>1. PICK p \in Pointers :
        /\ \A t \in ts : t.ptr # p
        /\ tasks' = ts \cup {[ptr |-> p, id |-> id, left |-> PurgeAfter]}
        /\ clients' = [cs EXCEPT ![1] = @ \cup
             {[id |-> id, ip |-> inst[id].ip, port |-> inst[id].port,
               volume |-> inst[id].volume, muted |-> FALSE, purge |-> p]}]
  BY DEF Create
<1> DEFINE r == [id |-> id, ip |-> inst[id].ip, port |-> inst[id].port,
                 volume |-> inst[id].volume, muted |-> FALSE, purge |-> p]
           t == [ptr |-> p, id |-> id, left |-> PurgeAfter]
<1>2. r \in Record
  BY ProcessType DEF Record
<1>3. t \in Task
  BY ClientMgrAssumption DEF Task
<1>4. /\ r.id = id /\ r.port = inst[id].port /\ r.purge = p
      /\ t.ptr = p /\ t.id = id /\ t.left = PurgeAfter
  OBVIOUS
<1>5. tasks' = ts \cup {t} /\ clients' = [cs EXCEPT ![1] = @ \cup {r}]
  BY <1>1
<1>6. \A u \in ts : u.ptr # p
  BY <1>1
<1> HIDE DEF r, t
<1>7. Consistent(clients', tasks')
  BY <1>2, <1>3, <1>4, <1>5, <1>6, AddConsistent
<1>8. 1 \in Streams /\ cs \in [Streams -> SUBSET Record]
  BY ClientMgrAssumption DEF Streams, Consistent, ListType
<1>9. \A s \in Streams : \A q \in cs[s] : q \in clients'[s]
  BY <1>5, <1>8
<1>10. r \in clients'[1]
  BY <1>5, <1>8
<1> QED BY <1>4, <1>5, <1>7, <1>8, <1>9, <1>10

-----------------------------------------------------------------------------
(* The hello of a client.                                                  *)

\* A process that was heard just now has all of its slack.
HeardNow(id) ==
  /\ inst' \in [Ids -> Process]
  /\ inst'[id].up = inst[id].up /\ inst'[id].port = inst[id].port
  /\ inst'[id].timer = HelloEvery /\ inst'[id].lost = 0
  /\ \A j \in Ids \ {id} : inst'[j] = inst[j]

\* What RefreshClient does to the record of the client and to the others.
Refreshed(id) ==
  /\ \E s \in Streams : \E r \in clients'[s] : r.id = id /\ r.port = inst[id].port
  /\ \A t \in tasks' : t.id = id => t.left = PurgeAfter
  /\ \A t \in tasks' : t.id # id => t \in tasks
  /\ \A s \in Streams : \A r \in clients[s] :
       r.id # id \/ r.port = inst[id].port => r \in clients'[s]

\* Tasks and records have the same clients.
LEMMA NoTaskWhenAbsent ==
  ASSUME NEW cs, NEW ts, Consistent(cs, ts), NEW id, Absent(cs, id)
  PROVE  \A t \in ts : t.id # id
BY DEF Consistent, RecordOfTask, Absent

\* Writing the old volume changes nothing.
LEMMA SameVolume ==
  ASSUME NEW p \in Process, NEW t, NEW l
  PROVE  [p EXCEPT !.timer = t, !.lost = l] = [p EXCEPT !.timer = t, !.lost = l, !.volume = p.volume]
BY DEF Process

\* The new time of one process changes nothing else of it, nor the other ones.
LEMMA HeardNowVolume ==
  ASSUME TypeOK, NEW id \in Ids, NEW v \in Volumes,
         inst' = [inst EXCEPT ![id].timer = HelloEvery, ![id].lost = 0, ![id].volume = v]
  PROVE  HeardNow(id)
<1>1. 0 \in 0..MaxLost /\ HelloEvery \in 0..HelloEvery
  BY ClientMgrAssumption
<1>2. inst'[id] = [inst[id] EXCEPT !.timer = HelloEvery, !.lost = 0, !.volume = v]
  BY DEF TypeOK
<1>3. inst[id] \in Process
  BY ProcessType
<1>4. /\ inst'[id] \in Process
      /\ inst'[id].up = inst[id].up /\ inst'[id].port = inst[id].port
      /\ inst'[id].timer = HelloEvery /\ inst'[id].lost = 0
  <2> DEFINE q == inst'[id]
  <2>1. q = [inst[id] EXCEPT !.timer = HelloEvery, !.lost = 0, !.volume = v]
    BY <1>2
  <2> HIDE DEF q
  <2>2. /\ q \in Process
        /\ q.up = inst[id].up /\ q.port = inst[id].port
        /\ q.timer = HelloEvery /\ q.lost = 0
    <3> DEFINE p == inst[id]
    <3>1. p \in Process /\ q = [p EXCEPT !.timer = HelloEvery, !.lost = 0, !.volume = v]
      BY <1>3, <2>1
    <3> HIDE DEF p
    <3>2. /\ q \in Process
          /\ q.up = p.up /\ q.port = p.port /\ q.timer = HelloEvery /\ q.lost = 0
      BY <1>1, <3>1 DEF Process
    <3> QED BY <3>2 DEF p
  <2> QED BY <2>2 DEF q
<1>5. \A j \in Ids \ {id} : inst'[j] = inst[j]
  BY DEF TypeOK
<1>6. inst' \in [Ids -> Process]
  BY <1>4, <1>5 DEF TypeOK
<1> QED BY <1>4, <1>5, <1>6 DEF HeardNow

\* The same for a client whose volume is left alone.
LEMMA HeardNowCreate ==
  ASSUME TypeOK, NEW id \in Ids,
         inst' = [inst EXCEPT ![id].timer = HelloEvery, ![id].lost = 0]
  PROVE  HeardNow(id)
<1>1. inst[id] \in Process /\ inst[id].volume \in Volumes
  BY ProcessType
<1>2. inst' = [inst EXCEPT ![id] = [inst[id] EXCEPT !.timer = HelloEvery, !.lost = 0]]
  BY DEF TypeOK
<1>3. [inst[id] EXCEPT !.timer = HelloEvery, !.lost = 0]
        = [inst[id] EXCEPT !.timer = HelloEvery, !.lost = 0, !.volume = inst[id].volume]
  BY <1>1, SameVolume
<1>4. inst' = [inst EXCEPT ![id].timer = HelloEvery, ![id].lost = 0,
                           ![id].volume = inst[id].volume]
  BY <1>2, <1>3 DEF TypeOK
<1> QED BY <1>1, <1>4, HeardNowVolume

\* Delete is delete_client_internal on a record that find_client has found.
LEMMA DeleteFound ==
  ASSUME Consistent(clients, tasks), NEW id, NEW x \in FindClient(id)
  PROVE  /\ Consistent(Delete(x).streams, Delete(x).tasks)
         /\ Absent(Delete(x).streams, id)
         /\ \A s \in Streams : \A r \in clients[s] : r.id # id => r \in Delete(x).streams[s]
         /\ Delete(x).tasks \subseteq tasks
<1>1. x[1] \in Streams /\ x[2] \in clients[x[1]] /\ x[2].id = id
  BY FindClientFinds
<1>2. /\ Delete(x).streams = [clients EXCEPT ![x[1]] = @ \ {x[2]}]
      /\ Delete(x).tasks = {t \in tasks : t.ptr # x[2].purge}
  BY DEF Delete
<1>3. /\ Consistent(Delete(x).streams, Delete(x).tasks)
      /\ Absent(Delete(x).streams, id)
  BY <1>1, <1>2, DeleteConsistent
<1>4. \A s \in Streams : \A r \in clients[s] : r.id # id => r \in Delete(x).streams[s]
  BY <1>1, <1>2 DEF Consistent, ListType
<1> QED BY <1>2, <1>3, <1>4

\* clientmgr_refresh_client, in its three cases.
LEMMA RefreshClientRefreshes ==
  ASSUME IInv, NEW id \in Ids, RefreshClient(id, inst[id])
  PROVE  Consistent(clients', tasks') /\ HeardNow(id) /\ Refreshed(id)
<1> USE DEF IInv
<1>1. CASE /\ FindClient(id) = {}
           /\ Create(id, inst[id], clients, tasks)
           /\ inst' = [inst EXCEPT ![id].timer = HelloEvery, ![id].lost = 0]
  <2>1. HeardNow(id)
    BY <1>1, HeardNowCreate
  <2>2. Absent(clients, id)
    BY <1>1, FindClientMisses DEF Consistent
  <2>3. \A t \in tasks : t.id # id
    BY <2>2, NoTaskWhenAbsent
  <2>4. /\ Consistent(clients', tasks')
        /\ \A s \in Streams : \A r \in clients[s] : r \in clients'[s]
        /\ \E s \in Streams : \E r \in clients'[s] : r.id = id /\ r.port = inst[id].port
        /\ \A t \in tasks' : t \in tasks \/ (t.id = id /\ t.left = PurgeAfter)
    BY <1>1, <2>2, CreateConsistent
  <2>5. Refreshed(id)
    BY <2>3, <2>4 DEF Refreshed
  <2> QED BY <2>1, <2>4, <2>5
<1>2. ASSUME NEW x \in FindClient(id), OtherInstance(x, inst[id]),
             Create(id, inst[id], Delete(x).streams, Delete(x).tasks),
             inst' = [inst EXCEPT ![id].timer = HelloEvery, ![id].lost = 0]
      PROVE  Consistent(clients', tasks') /\ HeardNow(id) /\ Refreshed(id)
  <2>1. HeardNow(id)
    BY <1>2, HeardNowCreate
  <2>2. /\ Consistent(Delete(x).streams, Delete(x).tasks)
        /\ Absent(Delete(x).streams, id)
        /\ \A s \in Streams : \A r \in clients[s] : r.id # id => r \in Delete(x).streams[s]
        /\ Delete(x).tasks \subseteq tasks
    BY DeleteFound
  <2>3. \A t \in Delete(x).tasks : t.id # id
    BY <2>2, NoTaskWhenAbsent
  <2>4. /\ Consistent(clients', tasks')
        /\ \A s \in Streams : \A r \in Delete(x).streams[s] : r \in clients'[s]
        /\ \E s \in Streams : \E r \in clients'[s] : r.id = id /\ r.port = inst[id].port
        /\ \A t \in tasks' : t \in Delete(x).tasks \/ (t.id = id /\ t.left = PurgeAfter)
    BY <1>2, <2>2, CreateConsistent
  <2>5. ASSUME NEW s \in Streams, NEW r \in clients[s], r.id # id \/ r.port = inst[id].port
        PROVE  r \in clients'[s]
    <3>1. x[1] \in Streams /\ x[2] \in clients[x[1]] /\ x[2].id = id
      BY FindClientFinds
    <3>2. r.id # id
      BY <1>2, <2>5, <3>1 DEF Consistent, Once, OtherInstance
    <3> QED BY <2>2, <2>4, <3>2
  <2>6. Refreshed(id)
    BY <2>2, <2>3, <2>4, <2>5 DEF Refreshed
  <2> QED BY <2>1, <2>4, <2>6
<1>3. ASSUME NEW x \in FindClient(id), ~OtherInstance(x, inst[id]), tasks' = Reschedule(x),
             clients' = clients,
             NEW v \in IF IsRoughly(inst[id].volume, x[2].volume) THEN {inst[id].volume}
                                                                  ELSE Sent(id, x[2].volume),
             inst' = [inst EXCEPT ![id].timer = HelloEvery, ![id].lost = 0, ![id].volume = v]
      PROVE  Consistent(clients', tasks') /\ HeardNow(id) /\ Refreshed(id)
  <2>1. /\ x[1] \in Streams /\ x[2] \in clients[x[1]] /\ x[2].id = id
        /\ x[2].port = inst[id].port
    BY <1>3, FindClientFinds DEF OtherInstance
  <2>2. x[2] \in Record
    BY <2>1 DEF TypeOK
  <2>3. v \in Volumes
    BY <2>2, ProcessType DEF Sent, Record
  <2>4. HeardNow(id)
    BY <1>3, <2>3, HeardNowVolume
  <2>5. \A t \in tasks : t \in Task /\ [t EXCEPT !.left = PurgeAfter] \in Task
    BY ClientMgrAssumption DEF TypeOK, Task
  <2>6. \A t \in tasks : /\ [t EXCEPT !.left = PurgeAfter].ptr = t.ptr
                         /\ [t EXCEPT !.left = PurgeAfter].id = t.id
                         /\ [t EXCEPT !.left = PurgeAfter].left = PurgeAfter
    BY <2>5 DEF Task
  <2> DEFINE New(t) == IF t.ptr = x[2].purge THEN [t EXCEPT !.left = PurgeAfter] ELSE t
  <2>7. tasks' = {New(t) : t \in tasks}
    BY <1>3 DEF Reschedule
  <2>8. \A t \in tasks : /\ New(t) \in Task /\ New(t).ptr = t.ptr /\ New(t).id = t.id
                         /\ t.ptr = x[2].purge => New(t).left = PurgeAfter
                         /\ t.ptr # x[2].purge => New(t) = t
    BY <2>5, <2>6
  <2> HIDE DEF New
  <2>9. OnePerPointer(tasks')
    BY <2>7, <2>8 DEF OnePerPointer, Consistent
  <2>10. tasks' \subseteq Task
    BY <2>7, <2>8
  <2>11. \A t \in tasks : \E u \in tasks' : u.ptr = t.ptr /\ u.id = t.id
    BY <2>7, <2>8
  <2>12. \A u \in tasks' : \E t \in tasks : u.ptr = t.ptr /\ u.id = t.id
    BY <2>7, <2>8
  <2>13. Consistent(clients', tasks')
    BY <1>3, <2>9, <2>10, <2>11, <2>12, RetimeConsistent
  <2>14. ASSUME NEW t \in tasks, t.id = id PROVE t.ptr = x[2].purge
    <3>1. PICK s \in Streams : \E r \in clients[s] : t.ptr = r.purge /\ t.id = r.id
      BY DEF Consistent, RecordOfTask
    <3>2. PICK r \in clients[s] : t.ptr = r.purge /\ t.id = r.id
      BY <3>1
    <3>3. r = x[2]
      BY <2>1, <2>14, <3>2 DEF Consistent, Once
    <3> QED BY <3>2, <3>3
  <2>15. ASSUME NEW t \in tasks, t.id # id PROVE t.ptr # x[2].purge
    <3>1. PICK u \in tasks : u.ptr = x[2].purge /\ u.id = x[2].id
      BY <2>1 DEF Consistent, TaskOfRecord
    <3> QED BY <2>1, <2>15, <3>1 DEF Consistent, OnePerPointer
  <2>16. \A t \in tasks' : t.id = id => t.left = PurgeAfter
    BY <2>7, <2>8, <2>14
  <2>17. \A t \in tasks' : t.id # id => t \in tasks
    BY <2>7, <2>8, <2>15
  <2>18. Refreshed(id)
    BY <1>3, <2>1, <2>16, <2>17 DEF Refreshed
  <2> QED BY <2>4, <2>13, <2>18
<1> QED BY <1>1, <1>2, <1>3 DEF RefreshClient

-----------------------------------------------------------------------------
(* One lemma per action.                                                   *)

LEMMA InitIInv == Init => IInv
<1> SUFFICES ASSUME Init PROVE IInv
  OBVIOUS
<1>1. TypeOK
  BY DEF Init, TypeOK
<1>2. Consistent(clients, tasks)
  BY DEF Init, Consistent, ListType, Once, TaskOfRecord, RecordOfTask, OnePerPointer
<1>3. Kept
  BY DEF Init, Kept
<1> QED BY <1>1, <1>2, <1>3 DEF IInv

LEMMA HelloKeeps ==
  ASSUME IInv, NEW id \in Ids, Hello(id)
  PROVE  IInv'
<1>1. Consistent(clients', tasks') /\ HeardNow(id) /\ Refreshed(id)
  BY RefreshClientRefreshes DEF Hello
<1>2. heard' \in [Ids -> SUBSET (Addresses \X Ports)]
  BY ProcessType DEF Hello, IInv, TypeOK
<1>3. TypeOK'
  BY <1>1, <1>2 DEF Consistent, ListType, HeardNow, TypeOK
<1>4. ASSUME NEW j \in Ids, heard'[j] # {}
      PROVE  /\ inst'[j].up
             /\ \E s \in Streams : \E r \in clients'[s] : r.id = j /\ r.port = inst'[j].port
             /\ \A t \in tasks' : t.id = j => t.left > inst'[j].timer + Slack(inst'[j].lost)
  <2>1. CASE j = id
    <3>1. inst'[j].up /\ inst'[j].port = inst[j].port /\ inst'[j].timer = HelloEvery
          /\ inst'[j].lost = 0
      BY <1>1, <2>1 DEF HeardNow, Hello
    <3>2. \A t \in tasks' : t.id = j => t.left = PurgeAfter
      BY <1>1, <2>1 DEF Refreshed
    <3>3. PurgeAfter > HelloEvery + Slack(0)
      BY SlackFacts, ClientMgrAssumption
    <3>4. \E s \in Streams : \E r \in clients'[s] : r.id = j /\ r.port = inst[j].port
      BY <1>1, <2>1 DEF Refreshed
    <3> QED BY <3>1, <3>2, <3>3, <3>4
  <2>2. CASE j # id
    <3>1. inst'[j] = inst[j]
      BY <1>1, <2>2 DEF HeardNow
    <3>2. heard[j] # {}
      BY <1>4, <2>2 DEF Hello, IInv, TypeOK
    <3>3. /\ inst[j].up
          /\ \E s \in Streams : \E r \in clients[s] : r.id = j /\ r.port = inst[j].port
          /\ \A t \in tasks : t.id = j => t.left > inst[j].timer + Slack(inst[j].lost)
      BY <3>2 DEF IInv, Kept
    <3>4. \E s \in Streams : \E r \in clients'[s] : r.id = j /\ r.port = inst[j].port
      BY <1>1, <2>2, <3>3 DEF Refreshed
    <3>5. \A t \in tasks' : t.id = j => t.left > inst[j].timer + Slack(inst[j].lost)
      BY <1>1, <2>2, <3>3 DEF Refreshed
    <3> QED BY <3>1, <3>3, <3>4, <3>5
  <2> QED BY <2>1, <2>2
<1>5. Kept'
  BY <1>4 DEF Kept, Slack
<1> QED BY <1>1, <1>3, <1>5 DEF IInv, Consistent, ListType, Once, TaskOfRecord, RecordOfTask,
                                OnePerPointer

\* One process changes and the server does not: Kept is a matter of that process.
LEMMA OneProcess ==
  ASSUME IInv, NEW id \in Ids, NEW p \in Process, inst' = [inst EXCEPT ![id] = p],
         UNCHANGED server, heard' \in [Ids -> SUBSET (Addresses \X Ports)],
         \A j \in Ids : heard'[j] # {} => heard[j] # {},
         heard'[id] # {} =>
           /\ p.up /\ p.port = inst[id].port
           /\ \A t \in tasks : t.id = id => t.left > p.timer + Slack(p.lost)
  PROVE  IInv'
<1>1. inst' \in [Ids -> Process] /\ inst'[id] = p /\ \A j \in Ids \ {id} : inst'[j] = inst[j]
  BY DEF IInv, TypeOK
<1>2. clients' = clients /\ tasks' = tasks
  BY DEF server
<1>3. TypeOK'
  BY <1>1, <1>2 DEF IInv, TypeOK
<1>4. Consistent(clients, tasks)'
  BY <1>2 DEF IInv, Consistent, ListType, Once, TaskOfRecord, RecordOfTask, OnePerPointer
<1>5. ASSUME NEW j \in Ids, heard'[j] # {}
      PROVE  /\ inst'[j].up
             /\ \E s \in Streams : \E r \in clients[s] : r.id = j /\ r.port = inst'[j].port
             /\ \A t \in tasks : t.id = j => t.left > inst'[j].timer + Slack(inst'[j].lost)
  <2>1. /\ inst[j].up
        /\ \E s \in Streams : \E r \in clients[s] : r.id = j /\ r.port = inst[j].port
        /\ \A t \in tasks : t.id = j => t.left > inst[j].timer + Slack(inst[j].lost)
    BY <1>5 DEF IInv, Kept
  <2>2. CASE j = id
    BY <1>1, <1>5, <2>1, <2>2
  <2>3. CASE j # id
    BY <1>1, <2>1, <2>3
  <2> QED BY <2>2, <2>3
<1>6. Kept'
  BY <1>2, <1>5 DEF Kept, Slack
<1> QED BY <1>3, <1>4, <1>6 DEF IInv

LEMMA LoseHelloKeeps ==
  ASSUME IInv, NEW id \in Ids, LoseHello(id)
  PROVE  IInv'
<1> DEFINE p == [inst[id] EXCEPT !.timer = HelloEvery, !.lost = @ + 1]
<1>1. inst[id] \in Process /\ inst[id].lost \in 0..MaxLost /\ inst[id].timer = 0
      /\ inst[id].lost < MaxLost /\ inst[id].up
  BY ProcessType DEF IInv, LoseHello
<1>2. inst[id].lost + 1 \in 0..MaxLost /\ HelloEvery \in 0..HelloEvery
  BY <1>1, ClientMgrAssumption
<1>3. /\ p \in Process /\ p.up = inst[id].up /\ p.port = inst[id].port
      /\ p.timer = HelloEvery /\ p.lost = inst[id].lost + 1
  BY <1>1, <1>2 DEF Process
<1>4. inst' = [inst EXCEPT ![id] = p]
  BY DEF LoseHello, IInv, TypeOK
<1> HIDE DEF p
<1>5. heard[id] # {} => \A t \in tasks : t.id = id => t.left > p.timer + Slack(p.lost)
  <2>1. Slack(inst[id].lost) = HelloEvery + Slack(inst[id].lost + 1)
        /\ Slack(inst[id].lost) \in Nat /\ Slack(inst[id].lost + 1) \in Nat
    BY <1>1, <1>2, SlackFacts
  <2>2. inst[id].timer + Slack(inst[id].lost) = p.timer + Slack(p.lost)
    BY <1>1, <1>3, <2>1, ClientMgrAssumption
  <2> QED BY <2>2 DEF IInv, Kept
<1>6. heard' = heard /\ UNCHANGED server /\ heard \in [Ids -> SUBSET (Addresses \X Ports)]
  BY DEF LoseHello, IInv, TypeOK
<1> QED BY <1>1, <1>3, <1>4, <1>5, <1>6, OneProcess

LEMMA StartKeeps ==
  ASSUME IInv, NEW id \in Ids, NEW ip \in Addresses, NEW port \in Ports, Start(id, ip, port)
  PROVE  IInv'
<1> DEFINE p == [inst[id] EXCEPT !.up = TRUE, !.ip = ip, !.port = port, !.timer = 0, !.lost = 0]
<1>1. inst[id] \in Process /\ 0 \in 0..HelloEvery /\ 0 \in 0..MaxLost
  BY ProcessType, ClientMgrAssumption DEF IInv
<1>2. p \in Process
  BY <1>1 DEF Process
<1>3. inst' = [inst EXCEPT ![id] = p]
  BY DEF Start, IInv, TypeOK
<1> HIDE DEF p
<1>4. heard' = heard /\ UNCHANGED server /\ heard \in [Ids -> SUBSET (Addresses \X Ports)]
  BY DEF Start, IInv, TypeOK
<1>5. heard[id] = {}
  BY DEF IInv, Kept, Start
<1> QED BY <1>2, <1>3, <1>4, <1>5, OneProcess

LEMMA StopKeeps ==
  ASSUME IInv, NEW id \in Ids, Stop(id)
  PROVE  IInv'
<1> DEFINE p == [inst[id] EXCEPT !.up = FALSE, !.timer = 0, !.lost = 0]
<1>1. inst[id] \in Process /\ 0 \in 0..HelloEvery /\ 0 \in 0..MaxLost
  BY ProcessType, ClientMgrAssumption DEF IInv
<1>2. p \in Process
  BY <1>1 DEF Process
<1>3. inst' = [inst EXCEPT ![id] = p]
  BY DEF Stop, IInv, TypeOK
<1> HIDE DEF p
<1>4. /\ UNCHANGED server /\ heard' \in [Ids -> SUBSET (Addresses \X Ports)]
      /\ heard'[id] = {} /\ \A j \in Ids : heard'[j] # {} => heard[j] # {}
  BY DEF Stop, IInv, TypeOK
<1> QED BY <1>2, <1>3, <1>4, OneProcess

LEMMA RoamKeeps ==
  ASSUME IInv, NEW id \in Ids, NEW ip \in Addresses, Roam(id, ip)
  PROVE  IInv'
<1> DEFINE p == [inst[id] EXCEPT !.ip = ip]
<1>1. inst[id] \in Process
  BY ProcessType DEF IInv
<1>2. /\ p \in Process /\ p.up = inst[id].up /\ p.port = inst[id].port
      /\ p.timer = inst[id].timer /\ p.lost = inst[id].lost
  BY <1>1 DEF Process
<1>3. inst' = [inst EXCEPT ![id] = p]
  BY DEF Roam, IInv, TypeOK
<1> HIDE DEF p
<1>4. heard' = heard /\ UNCHANGED server /\ heard \in [Ids -> SUBSET (Addresses \X Ports)]
  BY DEF Roam, IInv, TypeOK
<1>5. heard[id] # {} => inst[id].up /\ \A t \in tasks : t.id = id =>
                          t.left > inst[id].timer + Slack(inst[id].lost)
  BY DEF IInv, Kept
<1> QED BY <1>2, <1>3, <1>4, <1>5, OneProcess

\* Records are changed or deleted, but none of a client that has been heard is
\* deleted, and the processes keep their timers.
LEMMA RecordsOnly ==
  ASSUME IInv, Consistent(clients', tasks'), tasks' \subseteq tasks, heard' = heard,
         inst' \in [Ids -> Process],
         \A j \in Ids : /\ inst'[j].up = inst[j].up /\ inst'[j].port = inst[j].port
                        /\ inst'[j].timer = inst[j].timer /\ inst'[j].lost = inst[j].lost,
         \A s \in Streams : \A r \in clients[s] : heard[r.id] # {} =>
            \E u \in Streams : \E q \in clients'[u] : q.id = r.id /\ q.port = r.port
  PROVE  IInv'
<1>1. TypeOK'
  BY DEF IInv, TypeOK, Consistent, ListType
<1>2. ASSUME NEW j \in Ids, heard'[j] # {}
      PROVE  /\ inst'[j].up
             /\ \E s \in Streams : \E r \in clients'[s] : r.id = j /\ r.port = inst'[j].port
             /\ \A t \in tasks' : t.id = j => t.left > inst'[j].timer + Slack(inst'[j].lost)
  <2>1. /\ inst[j].up
        /\ \E s \in Streams : \E r \in clients[s] : r.id = j /\ r.port = inst[j].port
        /\ \A t \in tasks : t.id = j => t.left > inst[j].timer + Slack(inst[j].lost)
    BY <1>2 DEF IInv, Kept
  <2>2. PICK s \in Streams : \E r \in clients[s] : r.id = j /\ r.port = inst[j].port
    BY <2>1
  <2>3. PICK r \in clients[s] : r.id = j /\ r.port = inst[j].port
    BY <2>2
  <2>4. \E u \in Streams : \E q \in clients'[u] : q.id = r.id /\ q.port = r.port
    BY <1>2, <2>3
  <2> QED BY <2>1, <2>3, <2>4
<1>3. Kept'
  BY <1>2 DEF Kept, Slack
<1>4. Consistent(clients, tasks)'
  BY DEF Consistent, ListType, Once, TaskOfRecord, RecordOfTask, OnePerPointer
<1> QED BY <1>1, <1>3, <1>4 DEF IInv

\* A task that is due takes exactly its own client off the list.
LEMMA RunPurgeEffect ==
  ASSUME IInv, NEW t \in tasks, RunPurge(t)
  PROVE  /\ Consistent(clients', tasks') /\ tasks' \subseteq tasks
         /\ \A s \in Streams : \A r \in clients[s] : r.id # t.id => r \in clients'[s]
<1>1. PICK s \in Streams : \E r \in clients[s] : t.ptr = r.purge /\ t.id = r.id
  BY DEF IInv, Consistent, RecordOfTask
<1>2. PICK r \in clients[s] : t.ptr = r.purge /\ t.id = r.id
  BY <1>1
<1>3. FindClient(t.id) # {}
  BY <1>2, FindClientMisses DEF IInv, Consistent, Absent
<1>4. PICK x \in FindClient(t.id) : clients' = Delete(x).streams /\ tasks' = Delete(x).tasks \ {t}
  BY <1>3 DEF RunPurge
<1>5. x[1] \in Streams /\ x[2] \in clients[x[1]] /\ x[2].id = t.id
  BY FindClientFinds
<1>6. x[2] = r
  BY <1>2, <1>5 DEF IInv, Consistent, Once
<1>7. t \notin Delete(x).tasks
  BY <1>2, <1>6 DEF Delete
<1>8. tasks' = Delete(x).tasks
  BY <1>4, <1>7
<1> QED BY <1>4, <1>8, DeleteFound DEF IInv

LEMMA RunPurgeKeeps ==
  ASSUME IInv, NEW t \in tasks, RunPurge(t)
  PROVE  IInv'
<1>1. /\ Consistent(clients', tasks') /\ tasks' \subseteq tasks
      /\ \A s \in Streams : \A r \in clients[s] : r.id # t.id => r \in clients'[s]
  BY RunPurgeEffect
<1>2. heard[t.id] = {}
  BY DueIsNotHeard DEF RunPurge
<1>3. heard' = heard /\ inst' = inst /\ inst \in [Ids -> Process]
  BY DEF RunPurge, IInv, TypeOK
<1>4. \A s \in Streams : \A r \in clients[s] : heard[r.id] # {} =>
            \E u \in Streams : \E q \in clients'[u] : q.id = r.id /\ q.port = r.port
  BY <1>1, <1>2
<1> QED BY <1>1, <1>3, <1>4, RecordsOnly

\* The control socket replaces the record of one client by another one of the
\* same instance of that client.
LEMMA ReplaceRecord ==
  ASSUME IInv, NEW id \in Ids, NEW x \in FindClient(id), NEW u \in Streams, NEW q \in Record,
         q.id = x[2].id, q.purge = x[2].purge, q.port = x[2].port,
         clients' \in [Streams -> SUBSET Record],
         \A v \in Streams : \A p \in clients'[v] :
            (p \in clients[v] /\ ~(v = x[1] /\ p = x[2])) \/ (v = u /\ p = q),
         \A v \in Streams : \A p \in clients[v] : p \in clients'[v] \/ (v = x[1] /\ p = x[2]),
         q \in clients'[u], UNCHANGED <<tasks, heard>>,
         inst' \in [Ids -> Process],
         \A j \in Ids : /\ inst'[j].up = inst[j].up /\ inst'[j].port = inst[j].port
                        /\ inst'[j].timer = inst[j].timer /\ inst'[j].lost = inst[j].lost
  PROVE  IInv'
<1>1. x[1] \in Streams /\ x[2] \in clients[x[1]] /\ x[2].id = id
  BY FindClientFinds
<1>2. Consistent(clients', tasks)
  <2>1. Consistent(clients, tasks)
    BY DEF IInv
  <2> DEFINE ds == clients'
  <2>2. /\ ds \in [Streams -> SUBSET Record]
        /\ \A v \in Streams : \A p \in ds[v] :
             (p \in clients[v] /\ ~(v = x[1] /\ p = x[2])) \/ (v = u /\ p = q)
        /\ \A v \in Streams : \A p \in clients[v] : p \in ds[v] \/ (v = x[1] /\ p = x[2])
        /\ q \in ds[u]
    OBVIOUS
  <2> HIDE DEF ds
  <2>3. Consistent(ds, tasks)
    BY <1>1, <2>1, <2>2, ReplaceConsistent
  <2> QED BY <2>3 DEF ds
<1>3. \A s \in Streams : \A r \in clients[s] : heard[r.id] # {} =>
            \E v \in Streams : \E p \in clients'[v] : p.id = r.id /\ p.port = r.port
  OBVIOUS
<1> QED BY <1>2, <1>3, RecordsOnly

\* A stream is not moved to itself: its name begins with its name.
LEMMA OtherStream ==
  ASSUME NEW s \in Streams, NEW u \in Streams, ~IsPrefix(Name[s], Name[u])
  PROVE  s # u
<1>1. Name[s] \in Seq(Nat)
  BY ClientMgrAssumption
<1>2. Len(Name[s]) \in Nat
  BY <1>1
<1>3. IsPrefix(Name[s], Name[s])
  BY <1>2 DEF IsPrefix
<1> QED BY <1>3

LEMMA SetStreamKeeps ==
  ASSUME IInv, NEW id \in Ids, NEW name, SetStream(id, name)
  PROVE  IInv'
<1>1. PICK x \in FindClient(id), s \in FindName(name) :
        /\ ~IsPrefix(Name[x[1]], Name[s])
        /\ clients' = [clients EXCEPT ![s] = @ \cup {x[2]}, ![x[1]] = @ \ {x[2]}]
  BY DEF SetStream
<1>2. x[1] \in Streams /\ x[2] \in clients[x[1]] /\ x[2].id = id
  BY FindClientFinds
<1>3. s \in Streams
  BY DEF FindName
<1>4. x[1] # s
  BY <1>1, <1>2, <1>3, OtherStream
<1>5. clients \in [Streams -> SUBSET Record] /\ x[2] \in Record
  BY <1>2 DEF IInv, TypeOK
<1>6. clients' \in [Streams -> SUBSET Record]
  BY <1>1, <1>2, <1>3, <1>5
<1>7. /\ clients'[s] = clients[s] \cup {x[2]} /\ clients'[x[1]] = clients[x[1]] \ {x[2]}
      /\ \A v \in Streams : v # s /\ v # x[1] => clients'[v] = clients[v]
  BY <1>1, <1>2, <1>3, <1>4, <1>5
<1>8. UNCHANGED <<tasks, inst, heard>> /\ inst \in [Ids -> Process]
  BY DEF SetStream, IInv, TypeOK
<1>9. \A v \in Streams : \A p \in clients'[v] :
            (p \in clients[v] /\ ~(v = x[1] /\ p = x[2])) \/ (v = s /\ p = x[2])
  BY <1>4, <1>7
<1>10. \A v \in Streams : \A p \in clients[v] : p \in clients'[v] \/ (v = x[1] /\ p = x[2])
  BY <1>7
<1>11. x[2] \in clients'[s]
  BY <1>7
<1> QED BY <1>3, <1>5, <1>6, <1>8, <1>9, <1>10, <1>11, ReplaceRecord

\* The volume of a process may be set; nothing else of it changes.
LEMMA VolumeOnly ==
  ASSUME TypeOK, NEW id \in Ids, NEW v \in Volumes, inst' = [inst EXCEPT ![id].volume = v]
  PROVE  /\ inst' \in [Ids -> Process]
         /\ \A j \in Ids : /\ inst'[j].up = inst[j].up /\ inst'[j].port = inst[j].port
                           /\ inst'[j].timer = inst[j].timer /\ inst'[j].lost = inst[j].lost
<1> DEFINE p == [inst[id] EXCEPT !.volume = v]
<1>1. inst[id] \in Process
  BY ProcessType
<1>2. /\ p \in Process /\ p.up = inst[id].up /\ p.port = inst[id].port
      /\ p.timer = inst[id].timer /\ p.lost = inst[id].lost
  BY <1>1 DEF Process
<1>3. inst' = [inst EXCEPT ![id] = p]
  BY DEF TypeOK
<1> HIDE DEF p
<1>4. inst'[id] = p /\ \A j \in Ids : j # id => inst'[j] = inst[j]
  BY <1>3 DEF TypeOK
<1>5. inst' \in [Ids -> Process]
  BY <1>2, <1>3 DEF TypeOK
<1> QED BY <1>2, <1>4, <1>5

\* A record is replaced in its stream.
LEMMA ReplaceInPlace ==
  ASSUME IInv, NEW id \in Ids, NEW x \in FindClient(id), NEW q \in Record,
         q.id = x[2].id, q.purge = x[2].purge, q.port = x[2].port,
         clients' = [clients EXCEPT ![x[1]] = (@ \ {x[2]}) \cup {q}],
         UNCHANGED <<tasks, heard>>, inst' \in [Ids -> Process],
         \A j \in Ids : /\ inst'[j].up = inst[j].up /\ inst'[j].port = inst[j].port
                        /\ inst'[j].timer = inst[j].timer /\ inst'[j].lost = inst[j].lost
  PROVE  IInv'
<1>1. x[1] \in Streams /\ x[2] \in clients[x[1]] /\ x[2].id = id
  BY FindClientFinds
<1>2. clients \in [Streams -> SUBSET Record]
  BY DEF IInv, TypeOK
<1>3. clients' \in [Streams -> SUBSET Record]
  BY <1>1, <1>2
<1>4. /\ clients'[x[1]] = (clients[x[1]] \ {x[2]}) \cup {q}
      /\ \A v \in Streams : v # x[1] => clients'[v] = clients[v]
  BY <1>1, <1>2
<1>5. \A v \in Streams : \A p \in clients'[v] :
            (p \in clients[v] /\ ~(v = x[1] /\ p = x[2])) \/ (v = x[1] /\ p = q)
  BY <1>4
<1>6. \A v \in Streams : \A p \in clients[v] : p \in clients'[v] \/ (v = x[1] /\ p = x[2])
  BY <1>4
<1>7. q \in clients'[x[1]]
  BY <1>4
<1> QED BY <1>1, <1>3, <1>5, <1>6, <1>7, ReplaceRecord

LEMMA SetVolumeKeeps ==
  ASSUME IInv, NEW id \in Ids, NEW percent \in SUBSET Volumes, NEW muted \in SUBSET BOOLEAN,
         SetVolume(id, percent, muted)
  PROVE  IInv'
<1>1. UNCHANGED <<tasks, heard>>
  BY DEF SetVolume
<1>2. PICK x \in FindClient(id) :
        \/ \E p \in percent :
            /\ clients' = [clients EXCEPT ![x[1]] =
                             (@ \ {x[2]}) \cup {[x[2] EXCEPT !.volume = p]}]
            /\ \E v \in Sent(id, p) : inst' = [inst EXCEPT ![id].volume = v]
        \/ \E m \in muted :
            /\ percent = {}
            /\ clients' = [clients EXCEPT ![x[1]] =
                             (@ \ {x[2]}) \cup {[x[2] EXCEPT !.muted = m]}]
            /\ UNCHANGED inst
  BY DEF SetVolume
<1>3. x[1] \in Streams /\ x[2] \in clients[x[1]] /\ x[2].id = id
  BY FindClientFinds
<1>4. x[2] \in Record
  BY <1>3 DEF IInv, TypeOK
<1>5. ASSUME NEW p \in percent, NEW v \in Sent(id, p),
             clients' = [clients EXCEPT ![x[1]] = (@ \ {x[2]}) \cup {[x[2] EXCEPT !.volume = p]}],
             inst' = [inst EXCEPT ![id].volume = v]
      PROVE  IInv'
  <2> DEFINE q == [x[2] EXCEPT !.volume = p]
  <2>1. q \in Record /\ q.id = x[2].id /\ q.purge = x[2].purge /\ q.port = x[2].port
    BY <1>4 DEF Record
  <2>2. v \in Volumes
    BY ProcessType DEF Sent, IInv
  <2>3. clients' = [clients EXCEPT ![x[1]] = (@ \ {x[2]}) \cup {q}]
    BY <1>5
  <2> HIDE DEF q
  <2> QED BY <1>1, <1>5, <2>1, <2>2, <2>3, VolumeOnly, ReplaceInPlace DEF IInv
<1>6. ASSUME NEW m \in muted,
             clients' = [clients EXCEPT ![x[1]] = (@ \ {x[2]}) \cup {[x[2] EXCEPT !.muted = m]}],
             UNCHANGED inst
      PROVE  IInv'
  <2> DEFINE q == [x[2] EXCEPT !.muted = m]
  <2>1. q \in Record /\ q.id = x[2].id /\ q.purge = x[2].purge /\ q.port = x[2].port
    BY <1>4 DEF Record
  <2>2. inst' \in [Ids -> Process]
    BY <1>6 DEF IInv, TypeOK
  <2>3. clients' = [clients EXCEPT ![x[1]] = (@ \ {x[2]}) \cup {q}]
    BY <1>6
  <2> HIDE DEF q
  <2> QED BY <1>1, <1>6, <2>1, <2>2, <2>3, ReplaceInPlace
<1> QED BY <1>2, <1>5, <1>6

LEMMA ControlKeeps ==
  ASSUME IInv, NEW id \in Ids, Control(id)
  PROVE  IInv'
<1>1. CASE \E s \in Streams : SetStream(id, Name[s])
  BY <1>1, SetStreamKeeps
<1>2. ASSUME NEW v \in Volumes, NEW m \in {{}, {TRUE}, {FALSE}}, SetVolume(id, {v}, m)
      PROVE  IInv'
  <2>1. {v} \in SUBSET Volumes /\ m \in SUBSET BOOLEAN
    OBVIOUS
  <2> QED BY <1>2, <2>1, SetVolumeKeeps
<1>3. ASSUME NEW m \in BOOLEAN, SetVolume(id, {}, {m})
      PROVE  IInv'
  <2>1. {} \in SUBSET Volumes /\ {m} \in SUBSET BOOLEAN
    OBVIOUS
  <2> QED BY <1>3, <2>1, SetVolumeKeeps
<1> QED BY <1>1, <1>2, <1>3 DEF Control

LEMMA TickKeeps ==
  ASSUME IInv, Tick
  PROVE  IInv'
<1> DEFINE Later(t) == [t EXCEPT !.left = @ - 1]
<1>1. \A t \in tasks : t \in Task /\ t.left \in Nat /\ t.left <= PurgeAfter /\ t.left > 0
  BY ClientMgrAssumption DEF IInv, TypeOK, Task, Tick
<1>2. \A t \in tasks : /\ Later(t) \in Task /\ Later(t).ptr = t.ptr /\ Later(t).id = t.id
                       /\ Later(t).left = t.left - 1
  BY <1>1, ClientMgrAssumption DEF Task
<1>3. tasks' = {Later(t) : t \in tasks}
  BY DEF Tick
<1> HIDE DEF Later
<1>4. tasks' \subseteq Task /\ OnePerPointer(tasks')
  BY <1>2, <1>3 DEF OnePerPointer, IInv, Consistent
<1>5. \A t \in tasks : \E u \in tasks' : u.ptr = t.ptr /\ u.id = t.id
  BY <1>2, <1>3
<1>6. \A u \in tasks' : \E t \in tasks : u.ptr = t.ptr /\ u.id = t.id
  BY <1>2, <1>3
<1>7. clients' = clients /\ heard' = heard
  BY DEF Tick
<1>8. Consistent(clients', tasks')
  BY <1>4, <1>5, <1>6, <1>7, RetimeConsistent DEF IInv
<1> DEFINE Aged(p) == [p EXCEPT !.timer = @ - 1]
<1>9. ASSUME NEW j \in Ids, inst[j].up
      PROVE  /\ Aged(inst[j]) \in Process /\ Aged(inst[j]).up = inst[j].up
             /\ Aged(inst[j]).port = inst[j].port /\ Aged(inst[j]).lost = inst[j].lost
             /\ Aged(inst[j]).timer = inst[j].timer - 1
  <2> DEFINE p == inst[j]
  <2>1. p \in Process /\ p.timer \in 0..HelloEvery /\ p.timer > 0
    BY <1>9, ProcessType DEF IInv, Tick
  <2>2. p.timer - 1 \in 0..HelloEvery
    BY <2>1, ClientMgrAssumption
  <2> HIDE DEF p
  <2>3. /\ Aged(p) \in Process /\ Aged(p).up = p.up /\ Aged(p).port = p.port
        /\ Aged(p).lost = p.lost /\ Aged(p).timer = p.timer - 1
    BY <2>1, <2>2 DEF Process
  <2> QED BY <2>3 DEF p
<1>10. inst' = [j \in Ids |-> IF inst[j].up THEN Aged(inst[j]) ELSE inst[j]]
  BY DEF Tick
<1> HIDE DEF Aged
<1>11. inst' \in [Ids -> Process]
  BY <1>9, <1>10, ProcessType DEF IInv
<1>12. TypeOK'
  BY <1>4, <1>7, <1>11 DEF IInv, TypeOK
<1>13. ASSUME NEW j \in Ids, heard'[j] # {}
       PROVE  /\ inst'[j].up
              /\ \E s \in Streams : \E r \in clients'[s] : r.id = j /\ r.port = inst'[j].port
              /\ \A t \in tasks' : t.id = j => t.left > inst'[j].timer + Slack(inst'[j].lost)
  <2>1. /\ inst[j].up
        /\ \E s \in Streams : \E r \in clients[s] : r.id = j /\ r.port = inst[j].port
        /\ \A t \in tasks : t.id = j => t.left > inst[j].timer + Slack(inst[j].lost)
    BY <1>7, <1>13 DEF IInv, Kept
  <2>2. /\ inst'[j].up /\ inst'[j].port = inst[j].port /\ inst'[j].lost = inst[j].lost
        /\ inst'[j].timer = inst[j].timer - 1
    BY <1>9, <1>10, <2>1
  <2>3. inst[j].timer \in Int /\ Slack(inst[j].lost) \in Nat
    BY ProcessType, SlackFacts DEF IInv
  <2>4. ASSUME NEW u \in tasks', u.id = j PROVE u.left > inst'[j].timer + Slack(inst'[j].lost)
    <3>1. PICK t \in tasks : u = Later(t)
      BY <1>3
    <3>2. t.id = j /\ u.left = t.left - 1 /\ t.left \in Nat
      BY <1>1, <1>2, <2>4, <3>1
    <3>3. t.left > inst[j].timer + Slack(inst[j].lost)
      BY <2>1, <3>2
    <3> QED BY <2>2, <2>3, <3>2, <3>3
  <2> QED BY <1>7, <2>1, <2>2, <2>4
<1>14. Kept'
  BY <1>13 DEF Kept, Slack
<1>15. Consistent(clients, tasks)'
  BY <1>8 DEF Consistent, ListType, Once, TaskOfRecord, RecordOfTask, OnePerPointer
<1> QED BY <1>12, <1>14, <1>15 DEF IInv

LEMMA NextKeeps == IInv /\ [Next]_vars => IInv'
<1> SUFFICES ASSUME IInv, [Next]_vars PROVE IInv'
  OBVIOUS
<1>1. ASSUME NEW id \in Ids, Hello(id) PROVE IInv'
  BY <1>1, HelloKeeps
<1>2. ASSUME NEW id \in Ids, LoseHello(id) PROVE IInv'
  BY <1>2, LoseHelloKeeps
<1>3. ASSUME NEW id \in Ids, NEW ip \in Addresses, NEW port \in Ports, Start(id, ip, port)
      PROVE  IInv'
  BY <1>3, StartKeeps
<1>4. ASSUME NEW id \in Ids, Stop(id) PROVE IInv'
  BY <1>4, StopKeeps
<1>5. ASSUME NEW id \in Ids, NEW ip \in Addresses, Roam(id, ip) PROVE IInv'
  BY <1>5, RoamKeeps
<1>6. ASSUME NEW t \in tasks, RunPurge(t) PROVE IInv'
  BY <1>6, RunPurgeKeeps
<1>7. ASSUME NEW id \in Ids, Control(id) PROVE IInv'
  BY <1>7, ControlKeeps
<1>8. CASE Tick
  BY <1>8, TickKeeps
<1>9. CASE UNCHANGED vars
  BY <1>9 DEF vars, IInv, TypeOK, Kept, Slack, Consistent, ListType, Once, TaskOfRecord,
              RecordOfTask, OnePerPointer
<1> QED BY <1>1, <1>2, <1>3, <1>4, <1>5, <1>6, <1>7, <1>8, <1>9 DEF Next

-----------------------------------------------------------------------------
(* The theorems.                                                           *)

LEMMA Invariance == Spec => []IInv
BY InitIInv, NextKeeps, PTL DEF Spec

(***************************************************************************)
(* Whatever hellos, restarts, purges, moves and changes of settings of any *)
(* number of clients interleave: no client is on the list twice, and       *)
(* records and purge tasks are paired off (clientmgr.c).                   *)
(***************************************************************************)
THEOREM RegistryCorrect == Spec => []RegistryInv
<1>1. IInv => RegistryInv
  BY ConsistentIsRegistryInv DEF IInv
<1> QED BY <1>1, Invariance, PTL

(***************************************************************************)
(* A client that has been heard stays on the list as the instance it is as *)
(* long as it runs and no more than MaxLost hellos in a row are lost: its  *)
(* purge task is rescheduled before it is due.                             *)
(***************************************************************************)
THEOREM ListedWhileHeard == Spec => []StaysRegistered
<1>1. IInv => StaysRegistered
  <2> SUFFICES ASSUME IInv, NEW id \in Ids, heard[id] # {}
               PROVE  \E x \in Registered : x[2].id = id /\ x[2].port = inst[id].port
    BY DEF StaysRegistered
  <2>1. PICK s \in Streams : \E r \in clients[s] : r.id = id /\ r.port = inst[id].port
    BY DEF IInv, Kept
  <2>2. PICK r \in clients[s] : r.id = id /\ r.port = inst[id].port
    BY <2>1
  <2>3. <<s, r>>[2].id = id /\ <<s, r>>[2].port = inst[id].port
    BY <2>2
  <2> QED BY <2>3, MemberRegistered
<1> QED BY <1>1, Invariance, PTL

\* The control request for another client leaves a record alone.
LEMMA ControlOther ==
  ASSUME IInv, NEW j \in Ids, Control(j), NEW s \in Streams, NEW r \in clients[s], r.id # j
  PROVE  r \in clients'[s]
<1>1. ASSUME NEW x \in FindClient(j)
      PROVE  x[1] \in Streams /\ x[2] # r
  BY FindClientFinds
<1>2. clients \in [Streams -> SUBSET Record]
  BY DEF IInv, TypeOK
<1>3. ASSUME NEW name, SetStream(j, name) PROVE r \in clients'[s]
  BY <1>1, <1>2, <1>3 DEF SetStream, FindName
<1>4. ASSUME NEW percent, NEW muted, SetVolume(j, percent, muted) PROVE r \in clients'[s]
  BY <1>1, <1>2, <1>4 DEF SetVolume
<1> QED BY <1>3, <1>4 DEF Control

(***************************************************************************)
(* The settings of a client that has been heard are changed by no step but *)
(* a control request for it: a hello finds the record of the instance and  *)
(* keeps it, a purge task that is due is another client's.                 *)
(***************************************************************************)
THEOREM SettingsCorrect == Spec => SettingsKept
<1>1. ASSUME IInv, Next, NEW id \in Ids, NEW x \in Registered,
             x[2].id = id, heard[id] # {}, heard'[id] # {}, ~Control(id)
      PROVE  x[2] \in clients'[x[1]]
  <2>1. x[1] \in Streams /\ x[2] \in clients[x[1]]
    BY RegisteredMember
  <2>2. ASSUME NEW j \in Ids, Hello(j) PROVE x[2] \in clients'[x[1]]
    <3>1. x[2].id # j \/ x[2].port = inst[j].port
      BY <1>1, <2>1 DEF IInv, Kept, Consistent, Once
    <3>2. Refreshed(j)
      BY <1>1, <2>2, RefreshClientRefreshes DEF Hello
    <3> QED BY <2>1, <3>1, <3>2 DEF Refreshed
  <2>3. ASSUME NEW t \in tasks, RunPurge(t) PROVE x[2] \in clients'[x[1]]
    <3>1. x[2].id # t.id
      BY <1>1, <2>3, DueIsNotHeard DEF RunPurge
    <3> QED BY <1>1, <2>1, <2>3, <3>1, RunPurgeEffect
  <2>4. ASSUME NEW j \in Ids, Control(j) PROVE x[2] \in clients'[x[1]]
    BY <1>1, <2>1, <2>4, ControlOther
  <2>5. CASE clients' = clients
    BY <2>1, <2>5
  <2> QED BY <1>1, <2>2, <2>3, <2>4, <2>5
             DEF Next, LoseHello, Start, Stop, Roam, Tick, server
<1>2. IInv /\ [Next]_vars =>
        [\A id \in Ids : \A x \in Registered :
           /\ x[2].id = id /\ heard[id] # {} /\ heard'[id] # {}
           /\ ~Control(id)
           => x[2] \in clients'[x[1]]]_vars
  BY <1>1
<1> QED BY <1>2, Invariance, PTL DEF Spec, SettingsKept
=============================================================================
