----------------------------- MODULE TaskQueue -----------------------------
(***************************************************************************)
(* The task queue that drives both main loops (taskqueue.c): a pairing     *)
(* heap of tasks, ordered by the instant they are due at, and a timerfd    *)
(* that is armed for the first of them.                                    *)
(*                                                                         *)
(* The heap is modelled with its pointers.  ptr has the forward ones, the  *)
(* fields children and next of every element; a place is a field and the   *)
(* element it is a field of, and pprev is the place where the pointer to a *)
(* task is stored.  Root stands for the context: its children are          *)
(* ctx->queue.                                                             *)
(*                                                                         *)
(* Tasks are posted, dropped and rescheduled by the handlers of events and *)
(* by the functions of tasks, the latter while taskqueue_run is under way. *)
(* clock_gettime counts nanoseconds and never returns the same instant     *)
(* twice, so what a task posts is due later than the run it is part of.    *)
(***************************************************************************)
EXTENDS Naturals, FiniteSets

CONSTANTS
  Tasks,      \* addresses at which tasks are allocated
  Root,       \* the context
  None,       \* NULL
  MaxDelay,   \* bound: the longest timeout
  MaxTime     \* bound: the last instant of the model

ASSUME TaskQueueAssumption ==
  /\ IsFiniteSet(Tasks)
  /\ Root \notin Tasks /\ None \notin Tasks \cup {Root}
  /\ MaxDelay \in Nat /\ MaxTime \in Nat

VARIABLES
  now,        \* CLOCK_MONOTONIC
  heap,       \* the fields of all tasks, and whether exit_bug was called
  allocated,  \* the tasks that have been allocated and not freed
  timer,      \* the instant the timerfd is armed for, Off if it is not
  run,        \* what taskqueue_run has read from the clock, Off outside of it
  running     \* the task whose function is being called, or None

vars == <<now, heap, allocated, timer, run, running>>

Off == MaxTime + 1
Elements == Tasks \cup {Root}

\* Where the pointer to a task may be stored, and NULL as a pprev.
Places == {"children", "next"} \X Elements
NoPlace == <<"none", None>>

Heaps == [ptr : [Places -> Tasks \cup {None}],
          pprev : [Tasks -> Places \cup {NoPlace}],
          due : [Tasks -> 0..MaxTime],
          bug : BOOLEAN]

-----------------------------------------------------------------------------
(* The heap.                                                               *)

Children(h, e) == h.ptr[<<"children", e>>]
NextOf(h, e) == h.ptr[<<"next", e>>]
Linked(h, e) == h.pprev[e] # NoPlace

Check(h, ok) == [h EXCEPT !.bug = @ \/ ~ok]

\* taskqueue_link: e becomes the first of the list that starts at place.
Link(h, place, e) ==
  LET s == h.ptr[place]
      pprev == [h.pprev EXCEPT ![e] = place]
  IN  [ptr |-> [h.ptr EXCEPT ![<<"next", e>>] = s, ![place] = e],
       pprev |-> IF s = None THEN pprev ELSE [pprev EXCEPT ![s] = <<"next", e>>],
       due |-> h.due,
       bug |-> h.bug \/ NextOf(h, e) # None]

\* Mutant: the successor keeps its pprev.
UnlinkForward(h, e) ==
  [h EXCEPT !.ptr = [@ EXCEPT ![h.pprev[e]] = NextOf(h, e), ![<<"next", e>>] = None]]

\* taskqueue_unlink
Unlink(h, e) ==
  LET s == NextOf(h, e)
      place == h.pprev[e]
  IN  [ptr |-> [h.ptr EXCEPT ![place] = s, ![<<"next", e>>] = None],
       pprev |-> IF s = None THEN h.pprev ELSE [h.pprev EXCEPT ![s] = place],
       due |-> h.due,
       bug |-> h.bug]

\* taskqueue_merge: the heap and the root of the two queues, merged.
Merge(h, q1, q2) ==
  LET lo == IF h.due[q1] < h.due[q2] THEN q1 ELSE q2
      hi == IF lo = q1 THEN q2 ELSE q1
      checked == Check(h, NextOf(h, q1) = None /\ NextOf(h, q2) = None)
  IN  IF q2 = None THEN [heap |-> Check(h, NextOf(h, q1) = None), root |-> q1]
                   ELSE [heap |-> Link(checked, <<"children", lo>>, hi), root |-> lo]

\* taskqueue_merge_pairs: the list that starts at q0 becomes one queue.  n is
\* not in the code: it bounds the recursion by the number of elements left.
MergePairs[s \in Nat \X Heaps \X (Tasks \cup {None})] ==
  LET n == s[1]
      h == s[2]
      q0 == s[3]
      q1 == NextOf(h, q0)
      checked == Check(h, Linked(h, q0))
      apart == [checked EXCEPT !.ptr = [@ EXCEPT ![<<"next", q0>>] = None,
                                                 ![<<"next", q1>>] = None]]
      pair == Merge(apart, q0, q1)
      rest == MergePairs[<<n - 1, pair.heap, NextOf(h, q1)>>]
  IN  IF n = 0 \/ q0 = None THEN [heap |-> h, root |-> None]
      ELSE IF q1 = None THEN [heap |-> checked, root |-> q0]
      ELSE Merge(rest.heap, pair.root, rest.root)

\* taskqueue_insert
Insert(h, e) ==
  LET checked == Check(h, ~Linked(h, e) /\ NextOf(h, e) = None /\ Children(h, e) = None)
      merged == Merge(checked, e, Children(h, Root))
  IN  [merged.heap EXCEPT !.ptr[<<"children", Root>>] = merged.root,
                          !.pprev[merged.root] = <<"children", Root>>]

\* taskqueue_remove, of an element that is linked
Remove(h, e) ==
  LET merged == MergePairs[<<Cardinality(Tasks), Unlink(h, e), Children(h, e)>>]
      linked == IF merged.root = None THEN merged.heap
                ELSE Link(merged.heap, h.pprev[e], merged.root)
  IN  [linked EXCEPT !.pprev[e] = NoPlace, !.ptr[<<"children", e>>] = None]

-----------------------------------------------------------------------------
(* The operations.                                                         *)

\* taskqueue_schedule: what the timer is armed for; an empty queue leaves it.
Schedule(h) == IF Children(h, Root) = None THEN timer ELSE h.due[Children(h, Root)]

\* The code is in an event handler or in the function of a task.
InHandler == run = Off \/ running # None

\* A task is allocated, and what malloc returned is initialised.
Fresh(h, t, d) ==
  [h EXCEPT !.ptr = [@ EXCEPT ![<<"children", t>>] = None, ![<<"next", t>>] = None],
            !.pprev[t] = NoPlace,
            !.due[t] = d]

\* post_task
PostTask(t, delay) ==
  /\ InHandler /\ t \notin allocated /\ now + delay < MaxTime
  /\ allocated' = allocated \cup {t}
  /\ heap' = Insert(Fresh(heap, t, now + delay), t)
  /\ timer' = Schedule(heap')
  /\ UNCHANGED <<now, run, running>>

\* Mutant: the task that is running is freed, too.
DropAlways(t) ==
  /\ InHandler /\ t \in allocated
  /\ heap' = IF Linked(heap, t) THEN Remove(heap, t) ELSE heap
  /\ allocated' = allocated \ {t}
  /\ timer' = Schedule(heap')
  /\ UNCHANGED <<now, run, running>>

\* drop_task: the task that is running is left to taskqueue_run.
DropTask(t) ==
  /\ InHandler /\ t \in allocated
  /\ IF t = running
     THEN UNCHANGED <<heap, allocated, timer>>
     ELSE /\ heap' = IF Linked(heap, t) THEN Remove(heap, t) ELSE heap
          /\ allocated' = allocated \ {t}
          /\ timer' = Schedule(heap')
  /\ UNCHANGED <<now, run, running>>

\* Mutant: the task is not put back.
RescheduleLoses(t, delay) ==
  /\ InHandler /\ t \in allocated /\ now + delay < MaxTime
  /\ IF Linked(heap, t) /\ heap.due[t] # now + delay
     THEN heap' = Remove(heap, t) /\ timer' = Schedule(heap')
     ELSE UNCHANGED <<heap, timer>>
  /\ UNCHANGED <<now, allocated, run, running>>

\* reschedule_task: nothing is done to a task that is running.
RescheduleTask(t, delay) ==
  /\ InHandler /\ t \in allocated /\ now + delay < MaxTime
  /\ IF Linked(heap, t) /\ heap.due[t] # now + delay
     THEN /\ heap' = Insert(Remove([heap EXCEPT !.due[t] = now + delay], t), t)
          /\ timer' = Schedule(heap')
     ELSE UNCHANGED <<heap, timer>>
  /\ UNCHANGED <<now, allocated, run, running>>

\* taskqueue_run reads the clock and the timerfd.
BeginRun ==
  /\ run = Off /\ timer <= now
  /\ timer' = Off
  /\ run' = IF Children(heap, Root) = None THEN Off ELSE now
  /\ now' = IF now < MaxTime THEN now + 1 ELSE now
  /\ UNCHANGED <<heap, allocated, running>>

First == Children(heap, Root)
FirstIsDue == First # None /\ heap.due[First] <= run

\* It takes the first task that is due out of the queue and calls its function;
RunTask ==
  /\ run # Off /\ running = None /\ FirstIsDue
  /\ heap' = Remove(heap, First)
  /\ running' = First
  /\ UNCHANGED <<now, allocated, timer, run>>

\* the function returns and the task is freed.
FreeTask ==
  /\ running # None
  /\ running' = None
  /\ allocated' = allocated \ {running}
  /\ UNCHANGED <<now, heap, timer, run>>

\* Mutant: the timer, which has fired, is not armed again for the tasks left.
EndRunUnarmed ==
  /\ run # Off /\ running = None /\ ~FirstIsDue
  /\ run' = Off
  /\ UNCHANGED <<now, heap, allocated, timer, running>>

\* Nothing that is due is left.
EndRun ==
  /\ run # Off /\ running = None /\ ~FirstIsDue
  /\ run' = Off
  /\ timer' = Schedule(heap)
  /\ UNCHANGED <<now, heap, allocated, running>>

Tick ==
  /\ now < MaxTime
  /\ now' = now + 1
  /\ UNCHANGED <<heap, allocated, timer, run, running>>

-----------------------------------------------------------------------------
Init ==
  /\ now = 0
  /\ heap = [ptr |-> [p \in Places |-> None], pprev |-> [t \in Tasks |-> NoPlace],
             due |-> [t \in Tasks |-> 0], bug |-> FALSE]
  /\ allocated = {}
  /\ timer = Off /\ run = Off
  /\ running = None

Next ==
  \/ \E t \in Tasks, d \in 0..MaxDelay : PostTask(t, d)
  \/ \E t \in Tasks : DropTask(t)
  \/ \E t \in Tasks, d \in 0..MaxDelay : RescheduleTask(t, d)
  \/ BeginRun \/ RunTask \/ FreeTask \/ EndRun
  \/ Tick

Spec == Init /\ [][Next]_vars

-----------------------------------------------------------------------------
TypeOK ==
  /\ now \in 0..MaxTime /\ heap \in Heaps /\ allocated \subseteq Tasks
  /\ timer \in 0..Off /\ run \in 0..Off /\ running \in Tasks \cup {None}

Queued == {t \in allocated : Linked(heap, t)}

(***************************************************************************)
(* The pointers of the heap are consistent after every operation: an       *)
(* element is where its pprev says, and what its children and next point   *)
(* to says so; only queued elements are pointed to, none of them freed; no *)
(* element is due before its parent; and exit_bug has not been called.     *)
(***************************************************************************)
HeapInv ==
  /\ TypeOK
  /\ ~heap.bug
  /\ \A t \in Queued : heap.ptr[heap.pprev[t]] = t
  /\ \A p \in {"children", "next"} \X (Queued \cup {Root}) :
       heap.ptr[p] # None => heap.ptr[p] \in Queued /\ heap.pprev[heap.ptr[p]] = p
  /\ NextOf(heap, Root) = None
  /\ \A e \in Queued : Children(heap, e) # None =>
       heap.due[e] <= heap.due[Children(heap, e)]

(***************************************************************************)
(* A task is freed once: the one that is running is still allocated when   *)
(* taskqueue_run comes to free it, although its function may drop it       *)
(* ("running", taskqueue.h, is for that).                                  *)
(***************************************************************************)
RunningIsAllocated == running # None => running \in allocated

(***************************************************************************)
(* The pairing heap implements a set of timed tasks from which the first   *)
(* that is due is run: no task is lost or run twice by whatever merging,   *)
(* removing from the middle and rescheduling it goes through.              *)
(***************************************************************************)
Abstract == INSTANCE TaskSet WITH due <- [t \in Queued |-> heap.due[t]]
IsTaskSet == Abstract!Spec

(***************************************************************************)
(* No task is forgotten: unless a run is under way, the timer, which fires *)
(* once only, is armed for the first task or for an earlier instant,       *)
(* whatever the handlers and the tasks of the last run posted, dropped and *)
(* rescheduled.                                                            *)
(***************************************************************************)
TimerArmed == run = Off /\ First # None => timer <= heap.due[First]
=============================================================================
