------------------------------ MODULE TaskSet ------------------------------
(***************************************************************************)
(* What a queue of timed tasks promises: the tasks that are pending are    *)
(* those that were posted and neither dropped nor run, each with the       *)
(* instant it was last scheduled for, and the one that is run next is one  *)
(* of those that are due first.                                            *)
(***************************************************************************)
EXTENDS Naturals

CONSTANTS Tasks, None

VARIABLES
  due,        \* when each pending task is due: a function on those tasks
  running,    \* the task that is being run, or None
  allocated   \* the tasks that exist

vars == <<due, running, allocated>>

Pending == DOMAIN due
Without(t) == [u \in Pending \ {t} |-> due[u]]
With(t, d) == [u \in Pending \cup {t} |-> IF u = t THEN d ELSE due[u]]

Init == due = [t \in {} |-> 0] /\ running = None /\ allocated = {}

Post(t, d) ==
  /\ t \notin allocated
  /\ allocated' = allocated \cup {t}
  /\ due' = With(t, d)
  /\ UNCHANGED running

Reschedule(t, d) ==
  /\ t \in Pending
  /\ due' = With(t, d)
  /\ UNCHANGED <<running, allocated>>

Drop(t) ==
  /\ t \in Pending
  /\ due' = Without(t)
  /\ allocated' = allocated \ {t}
  /\ UNCHANGED running

Run(t) ==
  /\ running = None
  /\ t \in Pending /\ \A u \in Pending : due[t] <= due[u]
  /\ due' = Without(t)
  /\ running' = t
  /\ UNCHANGED allocated

Return ==
  /\ running \in allocated
  /\ running' = None
  /\ allocated' = allocated \ {running}
  /\ UNCHANGED due

\* The instant a task is scheduled for is the one it is due at afterwards.
Next ==
  \/ \E t \in Tasks : Drop(t) \/ Run(t)
  \/ \E t \in Tasks \cap DOMAIN due' : Post(t, due'[t]) \/ Reschedule(t, due'[t])
  \/ Return

Spec == Init /\ [][Next]_vars
=============================================================================
