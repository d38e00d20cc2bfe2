------------------------------ MODULE MCPQueue ------------------------------
(***************************************************************************)
(* The heap of pqueue.c driven by arrivals and removals, checked against   *)
(* PriorityBag.  Either the chunks arrive in the order of play_at, which a *)
(* client sees when no packet is lost, reordered or sent again, or in any  *)
(* order, but then no more than AnyOrderSize of them are queued.           *)
(***************************************************************************)
EXTENDS PQueue, Bags, FiniteSets

CONSTANTS
  Capacity,    \* size of the receive buffer in chunks
  MaxPlayAt,   \* bound: play_at is in 1..MaxPlayAt
  AnyOrderSize \* bound: how many chunks are queued if they arrive in any order

VARIABLES
  heap,       \* q->data[0 .. q->size-1]
  taken,      \* what pqueue_dequeue returned last
  ordered,    \* whether chunks arrive in the order of play_at
  newest      \* if so, the greatest play_at that has arrived

vars == <<heap, taken, ordered, newest>>

Chunks == {[seqno |-> t, playAt |-> t] : t \in 1..MaxPlayAt}

Init == heap = <<>> /\ taken = <<>> /\ ordered \in BOOLEAN /\ newest = 0

\* intercom_put_chunk
Put(c) ==
  /\ IF ordered THEN c.playAt >= newest ELSE Len(heap) < AnyOrderSize
  /\ newest' = IF ordered THEN c.playAt ELSE newest
  /\ heap' = Enqueue(heap, Capacity, c)
  /\ UNCHANGED <<taken, ordered>>

\* intercom_getnextaudiochunk
Take ==
  /\ heap # <<>>
  /\ taken' = <<Peek(heap)>>
  /\ heap' = Dequeue(heap)
  /\ UNCHANGED <<ordered, newest>>

Next == (\E c \in Chunks : Put(c)) \/ Take

Spec == Init /\ [][Next]_vars

Content == [c \in {heap[i] : i \in DOMAIN heap} |->
              Cardinality({i \in DOMAIN heap : heap[i] = c})]

Abstract == INSTANCE PriorityBag
  WITH Elements <- Chunks, Before <- Precedes, content <- Content

(***************************************************************************)
(* The array heap behaves as the priority queue that pqueue.h describes:   *)
(* no chunk is lost or doubled by the sifting, and each removal yields a   *)
(* chunk that is to be played no later than any other one in the queue.    *)
(***************************************************************************)
IsPriorityQueue == Abstract!Spec
=============================================================================
