------------------------------- MODULE PQueue -------------------------------
(***************************************************************************)
(* The array heap of pqueue.c, holding the chunks of the client's receive  *)
(* buffer: receivebuffer_cmp gives the chunk with the smallest play_at the *)
(* greatest priority.  A heap is the sequence q->data[0 .. q->size-1]; the *)
(* C index i is position i+1.                                              *)
(***************************************************************************)
EXTENDS Naturals, Sequences

\* A chunk is known by its sequence number and the time it is to be played at.
Chunk == [seqno : Nat, playAt : Nat]

\* receivebuffer_cmp(c, d) > 0, that is chunk_cmp(d, c) > 0.
Precedes(c, d) == c.playAt < d.playAt

Left(i) == 2 * i + 1
Right(i) == 2 * i + 2

\* PARENT is not the inverse of LEFT and RIGHT: Parent(Right(i)) is i + 1.
Parent(i) == i \div 2

At(q, i) == q[i + 1]
Swap(q, i, j) == [q EXCEPT ![i + 1] = q[j + 1], ![j + 1] = q[i + 1]]

\* The variables of the loops below: a queue and an index of it.
Positions == {s \in Seq(Chunk) \X Nat : s[2] < Len(s[1])}

\* The loop of pqueue_enqueue.
SiftUp[s \in Positions] ==
  LET q == s[1]
      i == s[2]
  IN  IF i > 0 /\ Precedes(At(q, i), At(q, Parent(i)))
      THEN SiftUp[<<Swap(q, i, Parent(i)), Parent(i)>>]
      ELSE q

\* Mutant: the right child is never looked at.
LeftOnly(q, i) ==
  IF Left(i) < Len(q) /\ Precedes(At(q, Left(i)), At(q, i)) THEN Left(i) ELSE i

\* Which of i and its children pqueue_heapify puts at i.
Foremost(q, i) ==
  LET l == IF Left(i) < Len(q) /\ Precedes(At(q, Left(i)), At(q, i))
           THEN Left(i) ELSE i
  IN  IF Right(i) < Len(q) /\ Precedes(At(q, Right(i)), At(q, l))
      THEN Right(i) ELSE l

\* pqueue_heapify, which is called for index 0 of an empty queue, too.
Heapify[s \in Positions \cup {<<<<>>, 0>>}] ==
  LET q == s[1]
      i == s[2]
      f == Foremost(q, i)
  IN  IF f # i THEN Heapify[<<Swap(q, i, f), f>>] ELSE q

\* pqueue_enqueue: a full queue drops the element and tells nobody.
Enqueue(q, capacity, c) ==
  IF Len(q) >= capacity THEN q ELSE SiftUp[<<Append(q, c), Len(q)>>]

Peek(q) == At(q, 0)

\* pqueue_dequeue, of a queue that is not empty: what is left of it.
Dequeue(q) ==
  LET moved == [q EXCEPT ![1] = q[Len(q)]]
  IN  Heapify[<<SubSeq(moved, 1, Len(q) - 1), 0>>]
=============================================================================
