---------------------------- MODULE PriorityBag ----------------------------
(***************************************************************************)
(* What pqueue.h promises of a priority queue with a capacity: an element  *)
(* that is added while there is room stays until it is taken out, and what *)
(* is taken out is an element that no other one precedes ("Removes the     *)
(* element with the greatest priority", pqueue.h:45).                      *)
(***************************************************************************)
EXTENDS Naturals, Bags

CONSTANTS Elements, Capacity, Before(_, _)

VARIABLES
  content,  \* the bag of elements in the queue
  taken     \* the element that was taken out last, in a sequence; or <<>>

Init == content = EmptyBag /\ taken = <<>>

Put(e) ==
  /\ content' = IF BagCardinality(content) < Capacity
                THEN content (+) SetToBag({e})
                ELSE content
  /\ UNCHANGED taken

Take(e) ==
  /\ BagIn(e, content)
  /\ \A d \in BagToSet(content) : ~Before(d, e)
  /\ content' = content (-) SetToBag({e})
  /\ taken' = <<e>>

Next == \E e \in Elements : Put(e) \/ Take(e)

Spec == Init /\ [][Next]_<<content, taken>>
=============================================================================
