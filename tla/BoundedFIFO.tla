---------------------------- MODULE BoundedFIFO ----------------------------
(***************************************************************************)
(* What evb::OneToOneQueue promises its users: one producer appends, one   *)
(* consumer takes the elements out in the same order, nothing is lost or   *)
(* duplicated, and the number of queued elements never exceeds the         *)
(* capacity.  While the queue is being cleared the consumer side throws    *)
(* elements away, and the clearing ends only on an empty queue.  The       *)
(* capacity changes only while the queue is empty.                         *)
(***************************************************************************)
EXTENDS Naturals, Sequences

CONSTANTS Element,     \* what can be stored
          Capacities   \* the capacities resize() is called with

VARIABLES queue,       \* the stored elements, oldest first
          capacity,    \* how many of them fit
          clearing,    \* clear() is in progress
          received     \* what the last deq() that returned true handed over

vars == <<queue, capacity, clearing, received>>

Init ==
  /\ queue = <<>>
  /\ capacity = 0
  /\ clearing = FALSE
  /\ received \in Element

Enq ==
  /\ Len(queue) < capacity
  /\ \E e \in Element : queue' = Append(queue, e)
  /\ UNCHANGED <<capacity, clearing, received>>

Deq ==
  /\ ~clearing
  /\ queue # <<>>
  /\ queue' = Tail(queue)
  /\ received' = Head(queue)
  /\ UNCHANGED <<capacity, clearing>>

Discard ==
  /\ clearing
  /\ queue # <<>>
  /\ queue' = Tail(queue)
  /\ UNCHANGED <<capacity, clearing, received>>

StartClear ==
  /\ ~clearing
  /\ clearing' = TRUE
  /\ UNCHANGED <<queue, capacity, received>>

EndClear ==
  /\ clearing
  /\ queue = <<>>
  /\ clearing' = FALSE
  /\ UNCHANGED <<queue, capacity, received>>

Resize ==
  /\ queue = <<>>
  /\ capacity' \in Capacities
  /\ UNCHANGED <<queue, clearing, received>>

Next == Enq \/ Deq \/ Discard \/ StartClear \/ EndClear \/ Resize

Spec == Init /\ [][Next]_vars
=============================================================================
