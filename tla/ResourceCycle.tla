--------------------------- MODULE ResourceCycle ---------------------------
(***************************************************************************)
(* What the resources of a builder unit are for: a free resource is        *)
(* requested, the request is answered with events nobody has seen before   *)
(* or given back, the events are discarded one by one, and only the empty  *)
(* resource is free again.  The event manager is told of every discarded   *)
(* event once, never in advance.                                           *)
(***************************************************************************)
EXTENDS Integers, FiniteSets

CONSTANTS Resources, Events, EventsPerRequest

VARIABLES status,      \* [resource -> "free", "requested" or "used"]
          events,      \* [resource -> its events]
          seen,        \* every event ever put into a resource
          discarded,   \* number of events discarded
          told         \* number of them the event manager has been told of

vars == <<status, events, seen, discarded, told>>

Init ==
  /\ status = [r \in Resources |-> "free"]
  /\ events = [r \in Resources |-> {}]
  /\ seen = {}
  /\ discarded = 0
  /\ told = 0

Request(r) ==
  /\ status[r] = "free"
  /\ status' = [status EXCEPT ![r] = "requested"]
  /\ UNCHANGED <<events, seen, discarded, told>>

Tell(n) ==
  /\ told + n <= discarded
  /\ told' = told + n
  /\ UNCHANGED <<status, events, seen, discarded>>

Answer(r, new) ==
  /\ status[r] = "requested"
  /\ new # {} /\ Cardinality(new) <= EventsPerRequest
  /\ new \cap seen = {}
  /\ status' = [status EXCEPT ![r] = "used"]
  /\ events' = [events EXCEPT ![r] = new]
  /\ seen' = seen \cup new
  /\ UNCHANGED <<discarded, told>>

GiveBack(r) ==
  /\ status[r] = "requested"
  /\ status' = [status EXCEPT ![r] = "free"]
  /\ UNCHANGED <<events, seen, discarded, told>>

Discard(r, e) ==
  /\ status[r] = "used"
  /\ e \in events[r]
  /\ events' = [events EXCEPT ![r] = @ \ {e}]
  /\ discarded' = discarded + 1
  /\ UNCHANGED <<status, seen, told>>

Free(r) ==
  /\ status[r] = "used"
  /\ events[r] = {}
  /\ status' = [status EXCEPT ![r] = "free"]
  /\ UNCHANGED <<events, seen, discarded, told>>

Next ==
  \/ \E r \in Resources :
       \/ Request(r) \/ GiveBack(r) \/ Free(r)
       \/ \E new \in SUBSET Events : Answer(r, new)
       \/ \E e \in events[r] : Discard(r, e)
  \/ \E n \in 0 .. discarded : Tell(n)

Spec == Init /\ [][Next]_vars
=============================================================================
