------------------------- MODULE EVMRequestsHistory -------------------------
(***************************************************************************)
(* EVMRequests with three history variables, for the properties that tell  *)
(* of several steps: nothing of the event requests and of the events that  *)
(* are out is lost or counted twice, and the builder units get their turn. *)
(* No action of EVMRequests depends on them.                               *)
(***************************************************************************)
EXTENDS EVMRequests, Functions

CONSTANT Watched   \* the builder unit whose turn is watched: they are alike

ASSUME WatchedAssumption == Watched \in BU

VARIABLES carried,   \* events the builder units had when the run started
          dropped,   \* resources whose request or frame was dropped
          passed     \* builder units served while Watched waits with priority 0

historyVars == <<vars, carried, dropped, passed>>

\* Where requests for resource r are in the FIFOs: builder unit, priority and
\* index; and where the frames are that answer it.
QueuedAt(r) ==
  {at \in BU \X Priorities \X (1 .. Capacity) :
     LET queue == fifo[at[1]][at[2]] IN at[3] <= Len(queue) /\ queue[at[3]] = r}
FramesOf(r) ==
  {at \in BU \X (1 .. Cardinality(Resources)) :
     at[2] <= Len(frames[at[1]]) /\ frames[at[1]][at[2]].req = r}

\* Events in frames, at builder units, and in discards on their way.
EventsOf(s) == SumFunction([i \in 1 .. Len(s) |-> s[i].nb])
EventsInFrames == SumFunction([b \in BU |-> EventsOf(frames[b])])
EventsWithBUs ==
  EventsInFrames + SumFunction(hand) + SumFunction(toDiscard) + cb.discards
EventsNotCounted ==
  SumFunction([p \in Responders |->
                 IF rs[p].pc = "count" THEN Len(rs[p].events) ELSE 0])

\* The builder unit served by this step, if any.
Served ==
  {nextBU : p \in {q \in Responders : /\ rs[q].pc = "scan"
                                     /\ rs'[q].pc = "collect"}}
WaitsFirst(b) == fifo[b][0] # <<>>

HistoryInit ==
  /\ Init
  /\ carried = 0
  /\ dropped = {}
  /\ passed = {}

HistoryNext ==
  /\ Next
  /\ carried' = IF main = "ready" /\ main' = "running" THEN EventsWithBUs
                ELSE carried
  /\ dropped' = dropped
       \cup (IF posting /\ ~posting'
               THEN {r \in Resources : FramesOf(r) # {}} ELSE {})
       \cup UNION {rs[p].req : p \in {q \in Responders : rs[q].pc = "collect"
                                                        /\ rs'[q].pc = "idle"}}
  /\ passed' = IF known' = known /\ WaitsFirst(Watched) /\ Watched \notin Served
                 THEN passed \cup Served ELSE {}

HistorySpec == HistoryInit /\ [][HistoryNext]_historyVars
FairHistorySpec == HistorySpec /\ Fairness

-----------------------------------------------------------------------------
(* Properties.                                                             *)

\* outstandingEvents counts the events that frames, builder units and discards
\* on their way hold, less those of a frame that is queued but not counted yet
\* (readoutunit/BUproxy.h:332, 545), and less what an earlier run left there
\* when the counter was reset (769).
OutstandingAddsUp ==
  posting => outstanding + carried + EventsNotCounted = EventsWithBUs

\* A request is with its builder unit, in the message being read, in one queue,
\* with one responder, or answered by one frame: no request is queued twice,
\* answered twice or lost, but by a HaltRequested or by the poster's stop.
Places(r) ==
  (IF r \in idle THEN 1 ELSE 0) + (IF hand[r] > 0 THEN 1 ELSE 0)
  + (IF r \in cb.todo THEN 1 ELSE 0) + (IF r \in cb.cur THEN 1 ELSE 0)
  + Cardinality(QueuedAt(r)) + Cardinality(FramesOf(r))
  + Cardinality({p \in Responders : r \in rs[p].req
                                    /\ rs[p].pc \in {"collect", "send"}})
RequestsConserved ==
  \A r \in Resources : Places(r) = IF r \in dropped THEN 0 ELSE 1

\* The events that are out and the requests that wait for some, both handed
\* from thread to thread under different locks, are each counted once.
NothingLost == OutstandingAddsUp /\ RequestsConserved

\* While a request of a builder unit waits with priority 0, no other builder
\* unit is served twice (EVM.cc:279-297), unless a new one registers, which
\* moves nextBU_ (202).
ServedInTurn ==
  [][WaitsFirst(Watched) /\ Watched \notin Served => Served \cap passed = {}]_historyVars

\* Requests are served in turn, and neither they nor a stop wait for ever.
RequestsServed == ServedInTurn /\ EventsFlow /\ StopEnds
=============================================================================
