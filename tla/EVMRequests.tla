---------------------------- MODULE EVMRequests ----------------------------
(***************************************************************************)
(* The event manager's BUproxy (EVM.cc, readoutunit/BUproxy.h) with its    *)
(* BUposter: builder units send event requests with a priority, the        *)
(* responder threads give events of the input to the requests, tell the    *)
(* readout units which events were chosen, and answer the builder units.   *)
(*                                                                         *)
(* Threads: the I2O callback `cb', the responders, the poster, and the     *)
(* thread `main' of the state machine that starts, drains and stops.       *)
(* A step ends where a lock is taken or released, or where shared state is *)
(* read without one.  fragmentRequestFIFOsMutex_ is a boost::shared_mutex: *)
(* a responder scans with it shared, the callback queues with it upgraded, *)
(* the lumi section transition has it exclusively, and a thread waiting to *)
(* have it exclusively keeps new shared and upgraded owners out.           *)
(***************************************************************************)
EXTENDS Integers, Sequences, FiniteSets

CONSTANTS NbBUs,             \* builder units, TIDs 1 .. NbBUs
          Resources,         \* resources of all builder units
          Owner,             \* the builder unit of a resource
          LowestPriority,    \* priorities 0 .. LowestPriority
          PrioritiesOf,      \* bound: priorities a builder unit ever asks with
          Capacity,          \* fragmentRequestFIFOCapacity
          EventsPerRequest,  \* eventsPerRequest of the builder units
          Responders,        \* numberOfResponders threads
          EventsPerRun,      \* bound: events the input has in one run
          EventsPerLumi,     \* events of one lumi section
          MaxRuns,           \* bound: how often the EVM is started
          MayHalt,           \* may the user halt?
          MayPause           \* may a builder unit stop asking for events?

BU == 1 .. NbBUs
Priorities == 0 .. LowestPriority

ASSUME ConfigurationAssumption ==
  /\ NbBUs \in Nat \ {0}
  /\ Owner \in [Resources -> BU]
  /\ LowestPriority \in Nat
  /\ Capacity \in Nat
  /\ EventsPerRequest \in Nat \ {0}
  /\ EventsPerRun \in Nat \ {0}
  /\ EventsPerLumi \in Nat \ {0}
  /\ MaxRuns \in Nat
  /\ MayHalt \in BOOLEAN
  /\ MayPause \in BOOLEAN

ASSUME PrioritiesAssumption == PrioritiesOf \in [BU -> SUBSET Priorities]

ASSUME RespondersAssumption == IsFiniteSet(Responders)

\* The default capacity, 2048, is far above the resources of a builder unit.
ASSUME CapacityAssumption ==
  \A b \in BU : /\ IsFiniteSet({r \in Resources : Owner[r] = b})
                /\ Cardinality({r \in Resources : Owner[r] = b}) <= Capacity

VARIABLES
  fifo,         \* fragmentRequestFIFOs_: requests by BU and priority
  known,        \* the BU TIDs that have an entry in fragmentRequestFIFOs_
  nextBU,       \* nextBU_; 0 for the iterator of an empty map
  fresh,        \* buTimestamps[b] >= lastLumiTransition_
  transited,    \* lastLumiTransition_ is not 0
  monitor,      \* the responder holding requestMonitoringMutex_, or {}
  turn,         \* the responder holding processingRequestMutex_, or {}
  active,       \* processesActive_
  doProcessing, \* doProcessing_
  outstanding,  \* dataMonitoring_.outstandingEvents
  lastLumi,     \* dataMonitoring_.lastLumiSectionToBUs
  cb,           \* the callback
  rs,           \* the responders
  told,         \* the last event passed to the RUproxy for the RUs
  frames,       \* the frame FIFOs of the BUposter
  posting,      \* the BUposter's doProcessing_
  main,         \* the thread of the state machine
  run,          \* how often the EVM has been started
  nextEvent,    \* the next event of the input
  inputOn,      \* doProcessing_ of the input streams
  hand,         \* events a resource holds at its builder unit
  idle,         \* resources a builder unit can ask events for
  toDiscard     \* events a builder unit has built and not reported

queueVars == <<fifo, known, nextBU>>
lumiVars == <<fresh, transited, lastLumi>>
lockVars == <<monitor, turn>>
processVars == <<active, doProcessing>>
sentVars == <<told, frames, posting>>
mainVars == <<main, run, inputOn, nextEvent>>
buVars == <<hand, idle, toDiscard>>
vars == <<queueVars, lumiVars, lockVars, processVars, sentVars, mainVars,
          buVars, outstanding, cb, rs>>

Nobody == {}
IdleCallback == [pc |-> "idle", bu |-> 0, todo |-> {}, cur |-> {},
                 priority |-> 0, discards |-> 0, recent |-> FALSE]
IdleResponder == [pc |-> "idle", first |-> 0, priority |-> 0, req |-> {},
                  events |-> <<>>]

LastEvent == run * EventsPerRun
EventAvailable == inputOn /\ nextEvent <= LastEvent
LumiSection(e) == ((e - 1) % EventsPerRun) \div EventsPerLumi + 1

\* Mutant of Following: the iterator runs past the end.
FollowingUnwrapped(b) == b + 1

\* The entry after b in the map, back to the first one at the end.
Following(b) ==
  CHOOSE c \in known :
    \A d \in known : (c - b - 1) % NbBUs <= (d - b - 1) % NbBUs

-----------------------------------------------------------------------------
Init ==
  /\ fifo = [b \in BU |-> [p \in Priorities |-> <<>>]]
  /\ known = {}
  /\ nextBU = 0
  /\ fresh = [b \in BU |-> FALSE]
  /\ transited = FALSE
  /\ monitor = Nobody
  /\ turn = Nobody
  /\ active = {}
  /\ doProcessing = FALSE
  /\ outstanding = 0
  /\ lastLumi = 0
  /\ cb = IdleCallback
  /\ rs = [p \in Responders |-> IdleResponder]
  /\ told = 0
  /\ frames = [b \in BU |-> <<>>]
  /\ posting = FALSE
  /\ main = "ready"
  /\ run = 0
  /\ nextEvent = 1
  /\ inputOn = FALSE
  /\ hand = [r \in Resources |-> 0]
  /\ idle = Resources
  /\ toDiscard = [b \in BU |-> 0]

-----------------------------------------------------------------------------
(* The builder units and the poster.                                       *)

\* A message of builder unit b reaches the EVM: requests for its idle resources
\* (none if it is paused or they are blocked), all with the same priority, and
\* all discards not yet reported.
Receive(b) ==
  /\ cb.pc = "idle"
  /\ \E todo \in {{}, {r \in idle : Owner[r] = b}}, priority \in PrioritiesOf[b] :
       /\ todo = {} => MayPause
       /\ todo # {} \/ (toDiscard[b] > 0 /\ priority = 0)
       /\ cb' = [pc |-> "next", bu |-> b, todo |-> todo, cur |-> {},
                 priority |-> priority, discards |-> toDiscard[b],
                 recent |-> TRUE]
       /\ idle' = idle \ todo
  /\ toDiscard' = [toDiscard EXCEPT ![b] = 0]
  /\ UNCHANGED <<queueVars, lumiVars, lockVars, processVars, sentVars,
                mainVars, hand, outstanding, rs>>

\* postFrames: the first frame queued for b goes to the builder unit.
Post(b) ==
  /\ posting
  /\ frames[b] # <<>>
  /\ LET frame == Head(frames[b])
     IN /\ hand' = [hand EXCEPT ![frame.req] = frame.nb]
        /\ idle' = IF frame.nb = 0 THEN idle \cup {frame.req} ELSE idle
  /\ frames' = [frames EXCEPT ![b] = Tail(@)]
  /\ UNCHANGED <<queueVars, lumiVars, lockVars, processVars, told, posting,
                mainVars, toDiscard, outstanding, cb, rs>>

\* The builder unit has built and discarded all events of resource r.
Discard(r) ==
  /\ hand[r] > 0
  /\ hand' = [hand EXCEPT ![r] = 0]
  /\ idle' = idle \cup {r}
  /\ toDiscard' = [toDiscard EXCEPT ![Owner[r]] = @ + hand[r]]
  /\ UNCHANGED <<queueVars, lumiVars, lockVars, processVars, sentVars,
                mainVars, outstanding, cb, rs>>

-----------------------------------------------------------------------------
(* readoutMsgCallback and handleRequest.                                   *)

\* No thread has the map exclusively or waits to have it so.
MapIsShared == \A p \in Responders : rs[p].pc \notin {"wait", "move"}

\* handleRequest takes the upgrade lock; the first request of a builder unit
\* makes its queues, with the map locked exclusively.
CallbackLocks ==
  /\ cb.pc = "next"
  /\ MapIsShared
  /\ \E r \in cb.todo :
       cb' = [cb EXCEPT !.pc = "queue", !.cur = {r}, !.todo = @ \ {r}]
  /\ IF cb.bu \in known
       THEN UNCHANGED <<known, nextBU>>
       ELSE /\ \A p \in Responders : rs[p].pc # "scan"
            /\ known' = known \cup {cb.bu}
            /\ nextBU' = cb.bu
  /\ UNCHANGED <<fifo, lumiVars, lockVars, processVars, sentVars, mainVars,
                buVars, outstanding, rs>>

\* Mutant of CallbackQueues: the lock is kept until the time can be noted.
CallbackQueuesAndStamps ==
  /\ cb.pc = "queue"
  /\ monitor = Nobody
  /\ Len(fifo[cb.bu][cb.priority]) < Capacity
  /\ \E r \in cb.cur :
       fifo' = [fifo EXCEPT ![cb.bu][cb.priority] = Append(@, r)]
  /\ cb' = [cb EXCEPT !.pc = "stamp", !.cur = {}]
  /\ UNCHANGED <<known, nextBU, lumiVars, lockVars, processVars, sentVars,
                mainVars, buVars, outstanding, rs>>

\* enqWait, with the upgrade lock; the lock is released.
CallbackQueues ==
  /\ cb.pc = "queue"
  /\ Len(fifo[cb.bu][cb.priority]) < Capacity
  /\ \E r \in cb.cur :
       fifo' = [fifo EXCEPT ![cb.bu][cb.priority] = Append(@, r)]
  /\ cb' = [cb EXCEPT !.pc = "stamp", !.cur = {}]
  /\ UNCHANGED <<known, nextBU, lumiVars, lockVars, processVars, sentVars,
                mainVars, buVars, outstanding, rs>>

\* The time of the request is noted, under requestMonitoringMutex_.
CallbackStamps ==
  /\ cb.pc = "stamp"
  /\ monitor = Nobody
  /\ fresh' = [fresh EXCEPT ![cb.bu] = cb.recent]
  /\ cb' = [cb EXCEPT !.pc = "next"]
  /\ UNCHANGED <<queueVars, transited, lastLumi, lockVars, processVars,
                sentVars, mainVars, buVars, outstanding, rs>>

\* After the last request of the message its discards are counted.
CallbackCounts ==
  /\ cb.pc = "next"
  /\ cb.todo = {}
  /\ outstanding' = outstanding - cb.discards
  /\ cb' = IdleCallback
  /\ UNCHANGED <<queueVars, lumiVars, lockVars, processVars, sentVars,
                mainVars, buVars, rs>>

Callback == CallbackLocks \/ CallbackQueues \/ CallbackStamps \/ CallbackCounts

-----------------------------------------------------------------------------
(* process and processRequest.                                             *)

\* process looks at doProcessing_ before it shows itself as active.
Enter(p) ==
  /\ rs[p].pc = "idle"
  /\ doProcessing
  /\ rs' = [rs EXCEPT ![p].pc = "entered"]
  /\ UNCHANGED <<queueVars, lumiVars, lockVars, processVars, sentVars,
                mainVars, buVars, outstanding, cb>>

SetActive(p) ==
  /\ rs[p].pc = "entered"
  /\ active' = active \cup {p}
  /\ rs' = [rs EXCEPT ![p].pc = "search"]
  /\ UNCHANGED <<queueVars, lumiVars, lockVars, doProcessing, sentVars,
                mainVars, buVars, outstanding, cb>>

\* Mutant of StartScan: the scan without processingRequestMutex_.
StartScanUnlocked(p) ==
  /\ rs[p].pc = "search"
  /\ MapIsShared
  /\ doProcessing
  /\ known # {}
  /\ turn' = {p}
  /\ rs' = [rs EXCEPT ![p] = [IdleResponder EXCEPT
                    !.pc = "scan", !.first = nextBU]]
  /\ UNCHANGED <<queueVars, lumiVars, monitor, processVars, sentVars, mainVars,
                buVars, outstanding, cb>>

\* The scan for the next request starts at nextBU_ with priority 0.
StartScan(p) ==
  /\ rs[p].pc = "search"
  /\ turn = Nobody
  /\ MapIsShared
  /\ doProcessing
  /\ known # {}
  /\ turn' = {p}
  /\ rs' = [rs EXCEPT ![p] = [IdleResponder EXCEPT
                    !.pc = "scan", !.first = nextBU]]
  /\ UNCHANGED <<queueVars, lumiVars, monitor, processVars, sentVars, mainVars,
                buVars, outstanding, cb>>

\* The queue looked at is empty: on to the next builder unit, and to the next
\* priority once round.
ScanOn(p) ==
  /\ rs[p].pc = "scan"
  /\ rs[p].priority <= LowestPriority
  /\ fifo[nextBU][rs[p].priority] = <<>>
  /\ nextBU' = Following(nextBU)
  /\ rs' = [rs EXCEPT ![p].priority =
                        IF nextBU' = rs[p].first THEN @ + 1 ELSE @]
  /\ UNCHANGED <<fifo, known, lumiVars, lockVars, processVars, sentVars,
                mainVars, buVars, outstanding, cb>>

\* Mutant of Take: the dequeuing inside the assertion is compiled away.
TakeWithoutDeq(p) ==
  /\ rs[p].pc = "scan"
  /\ rs[p].priority <= LowestPriority
  /\ EventAvailable
  /\ LET queue == fifo[nextBU][rs[p].priority]
     IN /\ queue # <<>>
        /\ rs' = [rs EXCEPT ![p].pc = "collect", ![p].req = {Head(queue)},
                            ![p].events = <<nextEvent>>]
  /\ nextBU' = Following(nextBU)
  /\ nextEvent' = nextEvent + 1
  /\ UNCHANGED <<fifo, known, lumiVars, lockVars, processVars, sentVars, main,
                run, inputOn, buVars, outstanding, cb>>

\* A request and an event: both are taken, and the scan ends behind the BU.
Take(p) ==
  /\ rs[p].pc = "scan"
  /\ rs[p].priority <= LowestPriority
  /\ EventAvailable
  /\ LET queue == fifo[nextBU][rs[p].priority]
     IN /\ queue # <<>>
        /\ fifo' = [fifo EXCEPT ![nextBU][rs[p].priority] = Tail(queue)]
        /\ rs' = [rs EXCEPT ![p].pc = "collect", ![p].req = {Head(queue)},
                            ![p].events = <<nextEvent>>]
  /\ nextBU' = Following(nextBU)
  /\ nextEvent' = nextEvent + 1
  /\ UNCHANGED <<known, lumiVars, lockVars, processVars, sentVars, main, run,
                inputOn, buVars, outstanding, cb>>

\* processRequest returns false and process shows the responder as inactive.
Leave(p) ==
  /\ rs' = [rs EXCEPT ![p] = IdleResponder]
  /\ active' = active \ {p}

\* Not processing, no builder unit known.
NothingToScan(p) ==
  /\ rs[p].pc = "search"
  /\ turn = Nobody
  /\ MapIsShared
  /\ ~doProcessing \/ known = {}
  /\ Leave(p)
  /\ UNCHANGED <<queueVars, lumiVars, lockVars, doProcessing, sentVars,
                mainVars, buVars, outstanding, cb>>

\* No request at all, or no event for the one found; nextBU_ stays there.
ScanFails(p) ==
  /\ rs[p].pc = "scan"
  /\ IF rs[p].priority > LowestPriority
       THEN TRUE
       ELSE fifo[nextBU][rs[p].priority] # <<>> /\ ~EventAvailable
  /\ turn' = Nobody
  /\ Leave(p)
  /\ UNCHANGED <<queueVars, lumiVars, monitor, doProcessing, sentVars,
                mainVars, buVars, outstanding, cb>>

\* More events for the request, as long as the input has some in time.
Collect(p) ==
  /\ rs[p].pc = "collect"
  /\ Len(rs[p].events) < EventsPerRequest
  /\ EventAvailable
  /\ rs' = [rs EXCEPT ![p].events = Append(@, nextEvent)]
  /\ nextEvent' = nextEvent + 1
  /\ UNCHANGED <<queueVars, lumiVars, lockVars, processVars, sentVars, main,
                run, inputOn, buVars, outstanding, cb>>

\* Enough events, or none came within maxTriggerAgeMSec: the request is passed
\* to the RUproxy, and only then processingRequestMutex_ is released.
Tell(p) ==
  /\ rs[p].pc = "collect"
  /\ monitor = Nobody
  /\ told' = rs[p].events[Len(rs[p].events)]
  /\ turn' = Nobody
  /\ rs' = [rs EXCEPT ![p].pc = "send"]
  /\ UNCHANGED <<queueVars, lumiVars, monitor, processVars, frames, posting,
                mainVars, buVars, outstanding, cb>>

\* HaltRequested: the request and the events collected for it are gone.
HaltRequested(p) ==
  /\ rs[p].pc = "collect"
  /\ Len(rs[p].events) < EventsPerRequest
  /\ ~inputOn
  /\ turn' = Nobody
  /\ Leave(p)
  /\ UNCHANGED <<queueVars, lumiVars, monitor, doProcessing, sentVars,
                mainVars, buVars, outstanding, cb>>

-----------------------------------------------------------------------------
(* sendData and doLumiSectionTransition.                                   *)

Frame(r, n) == [req |-> r, nb |-> n]

Send(p) ==
  /\ rs[p].pc = "send"
  /\ \E r \in rs[p].req :
       LET frame == Frame(r, Len(rs[p].events))
       IN frames' = [frames EXCEPT ![Owner[r]] = Append(@, frame)]
  /\ rs' = [rs EXCEPT ![p].pc = "count"]
  /\ UNCHANGED <<queueVars, lumiVars, lockVars, processVars, told, posting,
                mainVars, buVars, outstanding, cb>>

\* Mutant of Count: the events asked for are counted.
CountRequested(p) ==
  /\ rs[p].pc = "count"
  /\ LET n == Len(rs[p].events)
         lumi == LumiSection(rs[p].events[n])
         transition == lumi > lastLumi /\ lumi > 1
     IN /\ outstanding' = outstanding + EventsPerRequest
        /\ lastLumi' = IF lumi > lastLumi THEN lumi ELSE lastLumi
        /\ rs' = [rs EXCEPT ![p] = [IdleResponder EXCEPT
                    !.pc = IF transition THEN "lumi" ELSE "search"]]
  /\ UNCHANGED <<queueVars, fresh, transited, lockVars, processVars, sentVars,
                mainVars, buVars, cb>>

\* The events are counted after their frames were queued.
Count(p) ==
  /\ rs[p].pc = "count"
  /\ LET n == Len(rs[p].events)
         lumi == LumiSection(rs[p].events[n])
         transition == lumi > lastLumi /\ lumi > 1
     IN /\ outstanding' = outstanding + n
        /\ lastLumi' = IF lumi > lastLumi THEN lumi ELSE lastLumi
        /\ rs' = [rs EXCEPT ![p] = [IdleResponder EXCEPT
                    !.pc = IF transition THEN "lumi" ELSE "search"]]
  /\ UNCHANGED <<queueVars, fresh, transited, lockVars, processVars, sentVars,
                mainVars, buVars, cb>>

TransitionLocksMonitor(p) ==
  /\ rs[p].pc = "lumi"
  /\ monitor = Nobody
  /\ monitor' = {p}
  /\ rs' = [rs EXCEPT ![p].pc = "wait"]
  /\ UNCHANGED <<queueVars, lumiVars, turn, processVars, sentVars, mainVars,
                buVars, outstanding, cb>>

TransitionLocksMap(p) ==
  /\ rs[p].pc = "wait"
  /\ cb.pc # "queue"
  /\ \A q \in Responders : rs[q].pc \notin {"scan", "move"}
  /\ rs' = [rs EXCEPT ![p].pc = "move"]
  /\ UNCHANGED <<queueVars, lumiVars, lockVars, processVars, sentVars,
                mainVars, buVars, outstanding, cb>>

IsStale(b) == transited /\ ~fresh[b]
HasLower(b) == \E p \in Priorities \ {0} : fifo[b][p] # <<>>
\* The queue of the lowest priority that is not empty.
Lowest(b) ==
  CHOOSE p \in Priorities \ {0} :
    /\ fifo[b][p] # <<>>
    /\ \A q \in Priorities \ {0} : fifo[b][q] # <<>> => q <= p

\* A stale builder unit gets its requests back without events, highest
\* priority first.
TransitionReturns(p) ==
  /\ rs[p].pc = "move"
  /\ \E b \in known, q \in Priorities :
       /\ IsStale(b)
       /\ fifo[b][q] # <<>>
       /\ \A lower \in 0 .. q - 1 : fifo[b][lower] = <<>>
       /\ fifo' = [fifo EXCEPT ![b][q] = Tail(@)]
       /\ frames' = [frames EXCEPT ![b] = Append(@, Frame(Head(fifo[b][q]), 0))]
  /\ UNCHANGED <<known, nextBU, lumiVars, lockVars, processVars, told, posting,
                 mainVars, buVars, outstanding, cb, rs>>

\* The first request of the lowest priority gets priority 0.
Promoted(b) ==
  [fifo[b] EXCEPT ![0] = Append(@, Head(fifo[b][Lowest(b)])),
                  ![Lowest(b)] = Tail(@)]

\* The other builder units have a request promoted; all locks are released.
TransitionMoves(p) ==
  /\ rs[p].pc = "move"
  /\ \A b \in known : IF IsStale(b) THEN \A q \in Priorities : fifo[b][q] = <<>>
                      ELSE HasLower(b) => Len(fifo[b][0]) < Capacity
  /\ fifo' = [b \in BU |-> IF b \in known /\ ~IsStale(b) /\ HasLower(b)
                            THEN Promoted(b) ELSE fifo[b]]
  /\ fresh' = [b \in BU |-> FALSE]
  /\ transited' = TRUE
  /\ cb' = [cb EXCEPT !.recent = FALSE]
  /\ monitor' = Nobody
  /\ rs' = [rs EXCEPT ![p].pc = "search"]
  /\ UNCHANGED <<known, nextBU, lastLumi, turn, processVars, sentVars, mainVars,
                 buVars, outstanding>>

Respond(p) ==
  \/ SetActive(p) \/ StartScan(p) \/ ScanOn(p) \/ Take(p) \/ NothingToScan(p)
  \/ ScanFails(p) \/ Tell(p) \/ HaltRequested(p) \/ Send(p) \/ Count(p)
  \/ TransitionLocksMonitor(p) \/ TransitionLocksMap(p) \/ TransitionReturns(p)
  \/ TransitionMoves(p)

-----------------------------------------------------------------------------
(* The state machine: Start, Stop with draining, Halt.                     *)

Start ==
  /\ main = "ready"
  /\ run < MaxRuns
  /\ main' = "running"
  /\ run' = run + 1
  /\ inputOn' = TRUE
  /\ doProcessing' = TRUE
  /\ posting' = TRUE
  /\ outstanding' = 0
  /\ lastLumi' = 0
  /\ fresh' = [b \in BU |-> FALSE]
  /\ UNCHANGED <<queueVars, transited, lockVars, active, told, frames,
                nextEvent, buVars, cb, rs>>

\* Stop: the input is drained first.
Stop ==
  /\ main = "running"
  /\ nextEvent > LastEvent
  /\ main' = "drain"
  /\ UNCHANGED <<queueVars, lumiVars, lockVars, processVars, sentVars, run,
                inputOn, nextEvent, buVars, outstanding, cb, rs>>

\* isEmpty reads the two conditions one after the other.
NoneOutstanding ==
  /\ main = "drain"
  /\ outstanding = 0
  /\ main' = "drainActive"
  /\ UNCHANGED <<queueVars, lumiVars, lockVars, processVars, sentVars, run,
                inputOn, nextEvent, buVars, outstanding, cb, rs>>

\* BUposter::drain follows; it never waits, as usleep returns 0.
NoneActive ==
  /\ main = "drainActive"
  /\ main' = IF active = {} THEN "drained" ELSE "drain"
  /\ UNCHANGED <<queueVars, lumiVars, lockVars, processVars, sentVars, run,
                inputOn, nextEvent, buVars, outstanding, cb, rs>>

\* Leaving Running: the input stops, then the BUproxy.
StopProcessing ==
  /\ main = "drained"
  /\ main' = "stopping"
  /\ inputOn' = FALSE
  /\ doProcessing' = FALSE
  /\ UNCHANGED <<queueVars, lumiVars, lockVars, active, sentVars, run,
                nextEvent, buVars, outstanding, cb, rs>>

Halt ==
  /\ MayHalt
  /\ main \in {"running", "drain", "drainActive"}
  /\ main' = "halting"
  /\ inputOn' = FALSE
  /\ doProcessing' = FALSE
  /\ UNCHANGED <<queueVars, lumiVars, lockVars, active, sentVars, run,
                nextEvent, buVars, outstanding, cb, rs>>

\* No responder is active: the poster stops and drops the frames it has.
PosterStops ==
  /\ main \in {"stopping", "halting"}
  /\ active = {}
  /\ main' = IF main = "stopping" THEN "ready" ELSE "halted"
  /\ posting' = FALSE
  /\ frames' = [b \in BU |-> <<>>]
  /\ UNCHANGED <<queueVars, lumiVars, lockVars, processVars, told, run,
                inputOn, nextEvent, buVars, outstanding, cb, rs>>

Main == Start \/ Stop \/ NoneOutstanding \/ NoneActive \/ StopProcessing
        \/ Halt \/ PosterStops

-----------------------------------------------------------------------------
Next ==
  \/ \E b \in BU : Receive(b) \/ Post(b)
  \/ \E r \in Resources : Discard(r)
  \/ Callback
  \/ \E p \in Responders : Enter(p) \/ Collect(p) \/ Respond(p)
  \/ Main

Spec == Init /\ [][Next]_vars

\* Threads that can go on do so.  Nothing makes a builder unit ask or discard,
\* and nothing makes the user stop or halt; nobody waits for the poster.
Fairness ==
  /\ WF_cb(Callback)
  /\ \A p \in Responders : WF_<<rs, nextBU>>(Enter(p) \/ Respond(p))
  /\ WF_main(NoneActive \/ StopProcessing \/ PosterStops)

FairSpec == Spec /\ Fairness

-----------------------------------------------------------------------------
(* Properties.                                                             *)

CallbackType ==
  [pc : {"idle", "next", "queue", "stamp"}, bu : BU \cup {0},
   todo : SUBSET Resources, cur : SUBSET Resources, priority : Priorities,
   discards : Nat, recent : BOOLEAN]
ResponderType ==
  [pc : {"idle", "entered", "search", "scan", "collect", "send", "count",
         "lumi", "wait", "move"},
   first : BU \cup {0}, priority : 0 .. LowestPriority + 1,
   req : SUBSET Resources, events : Seq(Nat)]
FrameType == [req : Resources, nb : Nat]

\* The types of the variables.
TypeOK ==
  /\ fifo \in [BU -> [Priorities -> Seq(Resources)]]
  /\ known \in SUBSET BU
  /\ nextBU \in BU \cup {0}
  /\ fresh \in [BU -> BOOLEAN]
  /\ transited \in BOOLEAN
  /\ monitor \in SUBSET Responders
  /\ turn \in SUBSET Responders
  /\ active \in SUBSET Responders
  /\ doProcessing \in BOOLEAN
  /\ outstanding \in Int
  /\ lastLumi \in Nat
  /\ cb \in CallbackType
  /\ rs \in [Responders -> ResponderType]
  /\ told \in Nat
  /\ frames \in [BU -> Seq(FrameType)]
  /\ posting \in BOOLEAN
  /\ main \in {"ready", "running", "drain", "drainActive", "drained",
               "stopping", "halting", "halted"}
  /\ run \in Nat
  /\ nextEvent \in Nat
  /\ inputOn \in BOOLEAN
  /\ hand \in [Resources -> Nat]
  /\ idle \in SUBSET Resources
  /\ toDiscard \in [BU -> Nat]

\* enqWait never waits for room: the callback would hold the upgrade lock
\* then, and the transition the exclusive one, that the responders need to
\* make room (EVM.cc:213, 251).
RequestsFindRoom ==
  /\ cb.pc = "queue" => Len(fifo[cb.bu][cb.priority]) < Capacity
  /\ \A p \in Responders : rs[p].pc = "move" =>
       \A b \in known : ~IsStale(b) /\ HasLower(b) => Len(fifo[b][0]) < Capacity

\* The responders take events under processingRequestMutex_ and pass them to
\* the RUproxy before they release it (EVM.cc:265-335): the RUs are told all
\* events in the order of the input, but those lost with a HaltRequested, and
\* no event is sent to a builder unit that the RUs have not been told.
RUsAreToldInOrder ==
  \A p \in Responders :
    /\ rs[p].pc = "collect" =>
         \A i \in 1 .. Len(rs[p].events) : rs[p].events[i] = told + i
    /\ rs[p].pc \in {"send", "count"} =>
         \A i \in 1 .. Len(rs[p].events) : rs[p].events[i] <= told

\* While the EVM runs, a waiting request and an available event never stay
\* waiting (EVM.cc:263; the events are finitely many): no order of callback,
\* responders and transitions leaves them waiting for each other's locks.
Wanting == \E b \in known : \E p \in Priorities : fifo[b][p] # <<>>
EventsFlow == []<>(~ (doProcessing /\ EventAvailable /\ Wanting))

\* Stopping and halting end: no responder keeps its active bit
\* (readoutunit/BUproxy.h:289).
StopEnds == []<>(main \notin {"stopping", "halting"})

\* drain() returns when no builder unit has events any more
\* (readoutunit/BUproxy.h:100).  It does not hold: a responder may finish
\* between the two looks of isEmpty(), with its events not counted yet.
DrainDelivers ==
  main = "drained" =>
    /\ \A r \in Resources : hand[r] = 0
    /\ \A b \in BU : \A i \in 1 .. Len(frames[b]) : frames[b][i].nb = 0
=============================================================================
