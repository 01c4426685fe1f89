-------------------------- MODULE ResourceManager --------------------------
(***************************************************************************)
(* The event requests of one builder unit: evb::bu::ResourceManager with   *)
(* the parts of evb::bu::RUproxy that call it.                             *)
(*                                                                         *)
(* A BU owns a fixed set of resources, each worth eventsPerRequest events. *)
(* The requestFragments thread takes free resources from resourceFIFO_ and *)
(* sends them to the EVM.  The EVM assigns events to a resource, and every *)
(* readout unit sends its super-fragments for them in one or more blocks,  *)
(* which superFragmentCallback() collects per RU and resource.  A builder  *)
(* thread discards the events of a resource once they are built, and the   *)
(* last one frees the resource.  The number of discarded events travels to *)
(* the EVM with the next request.  Meanwhile the resource monitor blocks   *)
(* and unblocks resources, and the state machine pauses the requests.      *)
(***************************************************************************)
EXTENDS Integers, Sequences, FiniteSets

CONSTANTS NbResources,       \* nbResources_
          NumberOfBuilders,
          EventsPerRequest,
          RUs,               \* the units that send super-fragments ...
          EVM,               \* ... of which one is the EVM
          MaxBlocks,         \* blocks needed for the super-fragments of an RU
          LocalInput,        \* the EVM generates its events itself
          MaxEvents          \* bound on the number of events

ASSUME ResourcesAssumption ==
  /\ NbResources \in Nat \ {0}
  /\ NumberOfBuilders \in Nat \ {0}
  /\ EventsPerRequest \in Nat \ {0}
  /\ MaxBlocks \in Nat \ {0}
  /\ MaxEvents \in Nat
  /\ LocalInput \in BOOLEAN
ASSUME EVMAssumption == EVM \in RUs

VARIABLES builderId, blocked, evbIdList,   \* builderResources_
          resourceFIFO,
          blockedResources, eventsToDiscard, lastBuilder,
          nbEventsInBU, outstandingRequests,
          requestEvents, doProcessing,
          loop,          \* the requestFragments thread
          dataBlockMap,  \* blocks still missing, 0 for no entry
          built,         \* RUs whose super-fragments the builder has
          freeing,       \* resources whose last event is being discarded
          requested,     \* resources the EVM has a request for
          returned,      \* resources the EVM sends back without events
          assigned,      \* the events the EVM assigned to each resource
          chain,         \* the blocks each RU still sends for a resource
          nextEvent,     \* the next event the EVM assigns
          reported       \* discarded events the EVM has been told of

rmVars == <<builderId, blocked, evbIdList, resourceFIFO, blockedResources,
            eventsToDiscard, lastBuilder, nbEventsInBU, outstandingRequests>>
evmVars == <<requested, returned, assigned, nextEvent, reported>>
vars == <<rmVars, requestEvents, doProcessing, loop, dataBlockMap, built,
          freeing, evmVars, chain>>

Resources == 1 .. NbResources
Events == 1 .. MaxEvents
Unassigned == -1                          \* no builder ID

(***************************************************************************)
(* What the requestFragments thread has collected: the resources and the   *)
(* discards of one message to the EVM.  pos is the resource it has taken   *)
(* from the FIFO and not yet looked at.                                    *)
(***************************************************************************)
Idle == [pc |-> "idle", pos |-> 1, ids |-> {}, discards |-> 0]

NoBlocks == [left |-> 0, total |-> 0]

(* configure() and configureResources(), with and without dropEventData *)
Init ==
  /\ builderId = [r \in Resources |-> Unassigned]
  /\ evbIdList = [r \in Resources |-> {}]
  /\ \/ blocked = [r \in Resources |-> TRUE] /\ blockedResources = NbResources
     \/ blocked = [r \in Resources |-> FALSE] /\ blockedResources = 0
  /\ resourceFIFO = [k \in Resources |-> k]
  /\ eventsToDiscard = 0
  /\ lastBuilder = 0
  /\ nbEventsInBU = 0
  /\ outstandingRequests = 0
  /\ requestEvents = TRUE
  /\ doProcessing = FALSE
  /\ loop = Idle
  /\ dataBlockMap = [ru \in RUs |-> [r \in Resources |-> 0]]
  /\ built = [r \in Resources |-> {}]
  /\ freeing = {}
  /\ requested = {}
  /\ returned = {}
  /\ assigned = [r \in Resources |-> {}]
  /\ chain = [ru \in RUs |-> [r \in Resources |-> NoBlocks]]
  /\ nextEvent = 1
  /\ reported = 0
-----------------------------------------------------------------------------
(***************************************************************************)
(* The requestFragments thread: getAllAvailableResources(), sendRequests().*)
(* blockedResources_, requestEvents_, the flag of the resource and         *)
(* eventsToDiscard_ are read without the locks their writers hold.         *)
(***************************************************************************)
loopOnly == UNCHANGED <<requestEvents, doProcessing, dataBlockMap, built,
                        freeing, evmVars, chain>>

AllBlocked == blockedResources = NbResources \/ ~requestEvents

(* Mutant of GetDiscardsOnly: the discards are sent and kept. *)
GetDiscardsTwice ==
  /\ loop.pc = "idle"
  /\ AllBlocked
  /\ eventsToDiscard > 0
  /\ loop' = [loop EXCEPT !.pc = "send", !.discards = eventsToDiscard]
  /\ UNCHANGED <<eventsToDiscard, builderId, blocked, evbIdList, resourceFIFO, blockedResources,
                 lastBuilder, nbEventsInBU, outstandingRequests>>
  /\ loopOnly

GetDiscardsOnly ==
  /\ loop.pc = "idle"
  /\ AllBlocked
  /\ eventsToDiscard > 0
  /\ loop' = [loop EXCEPT !.pc = "send", !.discards = eventsToDiscard]
  /\ eventsToDiscard' = 0
  /\ UNCHANGED <<builderId, blocked, evbIdList, resourceFIFO, blockedResources,
                 lastBuilder, nbEventsInBU, outstandingRequests>>
  /\ loopOnly

GetResources ==
  /\ loop.pc = "idle"
  /\ doProcessing
  /\ ~AllBlocked
  /\ loop' = [loop EXCEPT !.pc = "deq"]
  /\ UNCHANGED rmVars
  /\ loopOnly

DeqResource ==
  /\ loop.pc = "deq"
  /\ doProcessing
  /\ resourceFIFO # <<>>
  /\ loop' = [loop EXCEPT !.pc = "check", !.pos = Head(resourceFIFO)]
  /\ resourceFIFO' = Tail(resourceFIFO)
  /\ UNCHANGED <<builderId, blocked, evbIdList, blockedResources,
                 eventsToDiscard, lastBuilder, nbEventsInBU, outstandingRequests>>
  /\ loopOnly

StopDeq ==
  /\ loop.pc = "deq"
  /\ ~doProcessing \/ resourceFIFO = <<>>
  /\ loop' = [loop EXCEPT !.pc = "send"]
  /\ UNCHANGED rmVars
  /\ loopOnly

(* Mutant of PutBackBlocked: the blocked resource stays at the head. *)
PutBackInFront ==
  /\ loop.pc = "check"
  /\ blocked[loop.pos]
  /\ Len(resourceFIFO) < NbResources
  /\ resourceFIFO' = <<loop.pos>> \o resourceFIFO
  /\ loop' = [loop EXCEPT !.pc = "send"]
  /\ UNCHANGED <<builderId, blocked, evbIdList, blockedResources,
                 eventsToDiscard, lastBuilder, nbEventsInBU, outstandingRequests>>
  /\ loopOnly

PutBackBlocked ==
  /\ loop.pc = "check"
  /\ blocked[loop.pos]
  /\ Len(resourceFIFO) < NbResources
  /\ resourceFIFO' = Append(resourceFIFO, loop.pos)
  /\ loop' = [loop EXCEPT !.pc = "send"]
  /\ UNCHANGED <<builderId, blocked, evbIdList, blockedResources,
                 eventsToDiscard, lastBuilder, nbEventsInBU, outstandingRequests>>
  /\ loopOnly

(* Mutant of TakeResource: the builder number is not wrapped. *)
TakeResourceNoModulo ==
  /\ loop.pc = "check"
  /\ ~blocked[loop.pos]
  /\ lastBuilder' = lastBuilder + 1
  /\ builderId' = [builderId EXCEPT ![loop.pos] = lastBuilder']
  /\ loop' = [loop EXCEPT !.pc = "deq", !.ids = @ \cup {loop.pos},
                          !.discards = @ + eventsToDiscard]
  /\ eventsToDiscard' = 0
  /\ outstandingRequests' = outstandingRequests + 1
  /\ UNCHANGED <<blocked, evbIdList, resourceFIFO, blockedResources, nbEventsInBU>>
  /\ loopOnly

TakeResource ==
  /\ loop.pc = "check"
  /\ ~blocked[loop.pos]
  /\ lastBuilder' = (lastBuilder + 1) % NumberOfBuilders
  /\ builderId' = [builderId EXCEPT ![loop.pos] = lastBuilder']
  /\ loop' = [loop EXCEPT !.pc = "deq", !.ids = @ \cup {loop.pos},
                          !.discards = @ + eventsToDiscard]
  /\ eventsToDiscard' = 0
  /\ outstandingRequests' = outstandingRequests + 1
  /\ UNCHANGED <<blocked, evbIdList, resourceFIFO, blockedResources, nbEventsInBU>>
  /\ loopOnly

(* No resource means no message; the EVM reads the message at once. *)
SendRequests ==
  /\ loop.pc = "send"
  /\ requested' = requested \cup loop.ids
  /\ reported' = reported + loop.discards
  /\ loop' = Idle
  /\ UNCHANGED <<rmVars, requestEvents, doProcessing, dataBlockMap, built,
                 freeing, returned, assigned, nextEvent, chain>>
-----------------------------------------------------------------------------
(***************************************************************************)
(* The EVM answers a request with up to the requested number of events and *)
(* passes it on to the RUs, or returns it without events when the BU was   *)
(* silent for a lumi section.  Blocks of one unit and resource arrive in   *)
(* the order sent; nothing else is ordered.  The EVM is started and        *)
(* stopped before the BU; with FEROLs it has no events until the BU runs,  *)
(* with local input it has.                                                *)
(***************************************************************************)
EVMAssign(r, n) ==
  /\ doProcessing \/ LocalInput
  /\ r \in requested
  /\ nextEvent + n - 1 <= MaxEvents
  /\ assigned' = [assigned EXCEPT ![r] = nextEvent .. nextEvent + n - 1]
  /\ nextEvent' = nextEvent + n
  /\ requested' = requested \ {r}
  /\ \E blocks \in [RUs -> 1 .. MaxBlocks] :
       chain' = [ru \in RUs |->
                   [chain[ru] EXCEPT ![r] = [left |-> blocks[ru], total |-> blocks[ru]]]]
  /\ UNCHANGED <<rmVars, requestEvents, doProcessing, loop, dataBlockMap,
                 built, freeing, returned, reported>>

EVMReturn(r) ==
  /\ doProcessing \/ LocalInput
  /\ r \in requested
  /\ requested' = requested \ {r}
  /\ returned' = returned \cup {r}
  /\ UNCHANGED <<rmVars, requestEvents, doProcessing, loop, dataBlockMap,
                 built, freeing, assigned, nextEvent, reported, chain>>
-----------------------------------------------------------------------------
(***************************************************************************)
(* superFragmentCallback() for one block, under dataBlockMapMutex_.  A     *)
(* block that does not fit makes it throw, which fails the BU;             *)
(* NoException says that no block is bad.                                  *)
(***************************************************************************)
firstBlock(ru, r) == chain[ru][r].left = chain[ru][r].total

(* superFragmentCallback() or underConstruction() throws *)
badBlock(ru, r) ==
  \/ dataBlockMap[ru][r] = 0 /\ ~firstBlock(ru, r)
  \/ builderId[r] = Unassigned
  \/ firstBlock(ru, r) /\ evbIdList[r] \notin {{}, assigned[r]}

(* append() and, with the last block, addSuperFragment() to the builder *)
collect(ru, r, missing) ==
  /\ dataBlockMap' = [dataBlockMap EXCEPT ![ru][r] = missing - 1]
  /\ chain' = [chain EXCEPT ![ru][r] =
                 IF @.left = 1 THEN NoBlocks ELSE [left |-> @.left - 1, total |-> @.total]]
  /\ built' = IF missing = 1 THEN [built EXCEPT ![r] = @ \cup {ru}] ELSE built

(* The first answer for a resource defines its events. *)
FirstBlock(ru, r) ==
  /\ chain[ru][r].left > 0
  /\ firstBlock(ru, r)
  /\ ~badBlock(ru, r)
  /\ evbIdList[r] = {}
  /\ evbIdList' = [evbIdList EXCEPT ![r] = assigned[r]]
  /\ nbEventsInBU' = nbEventsInBU + Cardinality(assigned[r])
  /\ outstandingRequests' = outstandingRequests - 1
  /\ collect(ru, r, chain[ru][r].total)
  /\ UNCHANGED <<builderId, blocked, resourceFIFO, blockedResources, eventsToDiscard,
                 lastBuilder, requestEvents, doProcessing, loop, freeing, evmVars>>

NextBlock(ru, r) ==
  /\ chain[ru][r].left > 0
  /\ ~badBlock(ru, r)
  /\ ~firstBlock(ru, r) \/ evbIdList[r] # {}
  /\ collect(ru, r, IF firstBlock(ru, r) THEN chain[ru][r].total ELSE dataBlockMap[ru][r])
  /\ UNCHANGED <<rmVars, requestEvents, doProcessing, loop, freeing,
                 evmVars>>

(* Mutant of ResourceReturned: the request stays outstanding. *)
ResourceReturnedUncounted(r) ==
  /\ r \in returned
  /\ builderId[r] # Unassigned
  /\ Len(resourceFIFO) < NbResources
  /\ returned' = returned \ {r}
  /\ builderId' = [builderId EXCEPT ![r] = Unassigned]
  /\ resourceFIFO' = Append(resourceFIFO, r)
  /\ UNCHANGED <<outstandingRequests, blocked, evbIdList, blockedResources, eventsToDiscard, lastBuilder,
                 nbEventsInBU, requestEvents, doProcessing, loop, dataBlockMap, built,
                 freeing, requested, assigned, nextEvent, reported, chain>>

(* The only block of a resource that comes back without events. *)
ResourceReturned(r) ==
  /\ r \in returned
  /\ builderId[r] # Unassigned
  /\ Len(resourceFIFO) < NbResources
  /\ returned' = returned \ {r}
  /\ builderId' = [builderId EXCEPT ![r] = Unassigned]
  /\ outstandingRequests' = outstandingRequests - 1
  /\ resourceFIFO' = Append(resourceFIFO, r)
  /\ UNCHANGED <<blocked, evbIdList, blockedResources, eventsToDiscard, lastBuilder,
                 nbEventsInBU, requestEvents, doProcessing, loop, dataBlockMap, built,
                 freeing, requested, assigned, nextEvent, reported, chain>>
-----------------------------------------------------------------------------
(***************************************************************************)
(* discardEvent(), called by the builder thread once every RU's            *)
(* super-fragments for the event are there.  The builders run from Start   *)
(* until after Drain, when there is nothing left to discard.               *)
(***************************************************************************)
(* Mutant of DiscardEvent: an event is built from what is there. *)
DiscardIncomplete(r, e) ==
  /\ doProcessing
  /\ built[r] # {}
  /\ e \in evbIdList[r]
  /\ evbIdList' = [evbIdList EXCEPT ![r] = @ \ {e}]
  /\ nbEventsInBU' = nbEventsInBU - 1
  /\ eventsToDiscard' = eventsToDiscard + 1
  /\ IF evbIdList'[r] = {}
     THEN freeing' = freeing \cup {r} /\ built' = [built EXCEPT ![r] = {}]
     ELSE UNCHANGED <<freeing, built>>
  /\ UNCHANGED <<builderId, blocked, resourceFIFO, blockedResources, lastBuilder,
                 outstandingRequests, requestEvents, doProcessing, loop, dataBlockMap, evmVars, chain>>

DiscardEvent(r, e) ==
  /\ doProcessing
  /\ built[r] = RUs
  /\ e \in evbIdList[r]
  /\ evbIdList' = [evbIdList EXCEPT ![r] = @ \ {e}]
  /\ nbEventsInBU' = nbEventsInBU - 1
  /\ eventsToDiscard' = eventsToDiscard + 1
  /\ IF evbIdList'[r] = {}
     THEN freeing' = freeing \cup {r} /\ built' = [built EXCEPT ![r] = {}]
     ELSE UNCHANGED <<freeing, built>>
  /\ UNCHANGED <<builderId, blocked, resourceFIFO, blockedResources, lastBuilder,
                 outstandingRequests, requestEvents, doProcessing, loop, dataBlockMap, evmVars, chain>>

FreeResource(r) ==
  /\ r \in freeing
  /\ Len(resourceFIFO) < NbResources
  /\ builderId' = [builderId EXCEPT ![r] = Unassigned]
  /\ resourceFIFO' = Append(resourceFIFO, r)
  /\ freeing' = freeing \ {r}
  /\ assigned' = [assigned EXCEPT ![r] = {}]
  /\ UNCHANGED <<blocked, evbIdList, blockedResources, eventsToDiscard, lastBuilder,
                 nbEventsInBU, outstandingRequests, requestEvents, doProcessing, loop,
                 dataBlockMap, built, requested, returned, nextEvent, reported,
                 chain>>
-----------------------------------------------------------------------------
(***************************************************************************)
(* updateResources(): blocks from the last resource downwards, unblocks    *)
(* from the first resource upwards, until resourcesToBlock are blocked.    *)
(***************************************************************************)
UpdateResources(resourcesToBlock) ==
  /\ doProcessing
  /\ LET free == {r \in Resources : ~blocked[r]}
         extra == {r \in free : Cardinality({q \in free : q >= r})
                                  <= resourcesToBlock - blockedResources}
         surplus == {r \in Resources \ free : Cardinality({q \in Resources \ free : q <= r})
                                  <= blockedResources - resourcesToBlock}
     IN blocked' = [r \in Resources |-> (blocked[r] \/ r \in extra) /\ r \notin surplus]
  /\ blockedResources' = resourcesToBlock
  /\ UNCHANGED <<builderId, evbIdList, resourceFIFO, eventsToDiscard, lastBuilder,
                 nbEventsInBU, outstandingRequests, loop, requestEvents, doProcessing,
                 dataBlockMap, built, freeing, evmVars, chain>>
-----------------------------------------------------------------------------
(***************************************************************************)
(* The state machine.  A run is stopped once the EVM has drained, that is, *)
(* once it has been told of the discard of every event it has assigned.    *)
(***************************************************************************)
fsmOnly == UNCHANGED <<builderId, blocked, evbIdList, resourceFIFO, blockedResources,
                       eventsToDiscard, lastBuilder, outstandingRequests, loop,
                       dataBlockMap, built, freeing, evmVars, chain>>

evmDrained == reported = nextEvent - 1

Start ==
  /\ ~doProcessing
  /\ loop.pc = "idle"
  /\ doProcessing' = TRUE
  /\ nbEventsInBU' = 0
  /\ UNCHANGED requestEvents
  /\ fsmOnly

Drain ==
  /\ doProcessing
  /\ evmDrained
  /\ \A ru \in RUs, r \in Resources : dataBlockMap[ru][r] = 0
  /\ doProcessing' = FALSE
  /\ UNCHANGED <<nbEventsInBU, requestEvents>>
  /\ fsmOnly

Pause ==
  /\ doProcessing
  /\ requestEvents
  /\ requestEvents' = FALSE
  /\ UNCHANGED <<nbEventsInBU, doProcessing>>
  /\ fsmOnly

(* Leaving Paused, also when the run stops. *)
Resume ==
  /\ ~requestEvents
  /\ requestEvents' = TRUE
  /\ UNCHANGED <<nbEventsInBU, doProcessing>>
  /\ fsmOnly
-----------------------------------------------------------------------------
RequestFragments ==
  \/ GetDiscardsOnly \/ GetResources \/ DeqResource \/ StopDeq
  \/ PutBackBlocked \/ TakeResource \/ SendRequests

Callback ==
  \/ \E ru \in RUs, r \in Resources :
       FirstBlock(ru, r) \/ NextBlock(ru, r)
  \/ \E r \in Resources : ResourceReturned(r)

Builders ==
  \E r \in Resources : FreeResource(r) \/ \E e \in Events : DiscardEvent(r, e)

EVMSteps ==
  \E r \in Resources :
    EVMReturn(r) \/ \E n \in 1 .. EventsPerRequest : EVMAssign(r, n)

Next ==
  \/ RequestFragments \/ EVMSteps \/ Callback \/ Builders
  \/ \E n \in 0 .. NbResources : UpdateResources(n)
  \/ Start \/ Drain \/ Pause \/ Resume

Spec == Init /\ [][Next]_vars

(* The threads keep running; nothing makes the EVM send events or the disk *)
(* or the filter units ask for more or fewer of them.                      *)
Fairness ==
  /\ WF_vars(RequestFragments)
  /\ \A ru \in RUs, r \in Resources : WF_vars((FirstBlock(ru, r) \/ NextBlock(ru, r)))
  /\ \A r \in Resources :
       /\ WF_vars(ResourceReturned(r))
       /\ WF_vars(FreeResource(r))
       /\ WF_vars(\E e \in Events : DiscardEvent(r, e))

FairSpec == Spec /\ Fairness
-----------------------------------------------------------------------------
(* Properties. *)

LoopPCs == {"idle", "deq", "check", "send"}

(* Types of the variables. *)
TypeOK ==
  /\ builderId \in [Resources -> 0 .. NumberOfBuilders - 1 \cup {Unassigned}]
  /\ blocked \in [Resources -> BOOLEAN]
  /\ evbIdList \in [Resources -> SUBSET Events]
  /\ resourceFIFO \in Seq(Resources)
  /\ blockedResources \in 0 .. NbResources
  /\ eventsToDiscard \in Nat
  /\ lastBuilder \in 0 .. NumberOfBuilders - 1
  /\ nbEventsInBU \in Int
  /\ outstandingRequests \in Int
  /\ requestEvents \in BOOLEAN
  /\ doProcessing \in BOOLEAN
  /\ loop \in [pc : LoopPCs, pos : Resources, ids : SUBSET Resources, discards : Nat]
  /\ dataBlockMap \in [RUs -> [Resources -> 0 .. MaxBlocks]]
  /\ built \in [Resources -> SUBSET RUs]
  /\ freeing \in SUBSET Resources
  /\ requested \in SUBSET Resources
  /\ returned \in SUBSET Resources
  /\ assigned \in [Resources -> SUBSET Events]
  /\ chain \in [RUs -> [Resources -> [left : 0 .. MaxBlocks, total : 0 .. MaxBlocks]]]
  /\ nextEvent \in Nat \ {0}
  /\ reported \in Nat

inFIFO == {resourceFIFO[k] : k \in DOMAIN resourceFIFO}
held == IF loop.pc = "check" THEN {loop.pos} ELSE {}
waiting == loop.ids \cup requested \cup returned
answered == {r \in Resources : evbIdList[r] = {} /\ \E ru \in RUs : chain[ru][r].left > 0}
used == {r \in Resources : evbIdList[r] # {}}
places == <<inFIFO, held, loop.ids, requested, returned, answered, used, freeing>>

(***************************************************************************)
(* No resource is lost or handed out twice: each is in exactly one place,  *)
(* once in the FIFO, in the hands of the request thread, on its way to the *)
(* EVM and back, used by events, or being freed; and it has a builder      *)
(* exactly while it is in neither of the first two.                        *)
(***************************************************************************)
ResourcesConserved ==
  /\ \A j, k \in DOMAIN resourceFIFO : resourceFIFO[j] = resourceFIFO[k] => j = k
  /\ \A i, j \in DOMAIN places : i # j => places[i] \cap places[j] = {}
  /\ UNION {places[i] : i \in DOMAIN places} = Resources
  /\ \A r \in Resources : builderId[r] = Unassigned <=> r \in inFIFO \cup held

(***************************************************************************)
(* resourceFIFO_ has a slot for every resource that is put back, so the    *)
(* callback never waits in enqWait() while it holds dataBlockMapMutex_.    *)
(***************************************************************************)
EnqNeverWaits ==
  loop.pc = "check" \/ freeing # {} \/ returned # {} => Len(resourceFIFO) < NbResources

(***************************************************************************)
(* No legal exchange with the EVM and the RUs makes underConstruction() or *)
(* superFragmentCallback() throw: a block never meets a resource that has  *)
(* no builder or holds other events, in whatever order blocks arrive.      *)
(***************************************************************************)
NoException ==
  /\ \A ru \in RUs, r \in Resources : chain[ru][r].left > 0 => ~badBlock(ru, r)
  /\ \A r \in returned : builderId[r] # Unassigned /\ evbIdList[r] = {}

(* The resources, whatever the order of threads and messages.              *)
ResourcesSafe == ResourcesConserved /\ EnqNeverWaits /\ NoException

(***************************************************************************)
(* The counters, kept by several threads under different locks, agree with *)
(* the resource table.                                                     *)
(***************************************************************************)
CountersMatch ==
  /\ blockedResources = Cardinality({r \in Resources : blocked[r]})
  /\ outstandingRequests = Cardinality(waiting \cup answered)

(* "Return the current number of events in the BU" (ResourceManager.h:169) *)
EventsCounted == nbEventsInBU = Cardinality(UNION {evbIdList[r] : r \in Resources})

(***************************************************************************)
(* The EVM ends its drain when it has been told of the discard of as many  *)
(* events as it has assigned: no discard is reported twice or forgotten.   *)
(***************************************************************************)
DiscardsAddUp ==
  reported + loop.discards + eventsToDiscard
    + Cardinality(UNION {evbIdList[r] : r \in Resources})
    + Cardinality(UNION {assigned[r] : r \in answered}) = nextEvent - 1

(* What the counters of resources, events and discards promise together.   *)
CountersAddUp == CountersMatch /\ EventsCounted /\ DiscardsAddUp

status ==
  [r \in Resources |-> CASE r \in inFIFO \cup held -> "free"
                         [] r \in waiting \cup answered -> "requested"
                         [] OTHER -> "used"]

Cycle == INSTANCE ResourceCycle WITH
           events <- evbIdList,
           seen <- {e \in Events : e < nextEvent /\ \A r \in answered : e \notin assigned[r]},
           discarded <- reported + loop.discards + eventsToDiscard,
           told <- reported

(* The resources go round as ResourceCycle says, whatever the interleaving. *)
ImplementsCycle == Cycle!Spec

(***************************************************************************)
(* Blocked resources at the head of the FIFO do not keep free ones behind  *)
(* them from being requested, although each pass stops at the first        *)
(* blocked one.                                                            *)
(***************************************************************************)
FreeRequested ==
  \A r \in Resources :
    r \in inFIFO /\ ~blocked[r] ~>
      r \notin inFIFO \cup held \/ blocked[r] \/ AllBlocked \/ ~doProcessing

(***************************************************************************)
(* Discards reach the EVM, with the next request or alone, once the BU     *)
(* settles on requesting nothing or on blocking nothing.  While some of    *)
(* the resources are blocked, and only those are free, they do not: the    *)
(* EVM then keeps draining.                                                *)
(***************************************************************************)
DiscardsReported ==
  <>[]AllBlocked \/ <>[](blockedResources = 0 /\ requestEvents)
    => []<>(eventsToDiscard = 0)

(* Neither free resources nor discards are left for ever (369-409).        *)
NothingStuck == FreeRequested /\ DiscardsReported
=============================================================================
