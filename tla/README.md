# Verification of the CMS event builder

This directory holds TLA+ models of the event builder (`src/include/evb`,
`src/src/common`), TLC configurations that check them on small instances, and
TLAPS proofs for every value of the constants. `PROJECT.json` maps each
definition to the lines it stands for. Mutants (operators whose comment begins
"Mutant of") are plausible bugs of the definition they name; each shows that a
property can fail.

## The system

Four kinds of XDAQ applications exchange I2O messages: the event manager (EVM),
readout units (RU), builder units (BU), and an emulator of the FEROLs, the cards
that send the data of the front-end drivers (FED).

| Part | State | Operations | Hard to get right | Correct when |
|---|---|---|---|---|
| `OneToOneQueue` | ring, two pointers, printing flag | enq, deq, clear, resize, HTML pages | lock-free: two threads and HTTP threads share it | a bounded FIFO, each slot constructed and destroyed in turn |
| FEROL connections: `FerolConnectionManager`, `PipeHandler` | connections, streams by SID, buffers outstanding, `grantFIFO_` | accept, drop, dispatch a buffer, grant it back, drain | callbacks of the transport, the pipe thread both fills and empties a FIFO | no buffer is lost, a drain leaves nothing |
| `FedFragment` | current fragment, component, rest of the last buffer | parse a buffer, check, copy into blocks | cuts anywhere | the data of a fragment, whole and in order |
| FEROL streams, `Input` (RU, EVM) | fragment FIFO per FED, sync-loss flags, EvB-id factory | build a super-fragment per event | resync, missing FEDs, event number roll-over | fragments of one trigger, every FED accounted for |
| `MetaDataStream`, `MetaDataRetriever` | four records, two copies for the builder | subscribe, receive, renew the copy, append | three threads without an order | records never get older, news arrive |
| EVM `BUproxy` | prioritised request FIFOs per BU, outstanding events, responders | handle a request, assign events, lumi-section transition, send data | several responders, drain, locks held while waiting | each request answered once, in turn; RUs told in order |
| EVM `RUproxy`, RU `BUproxy`, `BUposter` | request FIFOs, the message being filled, frame FIFO per BU | pack requests, send to all RUs, send super-fragments in blocks | order over packing and threads, full queues | every event is built |
| BU `RUproxy` | data-block map | request loop, super-fragment callback | blocks of many senders interleave | a chain is one answer |
| BU `ResourceManager` | resource table and FIFO, discards, event counters, lumi-section accounts | take, block, free resources; open and close accounts | five threads, five mutexes, unlocked reads | resources and events conserved |
| its monitor, `DiskUsage` | statistics of the filter units, usage of the disks | read a summary, measure, block, change the state | failing reads, measurements that hang | throttling begins and ends with its cause |
| BU `EventBuilder`, `Event` | events of each builder | assemble, check, write, discard | handles one lumi section at a time | every event complete, none in a closed lumi section |
| BU `StreamHandler`, `DiskWriter` | open file per builder, files to move, statistics per lumi section | write, close by size, age or lumi section; move; EoLS files; stop | three kinds of threads, order of data and end markers | the end of a lumi section after its data, and for each |
| state machines | Halted .. Running .. Draining, Paused, SyncLoss ... | SOAP commands, and events of threads | exceptions in actions, detached threads, events sent while an exit action waits for the sender | the parts follow the state, each event ends |

The path of an event: a BU sends free *resources* to the EVM. The EVM assigns
consecutive events to a resource, tells the RUs, and every unit sends its
super-fragments in blocks to the BU. The BU's callback collects blocks per unit
and resource, counts events in lumi-section accounts and hands complete blocks to
the builder thread the resource is assigned to. The builder assembles, writes and
discards events; the last one frees the resource, and the number of discards goes
to the EVM with the next request. The file mover and the accounting thread publish
files and end-of-lumi-section (EoLS) markers. The monitor of the BU blocks
resources when the filter units or the disks cannot take more.

## Modules

| Module | Models |
|---|---|
| `BoundedFIFO` | what a queue promises (abstract) |
| `OneToOneQueue` | `OneToOneQueue.h`, one step per access to shared memory |
| `OneToOneQueue_proofs` | theorems about it |
| `ResourceCycle` | the life of a resource and of its events (abstract) |
| `ResourceManager` | event requests of one BU: `ResourceManager.cc`, `RUproxy.cc`, with the EVM and the RUs as environment |
| `ResourceManager_proofs` | theorems about it |
| `LumiSections` | lumi-section accounts, builders, stream files, file mover, accounting thread and the stop of a BU |
| `LumiSections_proofs` | theorems about it |
| `EVMRequests` | the EVM's `BUproxy` and `BUposter`: request FIFOs, responders, lumi-section transition, drain, stop; the BUs as environment |
| `EVMRequestsHistory` | the same with history variables, for the properties that tell of several steps |
| `EVMRequests_proofs` | theorems about both |
| `Input` | the input of EVM or RU: FEROL streams, `EvBidFactory`, building of super-fragments, and the states their errors lead to; the FEDs as environment |
| `Input_proofs` | theorems about it |
| `EvBStates` | the states of the three applications as tables, and what a transition exits and enters |
| `StateMachines` | the state machine with the threads that send it events, on these tables |
| `Throttling` | the resource monitor of a BU, the threads that measure the disks, the states they drive |
| `EventBuilding` | EVM, RUs and BUs composed: from the request of a BU to the built event, with the queues between the threads |
| `EventBuilding_proofs` | theorems about it |
| `FragmentPath` | the bytes of a few events from the FEROL to `checkEvent()` of the BU |
| `FerolPipe` | the buffers of one pipe, its connections, streams, and the commands that stop them |
| `FerolPipe_proofs` | theorems about it |
| `MetaData` | the soft FED with the conditions of the detector |
| `MetaData_proofs` | theorems about it |
| `MCOneToOneQueue`, `MCResourceManager`, `MCEVMRequests`, `MCInput`, `MCThrottling`, `MCEventBuilding`, `MCFragmentPath`, `MCFerolPipe` | values of the constants for TLC |

The modules overlap on purpose: each asks one question, and has the detail that
question needs. `EventBuilding` composes the request handling of `EVMRequests` and
`ResourceManager`, without priorities, lumi sections and blocked resources, with what is
between them. `FragmentPath` has the content of the blocks which `EventBuilding` moves.
`StateMachines` has the actions of all components as calls that return or raise;
`Input`, `EVMRequests`, `FerolPipe` and `LumiSections` have what those calls do.

### OneToOneQueue

`prod` and `cons` are the program counters of the two threads; `container` has a
value per slot, `Raw` where no object is constructed. `resize()` waits for the
printers and then swaps the ring (`ResizeBegin`, `ResizeEnd`); the configure
functions call it while no work loop uses the queue, which is the guard of
`ResizeBegin`. `received`, the caller's variable, is written in the step that
publishes the read pointer, the linearisation point of `deq()`. `queue` maps the
ring to a sequence; the slot the consumer has destroyed and not yet published
still counts, with the value it holds.

### ResourceManager

A place of a resource is the FIFO, the hand of the request thread, a message, the
EVM, a builder. The request thread is split at every access to shared state
(`loop`); the callback for one block is one step, as it runs under
`dataBlockMapMutex_`; discarding an event and freeing its resource are two steps,
as nothing covers both. `UpdateResources(n)` blocks or unblocks to any number `n`:
how the monitor computes it is in `Throttling`. The EVM assigns events or returns a
request; blocks of one unit and resource keep their order, nothing else does.
Messages from the BU to the EVM are read at once: their delay is the delay of the
EVM's answer. `drain()` needs the EVM to have drained, as the tests stop the EVM
first. `LocalInput` says that the EVM has events before the BU runs.

### EVMRequests

`cb` is the thread that reads messages, `rs` the responders, `main` the thread of
the state machine. `turn` is `processingRequestMutex_`, `monitor`
`requestMonitoringMutex_`; who owns `fragmentRequestFIFOsMutex_` follows from the
program counters: a responder that scans has it shared, the callback that queues a
request has it upgraded, a responder in `doLumiSectionTransition()` waits for it
(`wait`) or has it exclusively (`move`). As in boost, one that waits to have it
exclusively keeps new owners out (`MapIsShared`). The scan for the next request is
one step per FIFO, since the callback may queue during it. `fresh` says that the
time of a BU's last request is not before the last transition; the model compares
the order of these events, not clocks. `told` is the last event passed to the
RUproxy, whose own FIFO and messages are in `EventBuilding`. A BU asks for all its idle
resources at once or reports discards alone, and discards the events of a resource
together. The priorities a BU asks with are
`PrioritiesOf`. An answer is one frame (blocks are in `EventBuilding`). A halt ends the
model: configuring starts anew. The input always has the events of the run; that they come late is the
freedom of `Tell` to go on with fewer events than asked for. `MayPause` says whether
a BU may stop asking in the middle of a run, and so go stale. The transition gives
the requests of a stale BU back one by one (`TransitionReturns`) before it moves
those of the others.

`EVMRequestsHistory` adds three history variables for the properties: the events the
BUs still had when the run started, the resources whose request or frame was
dropped, and the BUs served while one waits. No action reads them. The constant
`Watched` names the BU whose turn is watched: any of them in the proofs, the second one in
the run.

### Input

One run of one unit: an EVM if `master` is one of its FEDs, an RU if it is 0. Each FED
has a thread in `SocketStream::parseSocketBuffers()` (`parser`: it has a complete
fragment in hand, to report an error or to queue it) and a FIFO. `builder` is the
responder in `Input::getNextAvailableSuperFragment()` (EVM) or
`getSuperFragmentWithEvBid()` (RU); `processingRequestMutex_` lets in one. It looks at
`doProcessing_` and `blockInput_` (`MasterChecks`, `StreamChecks`) and then, as a step
of its own, calls `deq()` (`TakeMaster`, `TakeFragment`, `FindsNothing`), and it
reports to the state machine in a further step (`StreamRecovers`, `ReportMismatch`).
One FED at a time, in the order of the map, `appendFedFragment()` is the disjuncts of
these actions: a stream in step, one that has lost synchronisation, and one whose
first fragment after a resync is held in `firstFragmentAfterResync_`.

`processFSMEvent()` is one step, and waits while the exit action of `Running` holds
`eventMutex_`: `leaving` is that action, which stops the streams one after the other
and waits for their parsers (`StopStream`, `StreamStopped`), then for the responders
(`StopBUproxy`, `RunLeft`). An event to which the state has no reaction changes
nothing, as in boost. `MissingData` is the only inner state of `IncompleteEvents`, whose
timer is the set `timer`: a thread sleeps from the entry into the state until it is
interrupted by the exit (`Entered`, `Interrupted`), or its time is over (`TimerExpires`).
After that no exit stops it (`States.h:607`), and it posts `Fail` (`TimerFails`), also to a
unit that has recovered or is `Ready`. Time is not modelled: a timer may expire at once.
With `maxTimeWithIncompleteEvents` 0 (`tolerate.incomplete`) the thread ends without effect.

A FED sends a fragment per trigger. The trigger system counts 1, 2, ... and begins
again at 1 at a trigger of `resyncs`, or at 0 after `MaxEventNumber`. `getEvBid()` is
`IdOf` and `After`: the id, and the new state of the factory, for an event number. A fault is one
of those the dummy FEROL can produce: a fragment is `lost`, `repeated` or `corrupted`
(the parser goes on and it gets an id), or `garbled` (`parse()` throws at the FED
trailer, before it asks for an id). A fragment carries its trigger for the properties;
`faults` remembers how many there were and whether one hit a restart of the event
number. `tolerate` and `master` are the configuration, and never change.

### LumiSections

One run with `dropEventData` false. The EVM hands out events whose lumi sections
do not decrease, or are all 0; answers may overtake each other. `builder` holds
the copy of the oldest lumi section `handleCompleteEvents()` works with. A builder
that stays inside `writeEvent()` holds the file mutex (`locked`). The mover's two
additions to the statistics are two steps. The accounting thread closes accounts
until none can be closed (`CloseLumiSection`, `LumiSectionTimeout`,
`RecordAccount`), then scans the statistics (`WriteEoLS`, `ScanEnd`); `due` is
what it cannot miss in this scan. The stop is the sequence of
`DiskWriter::stopProcessing()`. No action of the callback depends on the state of the BU, as
`superFragmentCallback()` asks for none and the stop waits for the request thread only:
answers come at any time, also after a halt. `late` says that one was accounted after
the stop had begun to take the accounts. A thread of `DiskWriter` looks at
`doProcessing_` and becomes active in two steps; `checked` has those which are in
between when `doProcessing_` becomes false (`BuildersStopped`), and which become active at any
time after (`FileMover`, `LumiAccounting`). The stop looks at one flag after the other
(`AccountingInactive`, `MoverInactive`). Where a thread that comes too late meets the
stopping one in `moveFiles()` or in the accounts, both change the same FIFO or map: the
model ends, `run = "undefined"` (`TwoThreads`). Time: a lumi section times out only when all its
events were handed out (`isOver`), because `lumiSectionTimeout` is longer than a
lumi section; a file may get old at any time. Bytes: an event weighs one.

### EvBStates and StateMachines

A state class is a record: the state it lies in, its initial state, and its reactions
(`BUOuter`, `RUErrors`, ...); `BUEntry` and `BUExit` name the calls of its actions. What a
transition leaves and enters is computed from the tables (`Exited`, `Entered`), deep
history included, as boost::statechart does it.

`agenda` holds the calls still to be made with `eventMutex_` held, one sequence per
state: `CallRaises` drops the rest of one action and posts `Fail`, and the transition
goes on (`EvBStateMachine.h:147`). `ProcessPosted` handles the posted events before the
mutex is released. Threads that wait for the mutex with an event are in `waiting`: workers
that fail, the parser of a stream, threads of Configuring and Draining, the timer. A thread
of Configuring or Draining is detached: the exit action only takes its ownership away
(`ForgetThread`), and it looks at its flag between two steps. `last`, `done` and `overlap`
are for the properties: the work of the last thread, and whether a thread has met one left
behind.

### Throttling

The monitor is split at what it does under different locks or without any:
reading the summary (`GoodSummary`, `BadSummary`, `StaleSummary`), the two looks at each disk
(`OverThreshold`, `RelDiskUsage`), blocking (`UpdateResources`), and the event
(`ChangeState`, `FailOnFUs`). `SummaryFailure` keeps what was read before the failure. The thread of
`DiskUsage` is `StartMeasuring`, `Measure`, `StopMeasuring`, and measuring takes as long
as it likes; `update()` finds the thread idle or not, and invalidates the result if not, also
when it has just come (`Update`). `failing` disks may return an error (`MeasureFails`). Shares of resources are counted in units of `1/Unit`, so that the proportions of the
code are exact; the bandwidth and the disk usage have a few levels each. `ChangeState`
and `EnterPaused` are the only parts of the state machine: leaving and entering `Paused`
changes `requestEvents_`.

### EventBuilding

The responders of a unit take a request under a mutex (`TakeRequest`,
`TakeFragmentRequest`), collect events (`Collect`) and send blocks (`SendFrame`, `WaitForRoom`);
that of the EVM first gives the request to `RUproxy` (`Forward`). `packer` is
`processRequests()`: the message being filled, the request that did not fit (`held`), and
the RU it sends to. A message in `posted` is on its way or in the callback of the RU, which
waits for room. `callback` is the chain the BU's callback waits to enqueue, with
`dataBlockMapMutex_` held. A BU builds an event when it has the data of all units, and frees
the resource with the last event. Event n of an input has number n, so an RU that
takes another event than it was asked for shows as an error, as in `RU.cc`.

### FragmentPath

Data are sequences of units of 4 bytes, each known by its event, FED and position; cuts
inside a unit are left out. The FEROL's packets, cut into buffers of any of
`BufferSizes`, are parsed component by component (`ParseFerolHeader` .. `ParseTrailer`), where
a component that is cut is kept in `tmp`. `ComputedOver` is what the CRC is computed over.
`FillHeader` and `FillData` write the blocks and `NextBlock`, `AppendSuperFragment` read
them; each side computes for itself where the next header is. `CheckFed` walks backwards
from trailer to trailer.

Two assumptions are the code's own: a buffer holds at least the rest of a
component that a cut has left (`FedFragment.cc:152` copies the missing bytes without
looking), and a location holds what the CRC's word lacks (`FedFragment.cc:504` would
wrap). The answers checked have at most one missing FED in the first event; with two,
the header is longer and `HeadersFound` fails (see below).

### FerolPipe

`queue` and `free` are the buffers of the peer transport, `pipe` the thread of the pipe, which
takes a buffer, gives it to its stream (`AddBuffer`, waiting for room), and grants buffers
(`GrantBuffer`). A fragment holds the buffers it lies in; `Drop` says which
buffers are then held by nobody, and `Release` queues them. `control` is the state machine
with the threads of Configuring and Draining, one step for each thing it looks at, or waits
for: the drain of the streams (`DrainParser`, `DrainFIFO`, `DrainFragments`), of the pipe
(`DrainPipe`) and of the buffers (`Count`) look at parser, FIFO, pipe, `grantFIFO_`
and counter one after the other. `Connect`, `DropConnections` and `AcceptConnections` are the
callbacks and commands for connections; a connection in the wrong state makes the unit fail
(`Fail`), and the thread that fails it gets the state machine next. Free buffers are alike and
only counted.

The builder looks at `doProcessing_` (`CheckStream`), then calls `deq()`, which looks
whether there is a fragment (`BeginTake`, `FindNothing`) and takes it (`TakeFragment`). The stop
of a stream is a loop of `deq()` in the thread of the state machine (`Clear`, `ClearDeq`),
before and after the parser has ended. When one of the two threads is in `deq()` and the other
finds the same fragment, both copy and destroy one slot: the model ends, at
`control.pc = "TwoConsumers"`.

A FEROL is at most one event ahead of another, as fragments come for triggers; a fragment
kept aside for a resync counts as one more. There is one run, since data left in a
stream would be parsed by the next; the proofs hold for any number of runs. The service events of the pipe do not change state.

### MetaData

Threads of DIP bring values with growing times (`HandleMessage`) and lose or gain
subscriptions (`SetStatus`). `FillData` replaces the first record that differs, as
`fillData()` stops there; `BeginRequest` .. `EndRequest` is the thread of the stream, whose
copies the builder takes (`AppendFedFragment`). When the unit stops nobody waits for that
thread, and it takes the data away at its end: a builder that is not done then reads a
null pointer (`state = "Crashed"`).

## Runs

A run's invariants and temporal properties are grouped by the question they answer;
the name of the group is the property that `PROJECT.json` lists.

| Run | Shows | Bounds |
|---|---|---|
| `OneToOneQueue` | `SlotsSafe` (each slot is constructed and destroyed alternately, nobody shares one), `ImplementsFIFO` (refinement of `BoundedFIFO`), `OperationsEnd` (waiting producers return, elements leave) | two elements, capacities 1 and 2 (the pointers wrap, the ring is full and empty), one page |
| `ResourceManager` | `ResourcesSafe` (resources conserved, each finds a slot, no exception), `CountersAddUp` (counters, events, discards), `ImplementsCycle` (refinement of `ResourceCycle`), `NothingStuck` (free resources are requested, discards reach the EVM) | 2 resources, 1 builder, EVM and one RU, 2 events per request, 2 blocks, 2 events |
| `EVMRequests` | `RequestsFindRoom`, `RUsAreToldInOrder`, `NothingLost` (requests and outstanding events), `RequestsServed` (BUs in turn, events flow, stop and halt end) | 2 BUs with a resource each, the second one with 2 priorities; 2 responders, 1 run of 2 events in lumi sections of 1, with halts |
| `LumiSections` | `AccountsSafe` (no event for a closed lumi section, one account each, incomplete ones counted), `ReportsSafe` (EoLS is last, every lumi section is reported after any stop or halt, unless an answer comes later than the accounts are taken or two threads of `DiskWriter` meet), `NothingWaits` | 2 builders, 2 events in up to 2 lumi sections, 2 requests of up to 2 events, files of 2 events |
| `Input` | `SuperFragmentsRight` (fragments of one trigger, every FED accounted for, no event skipped), `ResyncRestoresAll`, `AllBuilt` (tolerated faults do not stop the unit, but for the timer of incomplete events if it has a limit) | 2 FEDs, one of them master or none, FIFOs of 1, 4 triggers, event numbers to 3 (so the last is a roll-over or a resync), all faults, at most 2; no errors tolerated, or all for ever, and on the EVM also all for a limited time |
| `StateMachines` | `StateTells` (requests, timer and components follow the state, the error text too, and `Ready` or `Halted` only after the work is done), `EventsGetThrough` (failures show, events end) | BU, RU, FEROL emulator; 2 FEDs, 2 detached threads, 1 report of a parser, 1 posted event, and for a BU the monitor's Release, Throttle and Pause |
| `EveryEventEnds` | violated: a halt waits for a parser that waits for the halt | the RU of the run above |
| `Throttling` | `ExhaustedBlocks` (unreadable summaries, a disk without a valid measurement, or a full disk measured in time block all resources), `HindrancesEnd` (throttling, pauses and Configuring end with their cause) | 2 resources, 1 disk (empty or full, failing or not), 8 summaries, of which 4 may be the first one, stale after 2 looks, lumi sections to 3, 1 change of a cause |
| `EventBuilding` | `OrderKept` (each unit has the event it is asked for, chains are assembled in order), `EveryEventBuilt` | 1 RU, 1 BU with 2 resources, 2 responders, queues of 1, messages of 4 ids, 3 events |
| `FragmentPath` | `DataIntact` (fragments, blocks, built events), `AllChecked` (the data of every event pass `checkData()` and end up in an event) | 2 events of fragments in 1 to 3 packets, buffers of 3, 5 and 8 units, blocks of 12, 14 and 18 |
| `FerolPipe` | `BuffersConserved`, `NothingLeftBehind` (nobody waits for ever, a drain leaves nothing), up to the undefined states of the model | 2 FEROLs, one with split fragments, one kept aside; 3 buffers, FIFOs of 1, 2 triggers, 1 start, 1 halt |
| `MetaData` | `DataAtHand` (a running unit has data, the copies are in order), `NewsInOrder` (from event to event no record gets older, news arrive) | the tracker's partition, two records masked (two topics are left for one record), times to 2, 1 run |

The bounds let the interesting cases happen.

- `ResourceManager`: the second event can go to a resource that has been freed; a
  request is answered partly; a free resource lies behind a blocked one; the BU is
  paused, stopped and started again.
- `EVMRequests`: two responders meet in every pair of program counters; a BU with
  requests of both priorities has them moved when a lumi section ends; a BU is passed by
  while another is served. `MayPause` is false: a BU goes stale only when its request waits
  through a whole lumi section, which lets `TransitionReturns` fire. Promotion
  needs two priorities, and nothing in the code compares more than two. The history of
  who was served is kept for one BU, the last, as any other can be renamed to it.
- `LumiSections`: a lumi section is skipped, times out or is overtaken; a file is
  closed by size, age, a newer lumi section and the stop; a BU is stopped in any
  state, also with answers in flight, which are then accounted at any point of the stop, and
  with its threads before and after they become active. Lumi sections are bounded by 2 because the code compares neighbours
  only: the oldest account with the newer ones. The file-statistics FIFO never fills.
  `Request` ends with the events, which bounds the idle requests; one may still be unanswered
  when the last event is handed out, and holds up the timeout.
- `Input`: with two faults a stream can be hit again after it has recovered or while
  it is lost. The faults spare the master (`SpareMaster`), as a fault of the master stops
  the unit. With a limited time the timer may expire at any moment, while the unit is still
  waiting, has recovered, drains or is `Ready`, once or twice.
- `Throttling`: the run begins with a summary that is fine, stale, unreadable, or of filter
  units in the cloud, and with a disk that is empty or full, failing or not; the one change
  brings any other summary, or mends or breaks the disk. So each cause begins or ends, alone
  and with others that stay. Measurements that come late need no change.
- `EventBuilding`: three events do not fit in what the queues hold, so everybody
  waits for everybody else; a message of 4 ids takes one request of two events, or
  two of one.
- `FragmentPath`: each component of a packet is cut by the end of a buffer, and each
  header and fragment by the end of a block; the header fits exactly, or not.
- `FerolPipe`: three buffers are fewer than the two streams can hold. They are a symmetry set, as
  nothing but their identity is looked at, and the properties are a safety property of states and
  one of steps.

`CHECK_DEADLOCK FALSE` is set for every run but `OneToOneQueue`, `ResourceManager` and
`Throttling`: the others have a run or a number of commands that ends, or, like a unit
in `SyncLoss`, wait for the operator.

Some properties have conditions that the code needs:

- `EventsCounted` holds with FEROL input, where the EVM has no events before the BU runs
  (`LocalInput` is FALSE in the run). With local input it does not: `startProcessing()`
  resets the number of events while the BU has some. `CountersStayRight` assumes FEROL
  input; all other theorems hold for both.
- `DiscardsReported`: while some of the resources are blocked, and only those are
  free, the request thread reports no discards, and the EVM does not finish draining.
- `AllBuilt`: a unit that tolerates incomplete events for a limited time only may be failed
  by its timer once there was a fault (`TimedOut`), as `src/test/cases/2x1_syncLossTolerating.py:53`
  expects.
- `OneAccount` and `AllReported` are about behaviours in which no answer is accounted after the stop
  began to take the accounts. Such an answer opens lumi sections anew, from 1: an account twice
  (`NoDuplicatedAccount`), or events that are never reported.
- `Recovers` and `ExhaustedBlocks` for a full disk: that from some time on no request for a
  measurement finds the thread of the disk busy (`InTime`). A result that is always asked for too early
  is thrown away for ever, and one that comes between the two looks at `valid_` makes a
  full disk count as empty.
- `SameTrigger` and `ResyncRestoresAll` exclude faults at a restart of the event number,
  which make `EvBidFactory` count one resync too many or too few: a FED that loses the
  first fragment after a resync gives the ids of that resync to the fragments after
  the next one. A fragment lost right before a roll-over may be missed in the same way
  at the number 1 that follows 0, which is why `Restarts` has both.
- `NoEventSkipped` has the conditions of `NoMismatchPassed`. A mismatch that is not
  tolerated drops the event that is built. It blocks the input in `Enabled`;
  `MissingData` and `Draining` have no reaction to it, so the unit goes on with the next event. An
  RU with one FED also goes on in `SyncLoss`: its stream has lost synchronisation, and
  `appendFedFragment()` passes such a stream over when the blocked input gives it no
  fragment, instead of waiting (`FerolStream.h:325`). Without a fault at a restart there is no mismatch.
- `NoEventSkipped` and `ResyncRestoresAll` spare the master: when it loses a fragment, the event
  is not built at all.

## Fairness

Work loops poll, so every thread that has work does it: weak fairness of each
thread. What differs from module to module is listed here.

- `OneToOneQueue`: the consumer polls, and a printing thread finishes its page.
- `ResourceManager`: the request thread, each block in flight, the builders. Nothing makes
  the EVM answer, the monitor unblock resources, or an operator stop.
- `EVMRequests`: the callback, each responder, the poster and the stopping thread.
- `LumiSections`: the callback, each builder, the mover, the accounting thread and the stopping
  one. Strong fairness for the mover that closes an old file, as the file mutex is free
  again and again between events and the file only gets older.
- `Input`: all streams together, each of which takes finitely many steps, and the
  builder. The FEDs keep sending. Nothing makes an operator stop the unit, or a timer expire.
- `StateMachines`: the calls of an action, and posted events. Other threads reach
  `eventMutex_` in any order.
- `Throttling`: the threads and the answers of the BU's parts, and strong fairness for
  `Update`, since the monitor sleeps for a second between two looks, in which everybody
  else gets on.
- `EventBuilding`: each thread, the responders of a unit together.
- `FragmentPath` and `MetaData`: `Next`, and the thread of the stream with the builder.
- `FerolPipe` states none; that nobody is stuck says that a state without a next
  step is one where nothing is left to do.

## Proofs

`OneToOneQueue_proofs` proves type correctness, `SlotsSafe` and the refinement of
`BoundedFIFO`, for any capacities, elements and printing threads, from
`ElementAssumption` and `CapacitiesAssumption`. The inductive invariant adds to
`SlotLifetimes` what each program counter knows (`Control`): a producer past its check
has a free slot ahead (the consumer can only make more room), a consumer past its
check has an element (the producer can only add), and a resize finds both idle and
the ring empty. The refinement then needs arithmetic modulo `size` only in a few lemmas
about `slot` and `elements`.

`ResourceManager_proofs` proves type correctness and `ResourcesSafe`, which is
`ResourcesConserved`, `EnqNeverWaits` and `NoException`, from `ResourcesAssumption` and
`EVMAssumption`, for any number of resources, builders, readout units, blocks and
events. The three are not inductive: that a block fits depends on what the BU knows of
its chain, that a resource is put back once depends on where it was before. The
inductive invariant `IInv` therefore says of each resource that it is in exactly
one place (`OnePlace`) and once in the FIFO (`NoDuplicates`), that it has a builder
unless it is free (`BuilderGiven`), and of each chain of blocks that is not complete
that the block map counts its missing blocks, that the resource holds no other
events and that the builder does not have it yet (`ChainsKnown`, `BuiltIfUsed`).
An event is discarded only when all chains of its resource are complete, which is
why `evbIdList` never shrinks under a chain. `EnqNeverWaits` follows by counting: a
FIFO of distinct resources that lacks one has a free slot. There is one lemma per
action that moves a resource or a block; all others leave the invariant alone.

Its second part counts. From `IInv` it proves `CountersMatch` and
`DiscardsAddUp` with local input or without, `CountersAddUp` with FEROL input, and
that every step of the resource management is a step of `ResourceCycle` or a stutter.
The counters are compared with cardinalities, so each action has a lemma that says
which sets it changes (`*Moves`) and one that counts them (`*Counts`). The events of
different resources do not overlap and are all below `nextEvent` (`EventsApart`): only so
do the cardinalities of their unions add up. The request thread has no discards in hand
between two rounds (`IdleEmpty`). `EventsCounted` needs more: a run ends only when the BU has no event
left (`StoppedEmpty`), which makes the reset at the next start right; this is what fails
with local input.

`EVMRequests_proofs` proves type correctness and `RUsAreToldInOrder` from
`ConfigurationAssumption`, `CapacityAssumption`, `PrioritiesAssumption` and `RespondersAssumption`
(that the responders are finitely many), for any number
of BUs, resources, priorities, responders, events and runs. The invariant has two
layers. `TypeInv` adds to the types that `nextBU_` names an entry of the request map
unless the map is empty, and that it is not empty while somebody scans
(`ScansKnown`), and that a request being answered has events (`HasEvents`).
`OrderInv` adds what the mutex and the flags promise: only the responder whose turn
it is is between reading an event and telling the RUs (`TurnTaken`), a responder
shows its active bit from its first look for a request on (`ActiveShown`), the input is
open from the start to the end of the drain (`InputOpen`), a drain begins only once it is
exhausted (`InputDrained`), and nobody collects once the drain has seen no
responder active (`StoppedQuietly`).
`CollectedInOrder`, `SentAreTold` and `NextIsTold` then relate the last event told to
those in hands and in frames.

Its second part adds `RoomInv` and proves `RequestsFindRoom`: a resource is in
one request FIFO at most (`OnePlace`, `QueuesApart`), not also in a frame or in the
hand of a responder (`FramesApart`, `ServedApart`), and the sender of a message still
owns what it asks for (`SenderOwns`). A FIFO without twins that lacks one of
`nbResources` resources has a free slot, so the callback never waits with the map
locked.

Its third part proves `NothingLost`. For the requests, `PlacesChange` says of every step that
it moves resources from place to place, but for those a HaltRequested or the poster's stop
drops; so `dropped` is what is in no place (`DroppedInv`), and each place is counted once
by `OnePlace` and its companions. For the events, `Balance` is what frames, hands, discards and
the callback hold, less what a responder has sent and not counted, and `CountInv` says
that `outstandingEvents` is that, but for what an earlier run left: each step changes both by the
same. The sums are folds over finite sets, which are recursive functions; that a sum does
not depend on the order (`SumTakesOut`) is proved with a set of sets in place of
an induction over a predicate (`FiniteSubsets`). `QuietWhenStopped` is what makes the reset of
the counter at a start right: no responder has anything sent and not counted then.

Its fourth part proves `ServedInTurn`, for any `Watched` BU. While a request of that BU
waits with priority 0, `TurnInv` says, each BU served meanwhile lies behind it as seen from
`nextBU_`, and a scan that is under way looks for priority 0 and did not begin between
`nextBU_` and `Watched`: so no scan comes round to a BU already served before it
comes to `Watched`. How far two BUs are apart is counted once round the map (`Distance`), and
`Following` is the nearest known one. `QueuesKnown`, that only BUs of the map have requests
queued, is why `Watched` is among those a scan passes.

`EventBuilding_proofs` proves type correctness, with the bounds of all queues, and
`OrderKept`, from `EventBuildingAssumption` alone: any number of RUs, BUs, resources,
responders, builders and events, any capacities. No variable says how the requests
are numbered, so the invariant is that there is a history `h` which explains the
state: to which resource the k-th request went and where its events end, how many
requests each unit has taken from its input and begun, for which request a resource is in
use, how many of its blocks each unit has sent and the BU has. Everything between the EVM's
input and the RUs' inputs is then one interval of requests, cut into pieces (`PipeInv`): in
a responder, in the RUproxy's FIFO, in the message being filled, in posted messages, in
the RU's FIFO. Everything between a responder and the builder is one interval of blocks
per unit and resource (`WireInv`, `MapInv`, `ChainInv`). `ResourceInv` says that a resource is asked
for while it is in the EVM's FIFO and not in use, which is why two answers cannot meet in
one chain. There is one lemma per action, which gives the history after it.

`LumiSections_proofs` proves type correctness, `AccountsSafe` and `ReportsSafe` from
`LumiAssumption`. The accounts, the files and the statistics only count events; a step of one thread
changes a counter which another compares with a third. The invariant again has a history,
of the events themselves: which were accounted (`seen`), dropped as incomplete, stored and in
which file, moved. Each counter is the cardinality of a set of events of one lumi section
(`CountInv`, `FileInv`, `StatInv`). The lumi sections with an account or past it form a ladder
`lo .. last`, of which those below `first` are closed (`LadderInv`): this makes "at most one
place" and "none left out" inductive. `BuilderInv` has what a builder still believes of the oldest
lumi section when it goes on, `RunInv` what the stop has waited for. No answer is ruled out: that every
event finds its account (`NoEventOrderException`) holds with late ones too, the
ladder and the reports until one is accounted (`late`), all of it until two threads of
`DiskWriter` meet.

`MetaData_proofs` proves type correctness, `DataAtHand` and the action property
`EventsGoOn`, the safety part of `NewsInOrder`, from `MetaDataAssumption`. The invariant orders the
data: what the events have is not newer than what the builder has, this not newer than the
copy of the thread, and this not newer than the records of the retriever (`NoneAhead`).

`FerolPipe_proofs` proves type correctness and `BuffersConserved` from `FerolPipeAssumption`, for
any number of streams, buffers, events and runs. `PlaceInv` says that the places of the buffers are
apart: the pipe's input, the hand of its thread, the streams with the builder, the hands
that release, and those left behind. `CountInv` then compares the counters with
cardinalities. Each thread that drops references moves a buffer from the streams to its hand
or leaves it (`Dropped`), so most steps do not change what is taken. The counters go
when the handler is destroyed; `ControlInv` says which streams the state machine has stopped
by then, and `HandlerInv` that all buffers are in their pool, or left behind, until there
is a handler again. That `grantFIFO_` has room for a buffer which is released follows from
counting, if it has room for all buffers of the pipe: that is part of the assumption, as nothing in
the code checks it. The state `TwoConsumers` lasts, and everything about the buffers is
stated up to it. With several runs the proof
needs that a half fragment left from the run before is kept when the next buffer
is parsed, as `append()` does (`SocketStream.h:157`).

`Input_proofs` proves type correctness, `SuperFragmentsRight` and `ResyncRestoresAll` from
`InputAssumption` and `UnitsAssumption`, for any FEDs, masters, tolerances, capacities, numbering, resyncs, faults and
length of the run. `AccountInv` says that the super-fragment accounts for each stream that
the builder is done with and knows nothing of the others. `IdsInv` says that a factory knows the
true number of the last fragment of its FED, or is behind without having missed a
restart, and that a fragment has the id of its trigger or none. As the ids of two
triggers differ (`TrueIdsApart`), comparing ids lets no fragment of another trigger in.
`MasterInv` gives the super-fragment the id of its trigger when faults spare the master, and
`ProgressInv` has the events in turn until the input is blocked or stopped for good
(`Over`, which lasts). That a mismatch leads there rests on `UntolerantInv`: when nothing is
tolerated, at most one stream has lost synchronisation, and all are blocked before the next
event. For `ResyncRestoresAll`, `GoodStream` describes the fragments of a stream that are still
to be built: sorted, from the event that is due on, with gaps and bad fragments, but with all
resyncs and with no restart hidden by a bad fragment. `Fine` says that each stream is
such a stream, that there is no mismatch, and that a held fragment is the first one of the next
resync. There is one lemma for each thing the builder does at a stream. The trigger numbers are
recursive functions; as a set of numbers has a least element, a set of indices replaces
induction over a predicate (`SetInduction`). Attempts at these proofs showed
that `Restarts`, `NoEventSkipped` and `ResyncRestoresAll` had lacked conditions that
the instance which TLC checks does not need.

Only model-checked: everything that needs fairness or ENABLED, which are outside the
prover (`OperationsEnd`, `EveryEventBuilt`, `AllBuilt`, `NothingWaits`, `NewsArrive`, the rest
of `RequestsServed` and the like); and all properties of `StateMachines`, whose tables are
recursive functions, `Throttling`, and `FragmentPath`, which declares a RECURSIVE operator
and so stays with TLC.

## What does not hold

`EveryEventEnds` has its run and its finding: the exit action of `Running` keeps
`eventMutex_` while it waits for a parser that waits for `eventMutex_`. These
properties are stated in the modules without a run; TLC refutes each when its name
is put into the configuration of the module.

| Definition | Why not |
|---|---|
| `EVMRequests!DrainDelivers` | `isEmpty()` looks at the outstanding events and then at the responders; one may finish in between, its events not counted yet |
| `LumiSections!NoUnaccountedFiles` | a corrupted event is counted and never written, so the stop fails |
| `LumiSections!NoDuplicatedAccount` | nothing stops the callback at a halt (`RUproxy.cc:197`): an answer after the accounts are taken opens a lumi section again, which `DiskWriter.cc:228` takes for impossible |
| `LumiSections!EoLSBytes` | the accounting thread may be between the mover's two additions |
| `Input!MasterErrors` (with `SpareMaster` FALSE) | `MissingData` has no reaction to an error of the master while another FED is missing |
| `Throttling!FullDiskBlocks` | a measurement that ends between the two looks at `valid_` reads as -1, below every mark |
| `Throttling!PauseHolds` | `Paused` reacts to the event Paused instead of Pause, so each look at the summary leaves and enters it |
| `FerolPipe!OneConsumer` | a halt clears `fragmentFIFO_` (`FerolStream.h:406`) in the thread of the state machine while the builder takes a fragment (264-269), from a queue "threadsafe if there is only one producer and one consumer" (`OneToOneQueue.h:26`) |
| `FragmentPath!HeadersFound` (with `MCDroppedAnswers`, blocks of 12, 20, 28) | with two dropped FEDs the header is longer than `buildEvent()` assumes |

Also met while reading, and in the models where they matter:

- The error of the longitudinal beam-spot position is stored in the field of x
  (`readoutunit/MetaDataRetriever.cc:147`).
- DIP can subscribe twice to a topic (`readoutunit/MetaDataRetriever.cc:74`), and a restart can find the
  thread of the last run alive (`MetaDataStream.h:331`).
- `FedFragment.cc:152` copies the missing bytes of a component without looking whether
  the buffer has them, and `FedFragment.cc:504` wraps when a location is shorter
  than the rest of a word.
- A connection that arrives between the drop and the accept of connections makes the
  unit fail (`FerolConnectionManager.h:186`).
- An RU with one FED that meets a mismatch goes from `SyncLoss` on to the next event without
  the FED, instead of waiting (`FerolStream.h:325`).
- A buffer which the thread of the pipe has in hand while its stream is stopped is queued after
  `socketBufferFIFO_.clear()` (`SocketStream.h:139,230`), and the next run parses it.

## Not modelled

`PROJECT.json` gives the reason per component. Left out for good: formatting and
monitoring pages, SOAP, DIM, the generation of dummy data, the arithmetic of the
checksums (`FragmentPath` has over which words they are computed), the content of
files, and warning bits in FED trailers. `Input` and `FerolPipe` have one run: that
`startProcessing()` keeps a fragment held in `firstFragmentAfterResync_` from the run before
is not seen. Also left out are `LocalStream` (input generated in the unit itself),
`dropInputData`, the counters per lumi section, the thread of `EvBidFactory` that makes up
lumi sections, the query a BU sends for the conditions of the run (`RUproxy.cc:602`), and
the drain and stop of the EVM's `RUproxy`. Bytes are not modelled in `Input`: a
fragment that breaks off in its header, whose rest is then read as further bad
fragments, is one `garbled` fragment.

## What is left

1. Proofs: type correctness of `Throttling`.
2. The drain and stop of the EVM's `RUproxy` in `EventBuilding`; local input.
3. `Input` over several runs.
