------------------------------- MODULE Input -------------------------------
(***************************************************************************)
(* The input of the event manager or of a readout unit: the streams of the *)
(* front-end drivers (FEDs) in FerolStream.h and SocketStream.h, the       *)
(* event-builder ids of EvBidFactory.cc, the building of super-fragments   *)
(* in Input.h, and the part of the state machine (readoutunit/States.h)    *)
(* that their errors drive.                                                *)
(*                                                                         *)
(* Threads: one parser per stream, the builder (the responder that holds   *)
(* processingRequestMutex_), and the one that drains and leaves the run.   *)
(* processFSMEvent() is one step under eventMutex_; leaving the run holds  *)
(* that mutex for many steps.  A look at doProcessing_ and blockInput_ and *)
(* the deq() that follows are two steps.                                   *)
(*                                                                         *)
(* The triggers are numbered 1 .. LastTrigger.  Every FED sends a fragment *)
(* per trigger with its own event number, which a resync of the trigger    *)
(* system sets back to 1.  A fragment carries the trigger it belongs to,   *)
(* for the properties only.                                                *)
(***************************************************************************)
EXTENDS Integers, Sequences, FiniteSets

CONSTANTS FEDs,            \* the FED ids of the unit
          Units,           \* the units: their master, and what they tolerate
          FIFOCapacity,    \* fragmentFIFOCapacity
          MaxEventNumber,  \* 2^24 - 1
          LastTrigger,     \* bound: triggers of the run
          Resyncs,         \* at which triggers there may be a resync
          Faults,          \* what may happen to a fragment
          MaxFaults,       \* bound: how often
          SpareMaster      \* do the faults spare the master?

(* masterStream_ on the EVM, 0 on an RU; tolerateCorruptedEvents, tolerate- *)
(* OutOfSequenceEvents, and incomplete events for ever: maxTimeWith... = 0. *)
Masters == FEDs \cup {0}
Tolerances == [corrupted : BOOLEAN, outOfSequence : BOOLEAN, incomplete : BOOLEAN]

ASSUME InputAssumption ==
  /\ FEDs \subseteq Nat \ {0} /\ IsFiniteSet(FEDs) /\ FEDs # {}
  /\ FIFOCapacity \in Nat \ {0}
  /\ MaxEventNumber \in Nat \ {0}
  /\ LastTrigger \in Nat \ {0}
  /\ Resyncs \subseteq SUBSET (2 .. LastTrigger)
  /\ Faults \subseteq {"lost", "repeated", "corrupted", "garbled"}
  /\ MaxFaults \in Nat
  /\ SpareMaster \in BOOLEAN

ASSUME UnitsAssumption == Units \subseteq [master : Masters, tolerate : Tolerances]

VARIABLES
  tolerate,     \* the configuration: which errors are tolerated
  master,       \* the configuration: the master stream
  resyncs,      \* triggers at which the event number starts again at 1
  fed,          \* what a FED has sent: the last trigger and its event number
  faults,       \* how many faults so far, and what they hit
  factory,      \* EvBidFactory: previousEventNumber_ and resyncCount_
  parser,       \* the threads in parseSocketBuffers()
  fifo,         \* fragmentFIFO_
  doProcessing, \* doProcessing_ of the streams
  blockInput,   \* blockInput_
  syncLoss,     \* syncLoss_
  resynced,     \* firstFragmentAfterResync_, at most one
  responding,   \* doProcessing_ of the BUproxy
  builder,      \* the thread that builds super-fragments
  wanted,       \* an RU's next request is for this trigger
  built,        \* the super-fragment built last
  state,        \* the state of the state machine
  missingFeds,  \* missingFeds_
  timer,        \* the threads in timeoutActivity(), asleep or past the sleep
  leaving       \* the exit action of Running, with eventMutex_ held

smVars == <<state, missingFeds, timer, leaving>>
vars == <<tolerate, master, resyncs, fed, faults, factory, parser, fifo,
          doProcessing, blockInput, syncLoss, resynced, responding, builder,
          wanted, built, smVars>>

Lowest(S) == CHOOSE f \in S : \A g \in S : f <= g

-----------------------------------------------------------------------------
(* Event-builder ids.  The run number is 1, and 0 in an id that is not set. *)

EvBid == [run : 0 .. 1, resyncCount : Nat, eventNumber : 0 .. MaxEventNumber,
          resynced : BOOLEAN]
NoEvBid ==
  [run |-> 0, resyncCount |-> 0, eventNumber |-> 0, resynced |-> FALSE]

SameId(a, b) == /\ a.run = b.run
                /\ a.resyncCount = b.resyncCount
                /\ a.eventNumber = b.eventNumber

FreshFactory == [previous |-> 0, resyncCount |-> 0]

(* What getEvBid(n) finds, given the number of the event before.            *)
IsNext(previous, n) == n = previous + 1
IsResync(previous, n) == ~IsNext(previous, n) /\ n = 1 /\ previous > 0
IsRollOver(previous, n) ==
  ~IsNext(previous, n) /\ n = 0 /\ previous = MaxEventNumber
OutOfSequence(previous, n) ==
  ~(IsNext(previous, n) \/ IsResync(previous, n) \/ IsRollOver(previous, n))

After(old, n) ==
  [previous |-> n,
   resyncCount |-> IF IsResync(old.previous, n) \/ IsRollOver(old.previous, n)
                     THEN old.resyncCount + 1 ELSE old.resyncCount]
IdOf(old, n) ==
  IF OutOfSequence(old.previous, n)
    THEN NoEvBid
    ELSE [run |-> 1, resyncCount |-> After(old, n).resyncCount,
          eventNumber |-> n, resynced |-> IsResync(old.previous, n)]

-----------------------------------------------------------------------------
(* The triggers, as the trigger system numbers them.                        *)

NumberAfter(n, i) ==
  IF i = 1 \/ i \in resyncs THEN 1 ELSE (n + 1) % (MaxEventNumber + 1)
TrueNumber[i \in 0 .. LastTrigger] ==
  IF i = 0 THEN 0 ELSE NumberAfter(TrueNumber[i - 1], i)
TrueFactory[i \in 0 .. LastTrigger] ==
  IF i = 0 THEN FreshFactory ELSE After(TrueFactory[i - 1], TrueNumber[i])
TrueId(i) == IdOf(TrueFactory[i - 1], TrueNumber[i])

(* The event number is set back at i, or has just come through 0.           *)
Restarts(i) == i \in 1 .. LastTrigger /\ TrueNumber[i] <= 1

(* A fault at i disturbs the first fragment with a lower number, or what    *)
(* the number before it tells the factory; it may make the factory count    *)
(* one restart more or less than there are.                                 *)
AtRestart(i, fault) ==
  Restarts(i) \/ (fault # "corrupted" /\ Restarts(i + 1))
Miscounts(i, fault) ==
  /\ fault # "corrupted"
  /\ \/ Restarts(i)
     \/ Restarts(i + 1) /\ TrueNumber[i + 1] = 0

-----------------------------------------------------------------------------
Fragment == [trigger : 1 .. LastTrigger, id : EvBid, bad : BOOLEAN]

IdleParser == [pc |-> "idle", fragment |-> <<>>, event |-> "none"]
NoFragments == [f \in FEDs |-> 0]
NoSuperFragment ==
  [id |-> NoEvBid, trigger |-> 0, fragments |-> NoFragments, missing |-> {}]
IdleBuilder ==
  [pc |-> "idle", sf |-> NoSuperFragment, todo |-> {}, fragment |-> <<>>]
Staying == [to |-> "none", todo |-> {}]

Init ==
  /\ \E unit \in Units : master = unit.master /\ tolerate = unit.tolerate
  /\ resyncs \in Resyncs
  /\ fed = [f \in FEDs |-> [trigger |-> 0, number |-> 0]]
  /\ faults = [count |-> 0, atRestart |-> FALSE, miscounts |-> FALSE]
  /\ factory = [f \in FEDs |-> FreshFactory]
  /\ parser = [f \in FEDs |-> IdleParser]
  /\ fifo = [f \in FEDs |-> <<>>]
  /\ doProcessing = [f \in FEDs |-> TRUE]
  /\ blockInput = [f \in FEDs |-> FALSE]
  /\ syncLoss = [f \in FEDs |-> FALSE]
  /\ resynced = [f \in FEDs |-> <<>>]
  /\ responding = TRUE
  /\ builder = IdleBuilder
  /\ wanted = 1
  /\ built = NoSuperFragment
  /\ state = "Enabled"
  /\ missingFeds = {}
  /\ timer = {}
  /\ leaving = Staying

-----------------------------------------------------------------------------
(* processFSMEvent(): what each state makes of an event.  A state that has  *)
(* no reaction to it only logs it.                                          *)

MutexFree == leaving = Staying

(* Mutant of Entered: 0 is no time at all, instead of no limit. *)
EnteredWithoutLimit == timer \cup {"asleep"}

(* IncompleteEvents is entered with a new timer, and interrupts it when it  *)
(* is left; a thread that is past its sleep does not notice.                *)
Entered == IF tolerate.incomplete THEN timer ELSE timer \cup {"asleep"}
Interrupted == timer \ {"asleep"}

DataLoss(f) ==
  /\ MutexFree
  /\ IF state \in {"Enabled", "MissingData"}
       THEN /\ state' = "MissingData"
            /\ missingFeds' = missingFeds \cup {f}
            /\ timer' = IF state = "Enabled" THEN Entered ELSE timer
       ELSE UNCHANGED <<state, missingFeds, timer>>
  /\ UNCHANGED <<leaving, blockInput>>

(* Mutant of Mismatch: entering SyncLoss does not block. *)
MismatchUnblocked ==
  /\ MutexFree
  /\ state' = IF state = "Enabled" THEN "SyncLoss" ELSE state
  /\ UNCHANGED <<blockInput, missingFeds, timer, leaving>>

(* MismatchDetected and EventOutOfSequence; entering SyncLoss blocks.       *)
Mismatch ==
  /\ MutexFree
  /\ IF state = "Enabled"
       THEN /\ state' = "SyncLoss"
            /\ blockInput' = [f \in FEDs |-> TRUE]
       ELSE UNCHANGED <<state, blockInput>>
  /\ UNCHANGED <<missingFeds, timer, leaving>>

Recovered(f) ==
  /\ MutexFree
  /\ IF state = "MissingData"
       THEN /\ missingFeds' = missingFeds \ {f}
            /\ IF missingFeds \subseteq {f}
                 THEN state' = "Enabled" /\ timer' = Interrupted
                 ELSE UNCHANGED <<state, timer>>
       ELSE UNCHANGED <<state, missingFeds, timer>>
  /\ UNCHANGED <<leaving, blockInput>>

IsRunning == state \in {"Enabled", "MissingData", "SyncLoss", "Draining"}
Leave(to) == /\ MutexFree /\ IsRunning
             /\ leaving' = [to |-> to, todo |-> FEDs]
             /\ UNCHANGED <<state, missingFeds, blockInput>>

(* A failure stops a run, and fails a unit that is Ready again.             *)
Fail ==
  \/ Leave("Failed")
  \/ /\ MutexFree /\ ~IsRunning
     /\ state' = "Failed"
     /\ UNCHANGED <<missingFeds, leaving, blockInput>>

-----------------------------------------------------------------------------
(* The streams: a FED sends a fragment, its buffers are parsed.             *)

Faulty(f, i, fault) ==
  /\ faults.count < MaxFaults
  /\ f # master \/ ~SpareMaster
  /\ faults' = [count |-> faults.count + 1,
                atRestart |-> faults.atRestart \/ AtRestart(i, fault),
                miscounts |-> faults.miscounts \/ Miscounts(i, fault)]

(* The fragment of trigger i with event number n is complete; a garbled one *)
(* fails in parse() before it gets an id.                                   *)
Parse(f, i, n, fault) ==
  LET old == factory[f]
      garbled == fault = "garbled"
      corrupted == garbled \/ fault = "corrupted"
      id == IF garbled THEN NoEvBid ELSE IdOf(old, n)
      misplaced == ~garbled /\ OutOfSequence(old.previous, n)
      tolerated == /\ IF corrupted THEN tolerate.corrupted
                                   ELSE tolerate.outOfSequence
                   /\ f # master
      event == IF ~corrupted /\ ~misplaced THEN "none"
               ELSE IF tolerated THEN "DataLoss"
               ELSE IF corrupted THEN "Fail" ELSE "EventOutOfSequence"
  IN  /\ parser[f].pc = "idle"
      /\ factory' = IF garbled THEN factory
                               ELSE [factory EXCEPT ![f] = After(old, n)]
      /\ parser' = [parser EXCEPT ![f] =
           [pc |-> IF event = "none" THEN "add" ELSE "report",
            fragment |-> <<[trigger |-> i, id |-> id,
                            bad |-> corrupted \/ misplaced]>>,
            event |-> event]]

(* The next fragment of a FED arrives.                                      *)
Arrives(f) ==
  LET i == fed[f].trigger + 1
      n == NumberAfter(fed[f].number, i)
  IN  /\ doProcessing[f] /\ i <= LastTrigger
      /\ fed' = [fed EXCEPT ![f] = [trigger |-> i, number |-> n]]
      /\ Parse(f, i, n, "none")
      /\ UNCHANGED faults

(* What else a FED may do: corrupt a fragment, lose it, or send the last    *)
(* one again.  The last one of a run is not lost: it would be waited for.   *)
Misbehaves(f, fault) ==
  LET i == fed[f].trigger + 1
      n == NumberAfter(fed[f].number, i)
  IN  /\ doProcessing[f] /\ state # "Draining"
      /\ \/ /\ fault \in {"corrupted", "garbled"} /\ i <= LastTrigger
            /\ Faulty(f, i, fault)
            /\ fed' = [fed EXCEPT ![f] = [trigger |-> i, number |-> n]]
            /\ Parse(f, i, n, fault)
         \/ /\ fault = "lost" /\ i < LastTrigger
            /\ Faulty(f, i, fault)
            /\ fed' = [fed EXCEPT ![f] = [trigger |-> i, number |-> n]]
            /\ UNCHANGED <<factory, parser>>
         \/ /\ fault = "repeated" /\ i > 1
            /\ Faulty(f, i - 1, fault)
            /\ Parse(f, i - 1, fed[f].number, "none")
            /\ UNCHANGED fed

ParserReports(f) ==
  /\ parser[f].pc = "report"
  /\ \/ parser[f].event = "DataLoss" /\ DataLoss(f)
     \/ parser[f].event = "EventOutOfSequence" /\ Mismatch
  /\ parser' = [parser EXCEPT ![f].pc = "add", ![f].event = "none"]

(* The exception ends parseSocketBuffers(): the thread is not active any    *)
(* more when it reports the failure, and leaves the run itself.             *)
ParserFails(f) ==
  /\ parser[f].pc = "report" /\ parser[f].event = "Fail"
  /\ Fail
  /\ timer' = Interrupted
  /\ parser' = [parser EXCEPT ![f] = [IdleParser EXCEPT !.pc = "failed"]]

ParserActive(f) ==
  \/ parser[f].pc = "add"
  \/ parser[f].pc = "report" /\ parser[f].event # "Fail"

(* Mutant of AddFedFragment: enq() that does not wait. *)
AddFedFragmentUnbounded(f) ==
  /\ parser[f].pc = "add"
  /\ fifo' = [fifo EXCEPT ![f] = @ \o parser[f].fragment]
  /\ parser' = [parser EXCEPT ![f] = IdleParser]

(* addFedFragment(); enqWait() gives up when the stream stops.              *)
AddFedFragment(f) ==
  /\ parser[f].pc = "add"
  /\ \/ ~doProcessing[f] /\ UNCHANGED fifo
     \/ /\ doProcessing[f] /\ Len(fifo[f]) < FIFOCapacity
        /\ fifo' = [fifo EXCEPT ![f] = @ \o parser[f].fragment]
  /\ parser' = [parser EXCEPT ![f] = IdleParser]

-----------------------------------------------------------------------------
(* The builder: getNextAvailableSuperFragment() on the EVM, which follows   *)
(* its master, and getSuperFragmentWithEvBid() on an RU, which is told what *)
(* to build; then appendFedFragment() stream by stream.                     *)

Start(id, i, fragments) ==
  [pc |-> "append", todo |-> FEDs \ {master}, fragment |-> <<>>,
   sf |-> [id |-> id, trigger |-> i, fragments |-> fragments, missing |-> {}]]

MasterChecks ==
  /\ builder.pc = "idle" /\ responding /\ master # 0
  /\ doProcessing[master] /\ ~blockInput[master]
  /\ builder' = [builder EXCEPT !.pc = "master"]
  /\ UNCHANGED <<fifo, syncLoss, resynced, wanted, built>>

TakeMaster ==
  /\ builder.pc = "master"
  /\ IF fifo[master] = <<>>
       THEN builder' = IdleBuilder /\ UNCHANGED fifo
       ELSE LET fragment == Head(fifo[master])
                i == fragment.trigger
            IN  /\ fifo' = [fifo EXCEPT ![master] = Tail(@)]
                /\ builder' = Start(fragment.id, i,
                                    [NoFragments EXCEPT ![master] = i])
  /\ UNCHANGED <<syncLoss, resynced, wanted, built>>

(* The EVM has built the event: its id is the true one.                     *)
RequestArrives ==
  /\ builder.pc = "idle" /\ responding /\ master = 0
  /\ wanted <= LastTrigger
  /\ builder' = Start(TrueId(wanted), wanted, NoFragments)
  /\ UNCHANGED <<fifo, syncLoss, resynced, wanted, built>>

Current == Lowest(builder.todo)
ToNext(b) ==
  [b EXCEPT !.pc = "append", !.fragment = <<>>, !.todo = @ \ {Current}]
PassedOver == [ToNext(builder) EXCEPT !.sf.missing = @ \cup {Current}]

(* HaltRequested: the super-fragment and the request for it are dropped.    *)
Abandon ==
  /\ builder' = IdleBuilder
  /\ wanted' = IF master = 0 THEN wanted + 1 ELSE wanted

Mismatches(fragment) == ~SameId(fragment.id, builder.sf.id)
Appended(fragment) ==
  IF Mismatches(fragment)
    THEN [builder EXCEPT
            !.pc = IF tolerate.outOfSequence THEN "lost" ELSE "mismatch",
            !.fragment = <<>>,
            !.sf.missing = @ \cup {Current}]
    ELSE [ToNext(builder) EXCEPT !.sf.fragments[Current] = fragment.trigger]

(* Mutant of UseHeldFragment: the held fragment is not swapped in. *)
UseHeldFragmentLate ==
  LET f == Current IN
  /\ builder.pc = "append" /\ builder.todo # {}
  /\ syncLoss[f] /\ resynced[f] # <<>>
  /\ builder' = PassedOver
  /\ IF builder.sf.id.resynced
       THEN /\ resynced' = [resynced EXCEPT ![f] = <<>>]
            /\ syncLoss' = [syncLoss EXCEPT ![f] = FALSE]
       ELSE UNCHANGED <<resynced, syncLoss>>
  /\ UNCHANGED <<fifo, wanted, built>>

(* A stream that has lost synchronisation and resynced already.             *)
UseHeldFragment ==
  LET f == Current IN
  /\ builder.pc = "append" /\ builder.todo # {}
  /\ syncLoss[f] /\ resynced[f] # <<>>
  /\ IF builder.sf.id.resynced
       THEN /\ builder' = [builder EXCEPT !.pc = "recovered",
                                          !.fragment = resynced[f]]
            /\ resynced' = [resynced EXCEPT ![f] = <<>>]
            /\ syncLoss' = [syncLoss EXCEPT ![f] = FALSE]
       ELSE builder' = PassedOver /\ UNCHANGED <<resynced, syncLoss>>
  /\ UNCHANGED <<fifo, wanted, built>>

(* getNextFedFragment() up to the deq().                                    *)
StreamChecks ==
  LET f == Current IN
  /\ builder.pc = "append" /\ builder.todo # {}
  /\ ~(syncLoss[f] /\ resynced[f] # <<>>)
  /\ \/ ~doProcessing[f] /\ Abandon
     \/ /\ doProcessing[f] /\ blockInput[f]
        /\ syncLoss[f] /\ ~builder.sf.id.resynced
        /\ builder' = PassedOver /\ UNCHANGED wanted
     \/ /\ doProcessing[f] /\ ~blockInput[f]
        /\ builder' = [builder EXCEPT !.pc = "deq"] /\ UNCHANGED wanted
  /\ UNCHANGED <<fifo, syncLoss, resynced, built>>

(* Mutant of FindsNothing: a lost stream is waited for as well. *)
FindsNothingWaits ==
  /\ builder.pc = "deq" /\ fifo[Current] = <<>>
  /\ builder' = [builder EXCEPT !.pc = "append"]
  /\ UNCHANGED <<fifo, syncLoss, resynced, wanted, built>>

FindsNothing ==
  LET f == Current IN
  /\ builder.pc = "deq" /\ fifo[f] = <<>>
  /\ builder' = IF syncLoss[f] /\ ~builder.sf.id.resynced
                  THEN PassedOver ELSE [builder EXCEPT !.pc = "append"]
  /\ UNCHANGED <<fifo, syncLoss, resynced, wanted, built>>

(* A stream in step takes the fragment; one that is not throws fragments    *)
(* away until it finds the first one after a resync.  If the event that is  *)
(* built is not the resynced one that fragment is held, and the stream      *)
(* missing from the super-fragment without notice.                          *)
TakeFragment ==
  LET f == Current
      fragment == Head(fifo[f])
      again == [builder EXCEPT !.pc = "append"]
  IN  /\ builder.pc = "deq" /\ fifo[f] # <<>>
      /\ fifo' = [fifo EXCEPT ![f] = Tail(@)]
      /\ \/ /\ ~syncLoss[f]
            /\ builder' =
                 IF fragment.bad THEN PassedOver ELSE Appended(fragment)
            /\ syncLoss' = [syncLoss EXCEPT ![f] =
                              fragment.bad \/ Mismatches(fragment)]
            /\ UNCHANGED resynced
         \/ /\ syncLoss[f] /\ ~fragment.id.resynced
            /\ builder' = again /\ UNCHANGED <<syncLoss, resynced>>
         \/ /\ syncLoss[f] /\ fragment.id.resynced /\ builder.sf.id.resynced
            /\ builder' = [builder EXCEPT !.pc = "recovered",
                                          !.fragment = <<fragment>>]
            /\ syncLoss' = [syncLoss EXCEPT ![f] = FALSE]
            /\ UNCHANGED resynced
         \/ /\ syncLoss[f] /\ fragment.id.resynced /\ ~builder.sf.id.resynced
            /\ builder' = ToNext(builder)
            /\ resynced' = [resynced EXCEPT ![f] = <<fragment>>]
            /\ UNCHANGED syncLoss
      /\ UNCHANGED <<wanted, built>>

(* processFSMEvent(Recovered), and the append() after it.                   *)
StreamRecovers ==
  LET fragment == builder.fragment[1] IN
  /\ builder.pc = "recovered"
  /\ Recovered(Current)
  /\ builder' = Appended(fragment)
  /\ syncLoss' = [syncLoss EXCEPT ![Current] = Mismatches(fragment)]
  /\ UNCHANGED <<fifo, resynced, wanted, built>>

ReportMismatch ==
  /\ \/ /\ builder.pc = "lost" /\ DataLoss(Current)
        /\ builder' = ToNext(builder) /\ UNCHANGED wanted
     \/ builder.pc = "mismatch" /\ Mismatch /\ Abandon
  /\ UNCHANGED <<fifo, syncLoss, resynced, built>>

SuperFragmentBuilt ==
  /\ builder.pc = "append" /\ builder.todo = {}
  /\ built' = builder.sf
  /\ builder' = IdleBuilder
  /\ wanted' = IF master = 0 THEN wanted + 1 ELSE wanted
  /\ UNCHANGED <<fifo, syncLoss, resynced>>

-----------------------------------------------------------------------------
(* The timer of IncompleteEvents.  It sleeps on while no events are built.  *)

TimerExpires ==
  /\ "asleep" \in timer
  /\ timer' = {"awake"}
  /\ UNCHANGED <<doProcessing, fifo, responding, state, missingFeds, leaving,
                 blockInput>>

TimerFails ==
  /\ "awake" \in timer
  /\ Fail
  /\ timer' = {}
  /\ UNCHANGED <<doProcessing, fifo, responding>>

-----------------------------------------------------------------------------
(* Stopping: the FEDs are stopped first.                                    *)

Stop ==
  /\ MutexFree /\ state \in {"Enabled", "MissingData", "SyncLoss"}
  /\ \A f \in FEDs : fed[f].trigger = LastTrigger
  /\ state' = "Draining"
  /\ timer' = Interrupted
  /\ UNCHANGED <<missingFeds, leaving, blockInput>>
  /\ UNCHANGED <<doProcessing, fifo, responding>>

Drained ==
  /\ state = "Draining"
  /\ \A f \in FEDs : ~ParserActive(f) /\ fifo[f] = <<>>
  /\ builder.pc = "idle" /\ (master = 0 => wanted > LastTrigger)
  /\ Leave("Ready")
  /\ UNCHANGED <<doProcessing, fifo, responding, timer>>

(* The exit action of Running: Input::stopProcessing() stream by stream,    *)
(* which waits for the parser, then BUproxy::stopProcessing(), which waits  *)
(* for the builder.  The fifo is cleared under the feet of the builder.     *)
StopStream ==
  LET f == Lowest(leaving.todo) IN
  /\ leaving.todo # {} /\ doProcessing[f]
  /\ doProcessing' = [doProcessing EXCEPT ![f] = FALSE]
  /\ fifo' = [fifo EXCEPT ![f] = <<>>]
  /\ UNCHANGED <<responding, smVars, blockInput>>

StreamStopped ==
  LET f == Lowest(leaving.todo) IN
  /\ leaving.todo # {} /\ ~doProcessing[f] /\ ~ParserActive(f)
  /\ fifo' = [fifo EXCEPT ![f] = <<>>]
  /\ leaving' = [leaving EXCEPT !.todo = @ \ {f}]
  /\ UNCHANGED <<doProcessing, responding, state, missingFeds, timer,
                 blockInput>>

StopBUproxy ==
  /\ ~MutexFree /\ leaving.todo = {} /\ responding
  /\ responding' = FALSE
  /\ UNCHANGED <<doProcessing, fifo, smVars, blockInput>>

RunLeft ==
  /\ ~MutexFree /\ leaving.todo = {} /\ ~responding /\ builder.pc = "idle"
  /\ state' = leaving.to
  /\ leaving' = Staying
  /\ UNCHANGED <<doProcessing, fifo, responding, missingFeds, timer,
                 blockInput>>

-----------------------------------------------------------------------------
StreamNext ==
  /\ \/ /\ \E f \in FEDs :
             Arrives(f) \/ \E fault \in Faults : Misbehaves(f, fault)
        /\ UNCHANGED <<fifo, blockInput, smVars>>
     \/ /\ \E f \in FEDs : ParserReports(f) \/ ParserFails(f)
        /\ UNCHANGED <<fed, faults, factory, fifo>>
     \/ /\ \E f \in FEDs : AddFedFragment(f)
        /\ UNCHANGED <<fed, faults, factory, blockInput, smVars>>
  /\ UNCHANGED <<tolerate, master, resyncs, doProcessing, syncLoss, resynced,
                 responding, builder, wanted, built>>

BuilderNext ==
  /\ \/ /\ \/ MasterChecks \/ TakeMaster \/ RequestArrives \/ UseHeldFragment
           \/ StreamChecks \/ FindsNothing \/ TakeFragment \/ SuperFragmentBuilt
        /\ UNCHANGED <<blockInput, smVars>>
     \/ StreamRecovers
     \/ ReportMismatch
  /\ UNCHANGED <<tolerate, master, resyncs, fed, faults, factory, parser,
                 doProcessing, responding>>

LeaveNext ==
  /\ \/ TimerExpires \/ TimerFails
     \/ Stop \/ Drained \/ StopStream \/ StreamStopped \/ StopBUproxy \/ RunLeft
  /\ UNCHANGED <<tolerate, master, resyncs, fed, faults, factory, parser,
                 syncLoss, resynced, builder, wanted, built>>

Next == StreamNext \/ BuilderNext \/ LeaveNext

Spec == Init /\ [][Next]_vars

(* The FEDs keep sending, the threads run and get eventMutex_ in turn.      *)
(* Streams take finitely many steps, so one condition serves them all.      *)
FairSpec == Spec /\ WF_vars(StreamNext) /\ WF_vars(BuilderNext)

-----------------------------------------------------------------------------
SuperFragment ==
  [id : EvBid, trigger : 0 .. LastTrigger,
   fragments : [FEDs -> 0 .. LastTrigger], missing : SUBSET FEDs]

(* Every variable stays in its range; a queue of fragments never exceeds    *)
(* its capacity, and a parser or builder holds a fragment only where the    *)
(* code has one in hand.                                                    *)
TypeOK ==
  /\ tolerate \in Tolerances /\ master \in Masters
  /\ resyncs \in Resyncs
  /\ fed \in [FEDs ->
               [trigger : 0 .. LastTrigger, number : 0 .. MaxEventNumber]]
  /\ faults \in [count : 0 .. MaxFaults, atRestart : BOOLEAN,
                 miscounts : BOOLEAN]
  /\ factory \in [FEDs -> [previous : 0 .. MaxEventNumber, resyncCount : Nat]]
  /\ \A f \in FEDs :
       /\ parser[f].pc \in {"idle", "report", "add", "failed"}
       /\ parser[f].event \in
            IF parser[f].pc = "report"
              THEN {"DataLoss", "EventOutOfSequence", "Fail"} ELSE {"none"}
       /\ parser[f].fragment \in Seq(Fragment)
       /\ Len(parser[f].fragment) =
            IF parser[f].pc \in {"report", "add"} THEN 1 ELSE 0
       /\ fifo[f] \in Seq(Fragment) /\ Len(fifo[f]) <= FIFOCapacity
       /\ resynced[f] \in Seq(Fragment) /\ Len(resynced[f]) <= 1
  /\ {doProcessing, blockInput, syncLoss} \subseteq [FEDs -> BOOLEAN]
  /\ responding \in BOOLEAN
  /\ builder.pc \in {"idle", "master", "append", "deq", "lost", "mismatch",
                     "recovered"}
  /\ builder.sf \in SuperFragment /\ built \in SuperFragment
  /\ builder.todo \subseteq FEDs
  /\ builder.fragment \in Seq(Fragment)
  /\ Len(builder.fragment) = IF builder.pc = "recovered" THEN 1 ELSE 0
  /\ wanted \in 1 .. LastTrigger + 1
  /\ state \in {"Enabled", "MissingData", "SyncLoss", "Draining", "Ready",
                "Failed"}
  /\ missingFeds \subseteq FEDs /\ timer \subseteq {"asleep", "awake"}
  /\ leaving \in [to : {"none", "Ready", "Failed"}, todo : SUBSET FEDs]

(* FerolStream.h and EvBidFactory.cc: all fragments of a super-fragment     *)
(* belong to its trigger, whatever is lost, repeated, corrupted, garbled or *)
(* resynced.  This ends when a fault makes a factory miscount the restarts: *)
(* a FED that loses the first fragment after a resync gives the ids of that *)
(* resync to the fragments after the next one.                              *)
SameTrigger ==
  ~faults.miscounts =>
    \A f \in FEDs : built.fragments[f] \in {0, built.trigger}

(* FerolStream.h: a super-fragment accounts for every FED: it has its       *)
(* fragment or says that it is missing, and not both.  The exception is     *)
(* the one in the code: a FED whose first fragment after a resync is being  *)
(* held for a later event.                                                  *)
EveryFedAccounted ==
  [][built' # built =>
       \A f \in FEDs :
         /\ ~(built'.fragments[f] # 0 /\ f \in built'.missing)
         /\ \/ built'.fragments[f] # 0 \/ f \in built'.missing
            \/ syncLoss[f] /\ resynced[f] # <<>>]_vars

(* A mismatch that is not tolerated blocks the input, or it is met only     *)
(* after a fault at a restart of the event number.  (With one FED an RU     *)
(* goes on without it.  MissingData and Draining have no reaction to a      *)
(* mismatch, which then drops its event.)                                   *)
NoMismatchPassed ==
  \/ ~faults.atRestart \/ tolerate.outOfSequence
  \/ /\ ~tolerate.corrupted /\ state \in {"Enabled", "SyncLoss"}
     /\ master # 0 \/ \A f \in FEDs : FEDs # {f}

(* Input.h: super-fragments are built in the order of the triggers and none *)
(* is left out, whatever happens to the fragments of the FEDs other than    *)
(* the master, unless a mismatch drops an event.                            *)
NoEventSkipped ==
  [][built' # built /\ NoMismatchPassed /\ (master = 0 \/ SpareMaster) =>
       built'.trigger = built.trigger + 1]_vars

(* FerolStream.h: whatever happened before, the first event after a resync  *)
(* has the fragments of all FEDs again, unless a fault hit the restart of   *)
(* an event number, or the master.                                          *)
ResyncRestoresAll ==
  /\ built.id.resynced /\ ~faults.atRestart
  /\ master = 0 \/ SpareMaster
  =>
    \A f \in FEDs : built.fragments[f] = built.trigger

(* FerolStream.h and States.h: with all errors tolerated no fault of a FED  *)
(* stops the unit: all events are built in the end, unless it hit the       *)
(* restart of an event number, or the time with incomplete events is        *)
(* limited and the timer fails the unit (src/test/cases/                    *)
(* 2x1_syncLossTolerating.py:54).                                           *)
TimedOut ==
  /\ faults.count > 0 /\ ~tolerate.incomplete
  /\ state = "Failed" \/ leaving.to = "Failed"
AllBuilt ==
  <>(\/ built.trigger = LastTrigger
     \/ faults.atRestart
     \/ faults.count > 0 /\ ~(tolerate.corrupted /\ tolerate.outOfSequence)
     \/ TimedOut)

(* "Errors on the master FED should not be tolerated" (src/test/cases/      *)
(* 2x1_tolerateMismatch.py:159): with a bad fragment of the master in the   *)
(* queue the unit does not build events.  It does not hold: while another   *)
(* FED is missing, MissingData has no reaction to the error.                *)
MasterErrors ==
  master # 0 =>
    \A i \in DOMAIN fifo[master] :
      fifo[master][i].bad => state \notin {"Enabled", "MissingData"}

(* What each super-fragment promises: fragments of its own trigger, every   *)
(* FED accounted for, and the event after the one before (FerolStream.h,    *)
(* Input.h).                                                                *)
SuperFragmentsRight == []SameTrigger /\ EveryFedAccounted /\ NoEventSkipped
=============================================================================
