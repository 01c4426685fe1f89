---------------------------- MODULE LumiSections ----------------------------
(***************************************************************************)
(* How a builder unit closes lumi sections: the lumi-section accounts of   *)
(* evb::bu::ResourceManager, the event loop of EventBuilder, the           *)
(* StreamHandler of each builder, and DiskWriter with its two threads.     *)
(*                                                                         *)
(* The callback counts each event of an answered request in the account of *)
(* its lumi section.  A builder handles complete events of the oldest open *)
(* lumi section only: it marks the event as completed in the account and   *)
(* writes it to the file of its stream.  The accounting thread closes the  *)
(* oldest account when no event is incomplete and newer events exist, or   *)
(* when it timed out, and writes the end-of-lumi-section (EoLS) file when  *)
(* the file mover has seen as many events as the account counts.           *)
(*                                                                         *)
(* One run with dropEventData = FALSE.  An event weighs one byte.          *)
(***************************************************************************)
EXTENDS Integers, Sequences, FiniteSets, FiniteSetsExt

CONSTANTS NumberOfBuilders,
          MaxEventsPerFile,
          FileStatisticsFIFOCapacity,
          EventsPerRequest,
          MaxRequests,          \* requests a BU has resources for
          MaxEvents, MaxLumi    \* bounds on the input

ASSUME LumiAssumption ==
  /\ NumberOfBuilders \in Nat \ {0}
  /\ MaxEventsPerFile \in Nat \ {0}
  /\ FileStatisticsFIFOCapacity \in Nat \ {0}
  /\ EventsPerRequest \in Nat \ {0}
  /\ MaxRequests \in Nat \ {0}
  /\ MaxEvents \in Nat
  /\ MaxLumi \in Nat

VARIABLES run,         \* the state machine, and what stopProcessing() is doing
          checked,     \* threads that have looked at doProcessing_ and are not active yet
          lumi,        \* the lumi section of each event
          nextEvent,   \* the next event the EVM hands to this BU
          pending,     \* requests the EVM has not answered
          inFlight,    \* answered requests on their way, as sets of events
          callback,    \* the answer superFragmentCallback() is accounting
          accounts,    \* lumiSectionAccounts_
          oldest,      \* oldestIncompleteLumiSection_
          building,    \* answers whose super-fragments are incomplete
          complete,    \* completeEvents of each builder
          builder,     \* each builder thread
          file,        \* fileHandler_ and currentFileStatistics_
          closedFiles, \* fileStatisticsFIFO_
          mover,       \* the fileMover thread
          accountant,  \* the lumiAccounting thread
          stats,       \* lumiStatistics_
          eols,        \* the EoLS files
          corrupted,   \* events found corrupted
          late         \* an answer was accounted after the stop began to take the accounts

inputVars == <<lumi, nextEvent, pending, inFlight, callback>>
builderVars == <<building, complete, builder>>
diskVars == <<file, closedFiles, mover, stats>>
accountVars == <<accountant, eols>>
vars == <<run, checked, late, inputVars, accounts, oldest, builderVars, diskVars, accountVars, corrupted>>

Events == 1 .. MaxEvents
Builders == 1 .. NumberOfBuilders
LumiSectionNumbers == 0 .. MaxLumi + 1

NoCallback == [batch |-> {}, todo |-> {}]
IdleBuilder == [pc |-> "idle", oldest |-> 0, event |-> 0]
NoAccount == [lumi |-> 0, nbEvents |-> 0, nbIncomplete |-> 0]
InactiveMover == [pc |-> "off", stream |-> 1, work |-> FALSE, lumi |-> 0, bytes |-> 0]
FirstStream == [InactiveMover EXCEPT !.pc = "deq"]
InactiveAccountant == [pc |-> "off", account |-> NoAccount, due |-> {}]
AccountingLoop == [InactiveAccountant EXCEPT !.pc = "loop"]

(* No lumi sections at all (number 0), or consecutive ones from 1. *)
lumiSequences ==
  {l \in [Events -> 0 .. MaxLumi] :
     \/ \A e \in Events : l[e] = 0
     \/ \A e, f \in Events : l[e] > 0 /\ (e <= f => l[e] <= l[f])}

Init ==
  /\ run = "running"
  /\ checked = {}
  /\ late = FALSE
  /\ lumi \in lumiSequences
  /\ nextEvent = 1
  /\ pending = 0
  /\ inFlight = {}
  /\ callback = NoCallback
  /\ accounts = <<>>
  /\ oldest = 0
  /\ building = [b \in Builders |-> {}]
  /\ complete = [b \in Builders |-> {}]
  /\ builder = [b \in Builders |-> IdleBuilder]
  /\ file = [b \in Builders |-> [open |-> FALSE, lumi |-> 0, nbEvents |-> 0]]
  /\ closedFiles = [b \in Builders |-> <<>>]
  /\ mover = InactiveMover
  /\ accountant = InactiveAccountant
  /\ stats = <<>>
  /\ eols = <<>>
  /\ corrupted = {}
-----------------------------------------------------------------------------
(***************************************************************************)
(* Requests and answers.  The EVM hands out events in order, so the lumi   *)
(* section never decreases, but answers may overtake each other.           *)
(***************************************************************************)
accounting == IF callback.batch = {} THEN 0 ELSE 1
outstandingRequests == pending + Cardinality(inFlight) + accounting

inputOnly == UNCHANGED <<run, checked, late, lumi, accounts, oldest, builderVars, diskVars,
                         accountVars, corrupted>>

(* A bound: nobody asks for more when all events are handed out.  Requests *)
(* sent before may stay unanswered.                                        *)
Request ==
  /\ run = "running"
  /\ outstandingRequests < MaxRequests
  /\ nextEvent <= MaxEvents
  /\ pending' = pending + 1
  /\ UNCHANGED <<nextEvent, inFlight, callback>>
  /\ inputOnly

(* The EVM answers with n events, with none for a stale BU. *)
Answer(n) ==
  /\ pending > 0
  /\ nextEvent + n - 1 <= MaxEvents
  /\ pending' = pending - 1
  /\ nextEvent' = nextEvent + n
  /\ inFlight' = IF n = 0 THEN inFlight ELSE inFlight \cup {nextEvent .. nextEvent + n - 1}
  /\ UNCHANGED callback
  /\ inputOnly

(* The callback does not ask for the state: answers also come after a stop. *)
FirstAnswer(batch) ==
  /\ callback.batch = {}
  /\ inFlight' = inFlight \ {batch}
  /\ callback' = [batch |-> batch, todo |-> batch]
  /\ UNCHANGED <<nextEvent, pending>>
  /\ inputOnly

(***************************************************************************)
(* incrementEventsInLumiSection() for one event, which opens the accounts  *)
(* of any lumi sections skipped.                                           *)
(***************************************************************************)
open == DOMAIN accounts

backfill(ls) == (IF open # {} THEN Max(open) + 1 ELSE IF ls = 0 THEN 0 ELSE 1) .. ls

increment(ls) ==
  accounts' = [l \in open \cup backfill(ls) |->
                 LET old == IF l \in open THEN accounts[l] ELSE [nbEvents |-> 0, nbIncomplete |-> 0]
                 IN IF l = ls THEN [nbEvents |-> old.nbEvents + 1, nbIncomplete |-> old.nbIncomplete + 1]
                              ELSE old]

accountsTaken == run \in {"accounting", "stopped", "failed"}

AccountEvent(b) ==
  /\ callback.todo # {}
  /\ LET e == Min(callback.todo)
         last == callback.todo = {e}
     IN /\ lumi[e] \in open \cup backfill(lumi[e])
        /\ increment(lumi[e])
        /\ callback' = IF last THEN NoCallback ELSE [callback EXCEPT !.todo = @ \ {e}]
        /\ building' = IF last THEN [building EXCEPT ![b] = @ \cup {callback.batch}]
                               ELSE building
  /\ late' = (late \/ accountsTaken)
  /\ UNCHANGED <<run, checked, lumi, nextEvent, pending, inFlight, oldest, complete, builder,
                 diskVars, accountVars, corrupted>>

(* An exception becomes a Fail event, which stops a BU that is running. *)
onFail == IF run = "running" THEN "stopping" ELSE run

(* "... an earlier lumi section that has already been closed": Failed *)
EventFromClosedLumiSection ==
  /\ callback.todo # {}
  /\ LET ls == lumi[Min(callback.todo)] IN ls \notin open \cup backfill(ls)
  /\ callback' = NoCallback
  /\ run' = onFail
  /\ UNCHANGED <<checked, late, lumi, nextEvent, pending, inFlight, accounts, oldest, builderVars,
                 diskVars, accountVars, corrupted>>
-----------------------------------------------------------------------------
(***************************************************************************)
(* The builder threads: process() and handleCompleteEvents().              *)
(***************************************************************************)
processing == run \in {"running", "stopping"}
builderOnly == UNCHANGED <<run, checked, late, inputVars, oldest, mover, stats, accountVars>>

(* The last RU's super-fragments complete all events of an answer. *)
BuildEvents(b, batch) ==
  /\ processing
  /\ builder[b].pc = "idle"
  /\ building' = [building EXCEPT ![b] = @ \ {batch}]
  /\ complete' = [complete EXCEPT ![b] = @ \cup batch]
  /\ UNCHANGED <<builder, accounts, file, closedFiles, corrupted>>
  /\ builderOnly

eligible(b, ls) == {e \in complete[b] : lumi[e] = ls}

HandleBegin(b) ==
  /\ processing
  /\ builder[b].pc = "idle"
  /\ eligible(b, oldest) # {}
  /\ builder' = [builder EXCEPT ![b] = [pc |-> "pick", oldest |-> oldest, event |-> 0]]
  /\ UNCHANGED <<building, complete, accounts, file, closedFiles, corrupted>>
  /\ builderOnly

HandleEnd(b) ==
  /\ builder[b].pc = "pick"
  /\ eligible(b, builder[b].oldest) = {}
  /\ builder' = [builder EXCEPT ![b] = IdleBuilder]
  /\ UNCHANGED <<building, complete, accounts, file, closedFiles, corrupted>>
  /\ builderOnly

(* checkEvent() and eventCompleted(); a corrupted event is only discarded. *)
CompleteEvent(b, e, isCorrupted) ==
  /\ builder[b].pc = "pick"
  /\ e \in eligible(b, builder[b].oldest)
  /\ lumi[e] \in open
  /\ accounts' = [accounts EXCEPT ![lumi[e]].nbIncomplete = @ - 1]
  /\ complete' = [complete EXCEPT ![b] = @ \ {e}]
  /\ builder' = [builder EXCEPT ![b] = IF isCorrupted THEN IdleBuilder
                                       ELSE [@ EXCEPT !.pc = "write", !.event = e]]
  /\ corrupted' = IF isCorrupted THEN corrupted \cup {e} ELSE corrupted
  /\ UNCHANGED <<building, file, closedFiles>>
  /\ builderOnly
-----------------------------------------------------------------------------
(***************************************************************************)
(* StreamHandler::writeEvent(), which holds fileHandlerMutex_ from "lock"  *)
(* on.  do_closeFile() waits for space in fileStatisticsFIFO_.             *)
(***************************************************************************)
locked(b) == builder[b].pc \in {"lock", "full"}

closeFile(b) ==
  /\ Len(closedFiles[b]) < FileStatisticsFIFOCapacity
  /\ closedFiles' = [closedFiles EXCEPT ![b] =
                       Append(@, [lumi |-> file[b].lumi, nbEvents |-> file[b].nbEvents])]
  /\ file' = [file EXCEPT ![b].open = FALSE]

LockFile(b) ==
  /\ builder[b].pc = "write"
  /\ builder' = [builder EXCEPT ![b].pc = "lock"]
  /\ UNCHANGED <<building, complete, accounts, file, closedFiles, corrupted>>
  /\ builderOnly

CloseOlderFile(b) ==
  /\ builder[b].pc = "lock"
  /\ file[b].open /\ lumi[builder[b].event] > file[b].lumi
  /\ closeFile(b)
  /\ UNCHANGED <<building, complete, builder, accounts, corrupted>>
  /\ builderOnly

(* handled(b): on to the next event, or, for a CRC error, out of the loop *)
handled(b) ==
  \E pc \in {"pick", "idle"} :
    builder' = [builder EXCEPT ![b] = IF pc = "pick" THEN [@ EXCEPT !.pc = pc, !.event = 0]
                                                     ELSE IdleBuilder]

WriteEvent(b) ==
  /\ builder[b].pc = "lock"
  /\ LET ls == lumi[builder[b].event]
         nb == IF file[b].open THEN file[b].nbEvents + 1 ELSE 1
     IN /\ IF file[b].open THEN ls = file[b].lumi ELSE ls >= file[b].lumi
        /\ file' = [file EXCEPT ![b] = [open |-> TRUE, lumi |-> ls, nbEvents |-> nb]]
        /\ IF nb >= MaxEventsPerFile THEN builder' = [builder EXCEPT ![b].pc = "full"]
                                     ELSE handled(b)
  /\ UNCHANGED <<building, complete, closedFiles, accounts, corrupted>>
  /\ builderOnly

CloseFullFile(b) ==
  /\ builder[b].pc = "full"
  /\ closeFile(b)
  /\ handled(b)
  /\ UNCHANGED <<building, complete, accounts, corrupted>>
  /\ builderOnly
-----------------------------------------------------------------------------
(***************************************************************************)
(* The threads of DiskWriter look at doProcessing_ and set their flag in   *)
(* two steps.  While doProcessing_ is TRUE nobody reads the flag, and the  *)
(* two are one step; those in between when it becomes FALSE are "checked". *)
(***************************************************************************)
doProcessing == processing

FileMover ==
  /\ mover.pc = "off"
  /\ doProcessing \/ "fileMover" \in checked
  /\ run # "moving"
  /\ checked' = checked \ {"fileMover"}
  /\ mover' = FirstStream
  /\ UNCHANGED <<run, late, inputVars, accounts, oldest, builderVars, accountVars,
                 file, closedFiles, stats, corrupted>>

LumiAccounting ==
  /\ accountant.pc = "off"
  /\ doProcessing \/ "lumiAccounting" \in checked
  /\ run # "accounting"
  /\ checked' = checked \ {"lumiAccounting"}
  /\ accountant' = AccountingLoop
  /\ UNCHANGED <<run, late, inputVars, accounts, oldest, builderVars, eols, diskVars, corrupted>>
-----------------------------------------------------------------------------
(***************************************************************************)
(* moveFiles(): for each stream in turn, handle the closed files and close *)
(* a file that has been open for a lumi section; again if anything was     *)
(* done.  The thread and, when run = "moving", stopProcessing() call it.   *)
(***************************************************************************)
moverOnly == UNCHANGED <<run, checked, late, inputVars, accounts, oldest, builderVars,
                         accountVars, corrupted>>

NewLumiInfo == [nbEvents |-> 0, nbIncomplete |-> 0, isEmpty |-> FALSE,
                files |-> 0, written |-> 0, bytes |-> 0]

lumiInfo(ls) == IF ls \in DOMAIN stats THEN stats[ls] ELSE NewLumiInfo
setLumiInfo(ls, info) ==
  stats' = [l \in DOMAIN stats \cup {ls} |-> IF l = ls THEN info ELSE stats[l]]

(* handleRawDataFile() up to the number of events, then the bytes *)
HandleRawDataFile ==
  /\ mover.pc = "deq"
  /\ LET s == mover.stream
         f == Head(closedFiles[s])
         info == lumiInfo(f.lumi)
     IN /\ closedFiles[s] # <<>>
        /\ closedFiles' = [closedFiles EXCEPT ![s] = Tail(@)]
        /\ setLumiInfo(f.lumi, [info EXCEPT !.files = @ + 1, !.written = @ + f.nbEvents])
        /\ mover' = [mover EXCEPT !.pc = "bytes", !.work = TRUE, !.lumi = f.lumi, !.bytes = f.nbEvents]
  /\ UNCHANGED file
  /\ moverOnly

(* The LumiInfo may be gone meanwhile. *)
AddBytes ==
  /\ mover.pc = "bytes"
  /\ IF mover.lumi \in DOMAIN stats
     THEN stats' = [stats EXCEPT ![mover.lumi].bytes = @ + mover.bytes]
     ELSE UNCHANGED stats
  /\ mover' = [mover EXCEPT !.pc = "deq", !.lumi = 0, !.bytes = 0]
  /\ UNCHANGED <<file, closedFiles>>
  /\ moverOnly

(* Mutant of nextStream: one stream too many. *)
nextStreamTooMany(work) ==
  mover' = IF mover.stream <= NumberOfBuilders THEN [mover EXCEPT !.stream = @ + 1, !.work = work]
           ELSE IF work THEN FirstStream
           ELSE InactiveMover

nextStream(work) ==
  mover' = IF mover.stream < NumberOfBuilders THEN [mover EXCEPT !.stream = @ + 1, !.work = work]
           ELSE IF work THEN FirstStream
           ELSE InactiveMover

(***************************************************************************)
(* A stream is done when its FIFO is empty.  A file that is opened between *)
(* this observation and the lock is not old, so both are one step.         *)
(***************************************************************************)
streamDone(s) ==
  /\ mover.pc = "deq" /\ mover.stream = s
  /\ closedFiles[s] = <<>>
  /\ ~locked(s)

CloseOldFile(s) ==
  /\ streamDone(s)
  /\ file[s].open
  /\ closeFile(s)
  /\ nextStream(TRUE)
  /\ UNCHANGED stats
  /\ moverOnly

LeaveFile ==
  /\ streamDone(mover.stream)
  /\ nextStream(mover.work)
  /\ UNCHANGED <<file, closedFiles, stats>>
  /\ moverOnly
-----------------------------------------------------------------------------
(***************************************************************************)
(* doLumiSectionAccounting() and getNextLumiSectionAccount().  The thread  *)
(* and, when run = "accounting", stopProcessing() call it.                 *)
(***************************************************************************)
accountOnly == UNCHANGED <<run, checked, late, inputVars, builderVars, file, closedFiles, mover, corrupted>>

(* Mutant of isComplete: the account alone decides. *)
isAccounted(info) == info.isEmpty \/ info.nbEvents > 0

isComplete(info) ==
  \/ info.isEmpty
  \/ info.nbEvents > 0 /\ info.nbEvents = info.written + info.nbIncomplete

take(ls) ==
  accountant' = [pc |-> "record",
                 account |-> [lumi |-> ls, nbEvents |-> accounts[ls].nbEvents,
                              nbIncomplete |-> accounts[ls].nbIncomplete],
                 due |-> {}]

(* Mutant of CloseLumiSection: only lumi sections with events are closed. *)
CloseNonEmptyLumiSection ==
  /\ accountant.pc = "loop" /\ run # "accounting"
  /\ Cardinality(open) > 1
  /\ LET ls == Min(open)
     IN /\ accounts[ls].nbIncomplete = 0 /\ accounts[ls].nbEvents > 0
        /\ take(ls)
        /\ accounts' = [l \in open \ {ls} |-> accounts[l]]
        /\ oldest' = Min(open \ {ls})
  /\ UNCHANGED <<stats, eols>>
  /\ accountOnly

CloseLumiSection ==
  /\ accountant.pc = "loop" /\ run # "accounting"
  /\ Cardinality(open) > 1
  /\ LET ls == Min(open)
     IN /\ accounts[ls].nbIncomplete = 0
        /\ take(ls)
        /\ accounts' = [l \in open \ {ls} |-> accounts[l]]
        /\ oldest' = Min(open \ {ls})
  /\ UNCHANGED <<stats, eols>>
  /\ accountOnly

(* lumiSectionTimeout_ is longer than a lumi section: it is over by then. *)
isOver(ls) == \A e \in nextEvent .. MaxEvents : lumi[e] > ls

(* Mutant of LumiSectionTimeout: the next lumi section is not opened. *)
LumiSectionTimeoutNoNext ==
  /\ accountant.pc = "loop" /\ run # "accounting"
  /\ outstandingRequests = 0
  /\ \E ls \in 1 .. MaxLumi :
       /\ open = {ls}
       /\ accounts[ls].nbIncomplete = 0
       /\ isOver(ls)
       /\ take(ls)
       /\ accounts' = <<>>
  /\ UNCHANGED <<oldest, stats, eols>>
  /\ accountOnly

LumiSectionTimeout ==
  /\ accountant.pc = "loop" /\ run # "accounting"
  /\ outstandingRequests = 0
  /\ \E ls \in 1 .. MaxLumi :
       /\ open = {ls}
       /\ accounts[ls].nbIncomplete = 0
       /\ isOver(ls)
       /\ take(ls)
       /\ accounts' = [l \in {ls + 1} |-> [nbEvents |-> 0, nbIncomplete |-> 0]]
       /\ oldest' = ls + 1
  /\ UNCHANGED <<stats, eols>>
  /\ accountOnly

(* A stop takes the accounts as they are. *)
TakeAnyAccount ==
  /\ accountant.pc = "loop" /\ run = "accounting"
  /\ open # {}
  /\ take(Min(open))
  /\ accounts' = [l \in open \ {Min(open)} |-> accounts[l]]
  /\ UNCHANGED <<oldest, stats, eols>>
  /\ accountOnly

(* No account to close: on to the statistics. *)
NoAccountToClose ==
  /\ accountant.pc = "loop"
  /\ IF run = "accounting" THEN open = {}
     ELSE Cardinality(open) > 1 => accounts[Min(open)].nbIncomplete > 0
  /\ oldest' = IF open = {} THEN oldest ELSE Min(open)
  /\ accountant' = [accountant EXCEPT !.pc = "scan",
                       !.due = {ls \in DOMAIN stats : isComplete(stats[ls])}]
  /\ UNCHANGED <<accounts, stats, eols>>
  /\ accountOnly

RecordAccount ==
  /\ accountant.pc = "record"
  /\ LET a == accountant.account
         info == lumiInfo(a.lumi)
     IN /\ info.nbEvents = 0
        /\ setLumiInfo(a.lumi, IF a.nbEvents = 0
                               THEN [info EXCEPT !.isEmpty = TRUE]
                               ELSE [info EXCEPT !.nbEvents = a.nbEvents,
                                                 !.nbIncomplete = a.nbIncomplete])
  /\ accountant' = AccountingLoop
  /\ UNCHANGED <<accounts, oldest, eols>>
  /\ accountOnly

WriteEoLS(ls) ==
  /\ accountant.pc = "scan"
  /\ ls \in DOMAIN stats /\ ls \notin DOMAIN eols
  /\ isComplete(stats[ls])
  /\ eols' = [l \in DOMAIN eols \cup {ls} |-> IF l = ls THEN stats[ls] ELSE eols[l]]
  /\ stats' = [l \in DOMAIN stats \ {ls} |-> stats[l]]
  /\ UNCHANGED <<accounts, oldest, accountant>>
  /\ accountOnly

(* An exception ends the accounting; in stopProcessing() the BU fails. *)
raise ==
  /\ accountant' = InactiveAccountant
  /\ run' = IF run = "accounting" THEN "failed" ELSE onFail
  /\ UNCHANGED <<checked, late, inputVars, accounts, oldest, builderVars, diskVars, eols, corrupted>>

(* "Got a duplicated account for lumi section" *)
DuplicatedAccount ==
  /\ accountant.pc = "record"
  /\ lumiInfo(accountant.account.lumi).nbEvents > 0
  /\ raise

(* "The JSON file ... already exists" *)
EoLSExists ==
  /\ accountant.pc = "scan"
  /\ \E ls \in DOMAIN stats \cap DOMAIN eols : isComplete(stats[ls])
  /\ raise

(* What was complete when the scan began is written, what became complete  *)
(* during the scan may have been passed already.                           *)
ScanEnd ==
  /\ accountant.pc = "scan"
  /\ accountant.due \cap DOMAIN stats = {}
  /\ accountant' = InactiveAccountant
  /\ UNCHANGED <<accounts, oldest, stats, eols>>
  /\ accountOnly
-----------------------------------------------------------------------------
(***************************************************************************)
(* Stopping, halting or failing: DiskWriter::stopProcessing() once the     *)
(* builders have left handleCompleteEvents().  It waits for the flags of   *)
(* its threads, accounting first, then mover, and does the rest itself.    *)
(***************************************************************************)
fsmOnly == UNCHANGED <<late, inputVars, accounts, oldest, builderVars, stats, eols, corrupted>>
filesClosed == \A b \in Builders : ~file[b].open

Stop ==
  /\ run = "running"
  /\ run' = "stopping"
  /\ UNCHANGED <<checked, file, closedFiles, mover, accountant>>
  /\ fsmOnly

inactive == {t \in {"fileMover", "lumiAccounting"} :
               IF t = "fileMover" THEN mover.pc = "off" ELSE accountant.pc = "off"}

(* doProcessing_ = false *)
BuildersStopped(threads) ==
  /\ run = "stopping"
  /\ \A b \in Builders : builder[b].pc = "idle"
  /\ run' = "waitAccounting"
  /\ checked' = threads
  /\ UNCHANGED <<file, closedFiles, mover, accountant>>
  /\ fsmOnly

AccountingInactive ==
  /\ run = "waitAccounting"
  /\ accountant.pc = "off"
  /\ run' = "waitMover"
  /\ UNCHANGED <<checked, file, closedFiles, mover, accountant>>
  /\ fsmOnly

MoverInactive ==
  /\ run = "waitMover"
  /\ run' = IF mover.pc = "off" THEN "flushing" ELSE "waitAccounting"
  /\ UNCHANGED <<checked, file, closedFiles, mover, accountant>>
  /\ fsmOnly

FlushFile(b) ==
  /\ run = "flushing"
  /\ file[b].open
  /\ closeFile(b)
  /\ UNCHANGED <<run, checked, mover, accountant>>
  /\ fsmOnly

FilesFlushed ==
  /\ run = "flushing" /\ filesClosed
  /\ mover.pc = "off"
  /\ run' = "moving"
  /\ mover' = FirstStream
  /\ UNCHANGED <<checked, file, closedFiles, accountant>>
  /\ fsmOnly

FilesMoved ==
  /\ run = "moving" /\ mover.pc = "off"
  /\ accountant.pc = "off"
  /\ run' = "accounting"
  /\ accountant' = AccountingLoop
  /\ UNCHANGED <<checked, file, closedFiles, mover>>
  /\ fsmOnly

(* Left-over statistics fail the BU: "There are unaccounted files ..." *)
Stopped ==
  /\ run = "accounting" /\ accountant.pc = "off"
  /\ mover.pc = "off"
  /\ run' = IF DOMAIN stats = {} THEN "stopped" ELSE "failed"
  /\ UNCHANGED <<checked, file, closedFiles, mover, accountant>>
  /\ fsmOnly

(***************************************************************************)
(* A thread that looked at doProcessing_ before the stop may become active *)
(* after it was waited for.  Then two threads take from the same FIFO in   *)
(* moveFiles() or change the same map in doLumiSectionAccounting(), or     *)
(* streamHandlers_ is cleared under the mover: undefined.                  *)
(***************************************************************************)
TwoThreads ==
  /\ \/ run = "moving" /\ "fileMover" \in checked
     \/ run = "flushing" /\ filesClosed /\ mover.pc # "off"
     \/ run = "accounting" /\ "lumiAccounting" \in checked
     \/ run = "moving" /\ mover.pc = "off" /\ accountant.pc # "off"
     \/ run = "accounting" /\ accountant.pc = "off" /\ mover.pc # "off"
  /\ run' = "undefined"
  /\ UNCHANGED <<checked, file, closedFiles, mover, accountant>>
  /\ fsmOnly
-----------------------------------------------------------------------------
BuilderSteps(b) ==
  \/ HandleBegin(b) \/ HandleEnd(b)
  \/ \E e \in Events, isCorrupted \in BOOLEAN : CompleteEvent(b, e, isCorrupted)
  \/ LockFile(b) \/ CloseOlderFile(b) \/ WriteEvent(b) \/ CloseFullFile(b)

MoverSteps ==
  \/ FileMover \/ HandleRawDataFile \/ AddBytes \/ LeaveFile
  \/ \E s \in Builders : CloseOldFile(s)

AccountingSteps ==
  \/ LumiAccounting \/ CloseLumiSection \/ LumiSectionTimeout \/ TakeAnyAccount
  \/ NoAccountToClose \/ RecordAccount \/ ScanEnd
  \/ DuplicatedAccount \/ EoLSExists
  \/ \E ls \in LumiSectionNumbers : WriteEoLS(ls)

StopSteps ==
  \/ AccountingInactive \/ MoverInactive \/ FilesFlushed \/ FilesMoved \/ Stopped \/ TwoThreads
  \/ \E threads \in SUBSET inactive : BuildersStopped(threads)
  \/ \E b \in Builders : FlushFile(b)

defined == run # "undefined"

Next ==
  /\ defined
  /\ \/ Request \/ EventFromClosedLumiSection \/ Stop
     \/ \E n \in 0 .. EventsPerRequest : Answer(n)
     \/ \E batch \in inFlight : FirstAnswer(batch)
     \/ \E b \in Builders :
          AccountEvent(b) \/ BuilderSteps(b) \/ \E batch \in building[b] : BuildEvents(b, batch)
     \/ MoverSteps \/ AccountingSteps \/ StopSteps

Spec == Init /\ [][Next]_vars

(***************************************************************************)
(* The callback handles what has arrived, each thread of the BU keeps      *)
(* going, and a file left open gets old.  The EVM need not answer.         *)
(***************************************************************************)
CallbackSteps ==
  \/ \E batch \in inFlight : FirstAnswer(batch)
  \/ \E b \in Builders : AccountEvent(b)

Fairness ==
  /\ WF_vars(defined /\ CallbackSteps)
  /\ \A b \in Builders :
       WF_vars(defined /\ (BuilderSteps(b) \/ \E batch \in building[b] : BuildEvents(b, batch)))
  /\ WF_vars(defined /\ MoverSteps)
  /\ SF_vars(defined /\ \E s \in Builders : CloseOldFile(s))
  /\ WF_vars(defined /\ AccountingSteps)
  /\ WF_vars(StopSteps)

FairSpec == Spec /\ Fairness
-----------------------------------------------------------------------------
(* Properties. *)

LumiInfos == [nbEvents : Nat, nbIncomplete : Nat, isEmpty : BOOLEAN,
              files : Nat, written : Nat, bytes : Nat]

(* Types of the variables. *)
TypeOK ==
  /\ run \in {"running", "stopping", "waitAccounting", "waitMover", "flushing", "moving",
             "accounting", "stopped", "failed", "undefined"}
  /\ checked \subseteq {"fileMover", "lumiAccounting"}
  /\ late \in BOOLEAN
  /\ lumi \in [Events -> 0 .. MaxLumi]
  /\ nextEvent \in 1 .. MaxEvents + 1
  /\ pending \in 0 .. MaxRequests
  /\ inFlight \subseteq SUBSET Events
  /\ callback \in [batch : SUBSET Events, todo : SUBSET Events]
  /\ open \subseteq LumiSectionNumbers
  /\ accounts \in [open -> [nbEvents : Nat, nbIncomplete : Nat]]
  /\ oldest \in LumiSectionNumbers
  /\ building \in [Builders -> SUBSET SUBSET Events]
  /\ complete \in [Builders -> SUBSET Events]
  /\ builder \in [Builders -> [pc : {"idle", "pick", "write", "lock", "full"},
                               oldest : LumiSectionNumbers, event : 0 .. MaxEvents]]
  /\ file \in [Builders -> [open : BOOLEAN, lumi : 0 .. MaxLumi, nbEvents : 0 .. MaxEvents]]
  /\ closedFiles \in [Builders -> Seq([lumi : 0 .. MaxLumi, nbEvents : 0 .. MaxEvents])]
  /\ mover \in [pc : {"off", "deq", "bytes"}, stream : Builders, work : BOOLEAN,
                lumi : 0 .. MaxLumi, bytes : 0 .. MaxEvents]
  /\ accountant \in [pc : {"off", "loop", "record", "scan"},
                     account : [lumi : LumiSectionNumbers, nbEvents : Nat, nbIncomplete : Nat],
                     due : SUBSET LumiSectionNumbers]
  /\ DOMAIN stats \cup DOMAIN eols \subseteq LumiSectionNumbers
  /\ stats \in [DOMAIN stats -> LumiInfos]
  /\ eols \in [DOMAIN eols -> LumiInfos]
  /\ corrupted \subseteq Events

inBuilding(b) == UNION building[b]
writing(b) == IF builder[b].pc \in {"write", "lock"} THEN {builder[b].event} ELSE {}

(* Events that a builder has still to handle, and of them those of ls. *)
unhandled == UNION {inBuilding(b) \cup complete[b] : b \in Builders}
of(ls, events) == {e \in events : lumi[e] = ls}

(***************************************************************************)
(* A builder never finds the account of the event it completes closed      *)
(* ("Completed an event from an unknown lumi section"), nor an event older *)
(* than the file of its stream ("Received an event from an earlier lumi    *)
(* section ... while processing"), however stale its copy of the oldest    *)
(* lumi section.                                                           *)
(***************************************************************************)
NoEventOrderException ==
  \A b \in Builders :
    /\ builder[b].pc = "pick" => \A e \in eligible(b, builder[b].oldest) : lumi[e] \in open
    /\ \A e \in writing(b) : lumi[e] >= file[b].lumi

(***************************************************************************)
(* The incomplete events of an open account are those the builders have    *)
(* not yet handled, so no account closes under an event.                   *)
(***************************************************************************)
IncompleteCounted ==
  run = "running" =>
    \A ls \in open :
      accounts[ls].nbIncomplete =
        Cardinality(of(ls, unhandled \cup (callback.batch \ callback.todo)))

(***************************************************************************)
(* Nobody opens an account twice, unless an answer comes so late that the  *)
(* stop has begun to take the accounts: a lumi section is in one of the    *)
(* open accounts, in the hands of the accounting thread, closed, or        *)
(* reported.                                                               *)
(***************************************************************************)
OneAccount ==
  ~late =>
  LET recording == IF accountant.pc = "record" THEN {accountant.account.lumi} ELSE {}
      closed == {ls \in DOMAIN stats : stats[ls].nbEvents > 0 \/ stats[ls].isEmpty}
  IN /\ Cardinality(open \cup recording \cup closed \cup DOMAIN eols)
           = Cardinality(open) + Cardinality(recording) + Cardinality(closed)
               + Cardinality(DOMAIN eols)
     /\ \A ls \in DOMAIN eols \cup closed : \A l \in open : ls < l

(***************************************************************************)
(* "Got a duplicated account for lumi section" (DiskWriter.cc:228) never   *)
(* happens.  It does not hold: once the stop has taken the accounts, the   *)
(* answer to a request in flight opens lumi section 1 again.               *)
(***************************************************************************)
NoDuplicatedAccount ==
  accountant.pc = "record" => lumiInfo(accountant.account.lumi).nbEvents = 0

(* What the accounts of the open lumi sections promise together.           *)
AccountsSafe == NoEventOrderException /\ OneAccount /\ IncompleteCounted

(***************************************************************************)
(* The EoLS file comes after all data of its lumi section: no event of it  *)
(* is left with a builder, in an open or unmoved file.                     *)
(***************************************************************************)
EoLSIsLast ==
  \A ls \in DOMAIN eols, b \in Builders :
    /\ of(ls, writing(b)) = {}
    /\ file[b].open => file[b].lumi # ls
    /\ \A k \in DOMAIN closedFiles[b] : closedFiles[b][k].lumi # ls
    /\ run = "running" => of(ls, inBuilding(b) \cup complete[b]) = {}

(***************************************************************************)
(* When the BU has stopped, whatever it was doing, every lumi section up   *)
(* to the newest has been reported, except those with a corrupted event;   *)
(* but see OneAccount for late answers, and TwoThreads.                    *)
(***************************************************************************)
AllReported ==
  run \in {"stopped", "failed"} /\ ~late =>
    /\ DOMAIN stats = {lumi[e] : e \in corrupted}
    /\ LET seen == DOMAIN stats \cup DOMAIN eols
       IN seen = {} \/ seen = {0} \/ seen = 1 .. Max(seen)

(* What the EoLS files promise together, at any time and after a stop.     *)
ReportsSafe == EoLSIsLast /\ AllReported

(***************************************************************************)
(* "There are unaccounted files ..." (DiskWriter.cc:128) only if there     *)
(* are.  It does not hold: a corrupted event is counted and never written. *)
(***************************************************************************)
NoUnaccountedFiles == run # "failed"

(***************************************************************************)
(* The bytes in the EoLS file are those of the files it counts             *)
(* (src/test/scripts/TestCase.py:653).  It does not hold: the file mover   *)
(* adds the events first, and the accounting thread may be in between.     *)
(***************************************************************************)
EoLSBytes == \A ls \in DOMAIN eols : eols[ls].bytes = eols[ls].written

(* Closed, but neither reported nor kept open by a corrupted event.        *)
unreported ==
  {ls \in DOMAIN stats : stats[ls].nbEvents > 0 \/ stats[ls].isEmpty} \ {lumi[e] : e \in corrupted}

(***************************************************************************)
(* Again and again, as the EVM has finitely many events: all events are    *)
(* handled (they do not wait for ever for their lumi section to become the *)
(* oldest one, also behind lumi sections without events), each closed lumi *)
(* section is reported, and a stop that has begun ends (TwoThreads apart). *)
(***************************************************************************)
NothingWaits ==
  []<>(\/ run = "running" /\ unhandled = {} /\ accountant.pc # "record" /\ unreported = {}
       \/ run \in {"stopped", "failed", "undefined"})
=============================================================================
