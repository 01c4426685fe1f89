------------------------------ MODULE Throttling ------------------------------
(***************************************************************************)
(* How a builder unit throttles its event requests: the resource monitor   *)
(* of evb::bu::ResourceManager, the DiskUsage monitors with their threads, *)
(* and the states inside Processing which the monitor drives.              *)
(*                                                                         *)
(* Once a second the monitor reads the summary of the filter units (FUs),  *)
(* derives how many resources they can serve, reduces that by the disk     *)
(* usage, blocks the other resources and tells the state machine.  Another *)
(* thread, which serves the monitoring, asks for new disk measurements.    *)
(*                                                                         *)
(* rawDataDir and metaDataDir are monitored, dropEventData is FALSE.       *)
(* Shares of resources are counted in units of 1/Unit.  The disk usage is  *)
(* 0 below the low water mark, 1 half-way to and 2 at the high one.        *)
(***************************************************************************)
EXTENDS Integers, Sequences, FiniteSets, FiniteSetsExt

CONSTANTS NbResources, NumberOfBuilders, MaxTriesFUsStale,
          LatencyLow, LatencyHigh,  \* lumiSectionLatencyLow, -High
          NbDisks,
          Summaries,                \* what the summary file may contain ...
          FirstSummaries,           \* ... and does when the BU is configured
          MaxLumi,                  \* bound on the lumi sections
          MaxChanges                \* bound on changes of summary and disks

ASSUME ThrottlingAssumption ==
  /\ NbResources \in Nat \ {0} /\ NumberOfBuilders \in Nat \ {0}
  /\ MaxTriesFUsStale \in Nat \ {0}
  /\ LatencyLow \in Nat /\ LatencyHigh \in Nat /\ LatencyLow < LatencyHigh
  /\ FirstSummaries \subseteq Summaries
  /\ NbDisks \in Nat /\ MaxLumi \in Nat /\ MaxChanges \in Nat
  /\ \A s \in Summaries :
       s \in [stale : BOOLEAN,      \* not written for staleResourceTime
              missing : 0 .. 9,     \* the first key that is missing, or 0
              hlt : Nat, cloud : Nat, quarantined : Nat, staleFUs : Nat,
              bandwidth : 0 .. 3,   \* 0 below the low mark, 2 at, 3 above the high one
              queued : BOOLEAN,     \* more lumi sections queued on FUs than allowed
              pause : BOOLEAN,
              maxLS : Nat]          \* newest lumi section of this run on the FUs

VARIABLES file,      \* the resource summary
          usage,     \* how full each disk is
          failing,   \* disks for which statfs64() may return an error
          disk,      \* the DiskUsage objects, their mutex-protected state ...
          statFs,    \* ... and where their threads are
          fu,        \* fusHLT_ ... queuedLSonFUs_
          pauseRequested, notified, queuedLS, initiallyQueuedLS,
          staleDetected, \* allFUsStaleDetected_
          oldest,    \* oldestIncompleteLumiSection_
          blocked,   \* the blocked resources
          sent,      \* the resources the EVM has a request for
          doProcessing, requestEvents,
          run,       \* the state of the application
          leaf,      \* the state in Processing, also while it is left
          configuring, \* the disk monitor to be destroyed next, 0 for none
          entering,  \* has Paused been entered, but not its entry action run?
          monitor,   \* the resourceMonitor thread
          changes    \* changes of the surroundings, for their bound

fileVars == <<file, fu, pauseRequested, notified, queuedLS, initiallyQueuedLS, oldest>>
diskVars == <<usage, failing, disk, statFs, configuring>>
fsmVars == <<doProcessing, requestEvents, run, leaf, entering>>
vars == <<fileVars, diskVars, staleDetected, blocked, sent, fsmVars, monitor, changes>>

Resources == 1 .. NbResources
Disks == 1 .. NbDisks
Unit == 4 * (LatencyHigh - LatencyLow)
NoFUs == [hlt |-> 0, cloud |-> 0, quarantined |-> 0, staleFUs |-> 0,
          bandwidth |-> 0, queued |-> FALSE]
NewDisk == [state |-> "UPDATE", valid |-> FALSE, usage |-> 0]
IdleMonitor == [pc |-> "idle", available |-> 0, over |-> 0, disk |-> 1, relDiskUsage |-> -1]
ProcessingStates == {"Enabled", "Throttled", "Blocked", "Mist", "Cloud", "Paused"}

Init ==
  /\ file \in FirstSummaries
  /\ usage \in [Disks -> {0, 2}]
  /\ failing \in [Disks -> BOOLEAN]
  /\ disk = [d \in Disks |-> NewDisk]
  /\ statFs = [d \in Disks |-> "waiting"]
  /\ fu = NoFUs
  /\ pauseRequested = FALSE /\ notified = FALSE
  /\ queuedLS = 0 /\ initiallyQueuedLS = 0
  /\ staleDetected = 0 /\ oldest = 0
  /\ blocked = Resources /\ sent = {}
  /\ doProcessing = FALSE /\ requestEvents = TRUE
  /\ run = "Ready" /\ leaf = "Enabled" /\ entering = FALSE
  /\ configuring = 0
  /\ monitor = IdleMonitor
  /\ changes = 0
-----------------------------------------------------------------------------
(***************************************************************************)
(* DiskUsage::doStatFs().  The result is stored without the mutex.         *)
(***************************************************************************)
diskOnly == UNCHANGED <<fileVars, usage, failing, configuring, staleDetected, blocked, sent, fsmVars, monitor, changes>>

StartMeasuring(d) ==
  /\ statFs[d] = "waiting"
  /\ disk[d].state # "IDLE"
  /\ IF disk[d].state = "STOP"
       THEN statFs' = [statFs EXCEPT ![d] = "ended"] /\ UNCHANGED disk
       ELSE /\ statFs' = [statFs EXCEPT ![d] = "measuring"]
            /\ disk' = [disk EXCEPT ![d].state = "UPDATING"]
  /\ diskOnly

Measure(d) ==
  /\ statFs[d] = "measuring"
  /\ statFs' = [statFs EXCEPT ![d] = "measured"]
  /\ disk' = [disk EXCEPT ![d].usage = usage[d], ![d].valid = TRUE]
  /\ diskOnly

(* statfs64() returns an error: the old values stay. *)
MeasureFails(d) ==
  /\ statFs[d] = "measuring"
  /\ failing[d]
  /\ statFs' = [statFs EXCEPT ![d] = "measured"]
  /\ UNCHANGED disk
  /\ diskOnly

StopMeasuring(d) ==
  /\ statFs[d] = "measured"
  /\ IF disk[d].state = "STOP"
       THEN statFs' = [statFs EXCEPT ![d] = "ended"] /\ UNCHANGED disk
       ELSE /\ disk' = [disk EXCEPT ![d].state = "IDLE"]
            /\ statFs' = [statFs EXCEPT ![d] = "waiting"]
  /\ diskOnly

(***************************************************************************)
(* updateDiskUsages() calls update(), under diskUsageMonitorsMutex_, which *)
(* getOverThreshold() and configureDiskUsageMonitors() hold as well.  A    *)
(* thread which has not finished, or not yet begun, loses its result.      *)
(***************************************************************************)
monitorsFree == monitor.pc \notin {"over", "valid"} /\ configuring = 0

Update(d) ==
  /\ monitorsFree
  /\ IF disk[d].state = "IDLE"
       THEN disk' = [disk EXCEPT ![d].state = "UPDATE"]
       ELSE disk' = [disk EXCEPT ![d].valid = FALSE]
  /\ UNCHANGED statFs
  /\ diskOnly
-----------------------------------------------------------------------------
(***************************************************************************)
(* getAvailableResources(): the keys are read one by one, so that those in *)
(* front of a missing one are taken over before the read fails.            *)
(***************************************************************************)
got(k) == file.missing = 0 \/ k < file.missing
unreadable == file.stale \/ file.missing # 0

parsed ==
  [hlt         |-> IF got(1) THEN file.hlt ELSE fu.hlt,
   cloud       |-> IF got(2) THEN file.cloud ELSE fu.cloud,
   quarantined |-> IF got(3) THEN file.quarantined ELSE fu.quarantined,
   staleFUs    |-> IF got(4) THEN file.staleFUs ELSE fu.staleFUs,
   bandwidth   |-> IF got(5) THEN file.bandwidth ELSE fu.bandwidth,
   queued      |-> IF got(6) THEN file.queued ELSE fu.queued]

(* What the FUs can serve, given how far they are behind the BU. *)
servable(f, latency) ==
  LET throttle(share, m, n) == (Min({share, NbResources * Unit}) * m) \div n
      slots == Max({1, f.hlt}) * Unit
      bandwidth == IF f.bandwidth > 0 THEN throttle(slots, 2 - f.bandwidth, 2) ELSE slots
      latencies == LatencyHigh - LatencyLow
  IN  CASE f.hlt = 0 \/ latency > LatencyHigh \/ f.bandwidth > 2 \/ f.queued -> 0
        [] OTHER -> Min({NbResources * Unit,
                         IF latency > LatencyLow
                           THEN throttle(bandwidth, LatencyHigh - latency, latencies)
                           ELSE bandwidth})

(* handleResourceSummaryFailure() resets the values at the first failure. *)
SummaryFailure(values) ==
  /\ notified' = TRUE
  /\ IF notified
       THEN fu' = values /\ UNCHANGED <<queuedLS, initiallyQueuedLS>>
       ELSE fu' = NoFUs /\ queuedLS' = 0 /\ initiallyQueuedLS' = 0

(* Mutant of queuedNow: the FUs may be ahead of the accounts of the BU. *)
queuedNowUnchecked == IF file.maxLS > 0 THEN oldest - file.maxLS ELSE queuedLS

queuedNow == IF file.maxLS > 0 /\ oldest >= file.maxLS THEN oldest - file.maxLS ELSE queuedLS

latencyNow ==
  IF file.maxLS > 0 /\ initiallyQueuedLS > 0 /\ queuedNow > initiallyQueuedLS
    THEN queuedNow - initiallyQueuedLS ELSE 0

next(share) == IF doProcessing
                 THEN [IdleMonitor EXCEPT !.pc = "over", !.available = share]
                 ELSE IdleMonitor

readOnly == UNCHANGED <<file, oldest, diskVars, staleDetected, blocked, sent, fsmVars, changes>>

StaleSummary ==
  /\ monitor.pc = "idle"
  /\ file.stale
  /\ SummaryFailure(fu)
  /\ monitor' = next(0)
  /\ UNCHANGED pauseRequested
  /\ readOnly

(* Mutant of BadSummary: the failure leaves the number of resources alone. *)
BadSummaryIgnored ==
  /\ monitor.pc = "idle"
  /\ ~file.stale /\ file.missing # 0
  /\ SummaryFailure(parsed)
  /\ pauseRequested' = IF got(7) THEN file.pause ELSE pauseRequested
  /\ monitor' = next(NbResources * Unit)
  /\ readOnly

BadSummary ==
  /\ monitor.pc = "idle"
  /\ ~file.stale /\ file.missing # 0
  /\ SummaryFailure(parsed)
  /\ pauseRequested' = IF got(7) THEN file.pause ELSE pauseRequested
  /\ monitor' = next(0)
  /\ readOnly

(* Mutant of GoodSummary: a pause is never called off. *)
GoodSummaryKeepPause ==
  /\ monitor.pc = "idle"
  /\ ~unreadable
  /\ fu' = parsed
  /\ pauseRequested' = (pauseRequested \/ file.pause)
  /\ queuedLS' = queuedNow
  /\ initiallyQueuedLS' = IF file.maxLS > 0 /\ initiallyQueuedLS = 0
                            THEN queuedNow ELSE initiallyQueuedLS
  /\ notified' = FALSE
  /\ monitor' = next(servable(parsed, latencyNow))
  /\ readOnly

GoodSummary ==
  /\ monitor.pc = "idle"
  /\ ~unreadable
  /\ fu' = parsed
  /\ pauseRequested' = file.pause
  /\ queuedLS' = queuedNow
  /\ initiallyQueuedLS' = IF file.maxLS > 0 /\ initiallyQueuedLS = 0
                            THEN queuedNow ELSE initiallyQueuedLS
  /\ notified' = FALSE
  /\ monitor' = next(servable(parsed, latencyNow))
  /\ readOnly
-----------------------------------------------------------------------------
(***************************************************************************)
(* updateResources().  overThreshold() of a disk looks twice at valid_.    *)
(***************************************************************************)
RelDiskUsage ==
  /\ monitor.pc = "over"
  /\ monitor.disk <= NbDisks
  /\ configuring = 0
  /\ monitor' = [monitor EXCEPT
       !.pc = "valid",
       !.relDiskUsage = IF disk[monitor.disk].valid THEN disk[monitor.disk].usage ELSE -1]
  /\ UNCHANGED <<fileVars, diskVars, staleDetected, blocked, sent, fsmVars, changes>>

overThreshold(d) == IF ~disk[d].valid THEN 2 ELSE Max({0, monitor.relDiskUsage})

OverThreshold ==
  /\ monitor.pc = "valid"
  /\ monitor' = [monitor EXCEPT !.pc = "over", !.disk = @ + 1, !.relDiskUsage = -1,
                                !.over = Max({@, overThreshold(monitor.disk)})]
  /\ UNCHANGED <<fileVars, diskVars, staleDetected, blocked, sent, fsmVars, changes>>

toBlock ==
  LET usable == ((monitor.available * (2 - monitor.over)) \div 2 + Unit \div 2) \div Unit
  IN  NbResources - Min({usable, NbResources})

(* From the last one downwards until n are blocked, or from the first one  *)
(* upwards until only n still are.                                         *)
block(n) ==
  LET free == Resources \ blocked
      extra == {r \in free : Cardinality({q \in free : q >= r}) <= n - Cardinality(blocked)}
      surplus == {r \in blocked : Cardinality({q \in blocked : q <= r}) <= Cardinality(blocked) - n}
  IN  (blocked \cup extra) \ surplus

UpdateResources ==
  /\ monitor.pc = "over"
  /\ monitor.disk > NbDisks
  /\ blocked' = block(toBlock)
  /\ monitor' = [IdleMonitor EXCEPT !.pc = "fsm"]
  /\ UNCHANGED <<fileVars, diskVars, staleDetected, sent, fsmVars, changes>>
-----------------------------------------------------------------------------
(***************************************************************************)
(* changeStatesBasedOnResources(), and what the event does in Processing.  *)
(***************************************************************************)
allFUsQuarantined == fu.hlt = 0 /\ fu.quarantined > 0
allFUsStale == fu.hlt = 0 /\ fu.staleFUs > 0
fusInCloud == fu.cloud > 0 /\ fu.staleFUs = 0
staleNow == IF allFUsStale THEN Min({staleDetected + 1, MaxTriesFUsStale}) ELSE 0

Fails == ~pauseRequested /\ (allFUsQuarantined \/ staleNow = MaxTriesFUsStale)

(* The state the event asks for, the present one if there is no event. *)
target ==
  CASE pauseRequested -> "Paused"
    [] blocked = {} \/ Cardinality(sent) > NumberOfBuilders -> "Enabled"
    [] blocked = Resources -> IF fusInCloud THEN "Cloud" ELSE "Blocked"
    [] sent = {} -> IF fusInCloud THEN "Mist" ELSE "Throttled"
    [] OTHER -> leaf

changeStates ==
  /\ monitor.pc = "fsm"
  /\ ~entering
  /\ staleDetected' = staleNow
  /\ monitor' = IdleMonitor
  /\ UNCHANGED <<fileVars, diskVars, blocked, sent, changes>>

(* Paused does not react to Pause itself: it is left and entered again. *)
ChangeState ==
  /\ changeStates
  /\ ~Fails
  /\ IF run # "Running" \/ (target = leaf /\ (leaf # "Paused" \/ ~pauseRequested))
       THEN UNCHANGED <<requestEvents, leaf, entering>>
       ELSE /\ leaf' = target
            /\ entering' = (target = "Paused")
            /\ requestEvents' = (requestEvents \/ leaf = "Paused")
  /\ UNCHANGED <<doProcessing, run>>

EnterPaused ==
  /\ entering
  /\ requestEvents' = FALSE
  /\ entering' = FALSE
  /\ UNCHANGED <<fileVars, diskVars, staleDetected, blocked, sent, doProcessing,
                 run, leaf, monitor, changes>>

(* The exception makes resourceMonitor() send Fail. *)
FailOnFUs ==
  /\ changeStates
  /\ Fails
  /\ run' = "Failed"
  /\ doProcessing' = FALSE
  /\ requestEvents' = FALSE
  /\ UNCHANGED <<leaf, entering>>
-----------------------------------------------------------------------------
(***************************************************************************)
(* Run control.  The monitor never stops; Processing remembers its state.  *)
(***************************************************************************)
Enable ==
  /\ run = "Ready" /\ ~entering
  /\ run' = "Running"
  /\ doProcessing' = TRUE
  /\ entering' = (leaf = "Paused")
  /\ oldest' = 0 /\ queuedLS' = 0 /\ initiallyQueuedLS' = 0
  /\ UNCHANGED <<file, fu, pauseRequested, notified, diskVars, staleDetected, blocked,
                 sent, requestEvents, leaf, monitor, changes>>

leaveRun(to) ==
  /\ ~entering
  /\ run' = to
  /\ doProcessing' = FALSE
  /\ UNCHANGED <<fileVars, diskVars, staleDetected, blocked, sent, leaf, entering,
                 monitor, changes>>

Stop ==
  /\ run = "Running"
  /\ leaveRun("Ready")
  /\ requestEvents' = TRUE

Halt ==
  /\ run \in {"Configuring", "Ready", "Running", "Failed"}
  /\ leaveRun("Halted")
  /\ requestEvents' = FALSE

(* Configuring::activity() calls configure(), which destroys the monitors  *)
(* of the disks one after the other, each time waiting for the thread, and *)
(* then creates new ones.  This goes on if the BU fails meanwhile.  Bound: *)
(* one such thread at a time.                                              *)
Configure ==
  /\ run = "Halted"
  /\ monitorsFree
  /\ run' = "Configuring" /\ configuring' = 1
  /\ requestEvents' = TRUE
  /\ blocked' = Resources /\ sent' = {}
  /\ notified' = FALSE
  /\ UNCHANGED <<file, fu, pauseRequested, queuedLS, initiallyQueuedLS, oldest, usage, failing,
                 disk, statFs, staleDetected, doProcessing, leaf, entering, monitor, changes>>

StopDisk(d) ==
  /\ configuring = d
  /\ \A e \in Disks : e < d => statFs[e] = "ended"
  /\ configuring' = d + 1
  /\ disk' = [disk EXCEPT ![d].state = "STOP"]
  /\ UNCHANGED <<fileVars, usage, failing, statFs, staleDetected, blocked, sent, fsmVars,
                 monitor, changes>>

NewDisks ==
  /\ configuring = NbDisks + 1
  /\ \A d \in Disks : statFs[d] = "ended"
  /\ disk' = [d \in Disks |-> NewDisk]
  /\ statFs' = [d \in Disks |-> "waiting"]
  /\ configuring' = 0
  /\ run' = IF run = "Configuring" THEN "Ready" ELSE run
  /\ UNCHANGED <<fileVars, usage, failing, staleDetected, blocked, sent, doProcessing,
                 requestEvents, leaf, entering, monitor, changes>>
-----------------------------------------------------------------------------
(***************************************************************************)
(* The requests, as far as throttling sees them (ResourceManager has them  *)
(* in detail), and what changes around the BU.                             *)
(***************************************************************************)
requestsOnly == UNCHANGED <<fileVars, diskVars, staleDetected, blocked, fsmVars, monitor, changes>>

Request(r) ==
  /\ doProcessing /\ requestEvents
  /\ r \notin blocked \cup sent
  /\ sent' = sent \cup {r}
  /\ requestsOnly

Answer(r) ==
  /\ r \in sent
  /\ sent' = sent \ {r}
  /\ requestsOnly

around == UNCHANGED <<configuring, fu, pauseRequested, notified, queuedLS, initiallyQueuedLS, disk, statFs,
                      staleDetected, blocked, sent, fsmVars, monitor>>

Change ==
  /\ changes < MaxChanges
  /\ changes' = changes + 1
  /\ \/ file' \in Summaries \ {file} /\ UNCHANGED <<usage, failing>>
     \/ \E d \in Disks : /\ \/ /\ \E u \in 0 .. 2 : usage' = [usage EXCEPT ![d] = u]
                               /\ UNCHANGED failing
                            \/ failing' = [failing EXCEPT ![d] = ~@] /\ UNCHANGED usage
                         /\ UNCHANGED file
  /\ UNCHANGED oldest
  /\ around

(* Bound: only while the summary tells of lumi sections. *)
NextLumiSection ==
  /\ doProcessing /\ file.maxLS > 0
  /\ oldest < MaxLumi
  /\ oldest' = oldest + 1
  /\ UNCHANGED <<file, usage, failing, changes>>
  /\ around
-----------------------------------------------------------------------------
DiskThread(d) == StartMeasuring(d) \/ Measure(d) \/ StopMeasuring(d)
Read == StaleSummary \/ BadSummary \/ GoodSummary
Evaluate == RelDiskUsage \/ OverThreshold \/ UpdateResources
Report == ChangeState \/ FailOnFUs
Monitor == Read \/ Evaluate \/ Report
Reconfigure == (\E d \in Disks : StopDisk(d)) \/ NewDisks
RunControl == Enable \/ Stop \/ Halt \/ Configure

Next ==
  \/ Monitor \/ EnterPaused \/ RunControl \/ Reconfigure
  \/ \E d \in Disks : DiskThread(d) \/ MeasureFails(d) \/ Update(d)
  \/ \E r \in Resources : Request(r) \/ Answer(r)
  \/ Change \/ NextLumiSection

Spec == Init /\ [][Next]_vars

(***************************************************************************)
(* The threads run and the EVM answers; nobody has to start or stop a run. *)
(* The monitor sleeps for a second between its rounds, so the thread that  *)
(* updates the disk usages gets the mutex.                                 *)
(***************************************************************************)
Fairness ==
  /\ WF_vars(Monitor) /\ WF_vars(EnterPaused) /\ WF_vars(Reconfigure)
  /\ \A d \in Disks : WF_vars(DiskThread(d)) /\ SF_vars(Update(d))
  /\ \A r \in Resources : WF_vars(Answer(r))

FairSpec == Spec /\ Fairness
-----------------------------------------------------------------------------
(* Properties. *)

(* Types of the variables. *)
TypeOK ==
  /\ file \in Summaries
  /\ usage \in [Disks -> 0 .. 2] /\ failing \in [Disks -> BOOLEAN]
  /\ disk \in [Disks -> [state : {"IDLE", "UPDATE", "UPDATING", "STOP"}, valid : BOOLEAN,
                         usage : 0 .. 2]]
  /\ statFs \in [Disks -> {"waiting", "measuring", "measured", "ended"}]
  /\ fu \in [hlt : Nat, cloud : Nat, quarantined : Nat, staleFUs : Nat,
             bandwidth : 0 .. 3, queued : BOOLEAN]
  /\ pauseRequested \in BOOLEAN /\ notified \in BOOLEAN
  /\ {queuedLS, initiallyQueuedLS, oldest} \subseteq 0 .. MaxLumi
  /\ staleDetected \in 0 .. MaxTriesFUsStale
  /\ blocked \subseteq Resources /\ sent \subseteq Resources
  /\ {doProcessing, requestEvents, entering} \subseteq BOOLEAN
  /\ configuring \in 0 .. NbDisks + 1
  /\ run \in {"Halted", "Configuring", "Ready", "Running", "Failed"}
  /\ leaf \in ProcessingStates
  /\ monitor \in [pc : {"idle", "over", "valid", "fsm"}, available : 0 .. NbResources * Unit,
                  over : 0 .. 2, disk : 1 .. NbDisks + 1, relDiskUsage : -1 .. 2]
  /\ changes \in 0 .. MaxChanges

healthy ==
  /\ ~unreadable /\ ~file.pause /\ ~file.queued
  /\ file.hlt >= NbResources /\ file.bandwidth = 0 /\ file.maxLS = 0

(* From some time on no request for a measurement finds the thread busy.   *)
InTime(d) == <>[][disk[d].valid => disk'[d].valid]_vars

(***************************************************************************)
(* Throttling ends: when the filter units and the disks are fine again and *)
(* stay so, and the disks are measured in time, the BU comes back to       *)
(* Enabled with no resource blocked, from whatever state: after summaries  *)
(* that could not be read, filter units that were gone, and measurements   *)
(* that failed or came too late.                                           *)
(***************************************************************************)
Recovers ==
  (/\ <>[](run = "Running" /\ healthy /\ \A d \in Disks : usage[d] = 0 /\ ~failing[d])
   /\ \A d \in Disks : InTime(d))
    => <>[](blocked = {} /\ leaf = "Enabled" /\ requestEvents)

(***************************************************************************)
(* A BU does not go on requesting when it cannot know what the filter      *)
(* units can take, or has nowhere to write: all resources become blocked   *)
(* while the summary stays unreadable, a disk has no valid measurement, or *)
(* a disk stays full and is measured in time.  Without the last condition  *)
(* it does not hold: each result which comes between the two looks at      *)
(* valid_ makes a full disk count as empty (see FullDiskBlocks).           *)
(***************************************************************************)
ExhaustedBlocks ==
  (\/ <>[](run = "Running" /\ unreadable)
   \/ \E d \in Disks :
        \/ <>[](run = "Running" /\ ~disk[d].valid)
        \/ <>[](run = "Running" /\ usage[d] = 2 /\ ~failing[d]) /\ InTime(d))
    => <>[](blocked = Resources)

(***************************************************************************)
(* A pause ends: with the flag of the summary gone the BU leaves Paused,   *)
(* although the monitor sends no event at all while some resources are     *)
(* blocked and some requests are outstanding.                              *)
(***************************************************************************)
PauseEnds ==
  <>[](run = "Running" /\ ~unreadable /\ ~file.pause) => <>[](leaf # "Paused")

(* configure() gets past the threads of the old disk monitors. *)
ConfigureEnds == configuring # 0 ~> configuring = 0

(* Throttling, pauses and the joins of old threads all end with their      *)
(* cause (ResourceManager.cc:745-884, 1144).                               *)
HindrancesEnd == Recovers /\ PauseEnds /\ ConfigureEnds

(***************************************************************************)
(* A BU whose disk is full from the beginning requests no events.  This    *)
(* does not hold when the thread has the first result between the two      *)
(* looks at valid_ in overThreshold(): the first returns -1, which is      *)
(* below any mark.                                                         *)
(***************************************************************************)
FullDiskBlocks ==
  changes = 0 /\ (\E d \in Disks : usage[d] = 2) => blocked = Resources

(***************************************************************************)
(* A BU that is paused stays paused as long as the flag is set.  This does *)
(* not hold: it leaves and enters Paused with every look at the summary,   *)
(* because Paused reacts to the event Paused, which nobody sends, and not  *)
(* to Pause.                                                               *)
(***************************************************************************)
PauseHolds ==
  [][pauseRequested /\ leaf = "Paused" /\ ~requestEvents /\ run' = "Running" /\ leaf' = "Paused"
       => ~requestEvents']_vars
=============================================================================
