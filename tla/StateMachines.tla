--------------------------- MODULE StateMachines ---------------------------
(***************************************************************************)
(* The state machine of an application (EvBStateMachine.h) with the        *)
(* threads that send it events: run control by SOAP, the workers of the    *)
(* components, the monitor of the BU's resources, the detached threads of  *)
(* Configuring and Draining, and the timer of IncompleteEvents.            *)
(*                                                                         *)
(* processFSMEvent() holds eventMutex_ until the actions of all states     *)
(* left and entered have run, and the Fail events they posted have been    *)
(* processed.  agenda holds the calls these actions still have to make,    *)
(* one sequence for each state: an exception drops the rest of one.        *)
(***************************************************************************)
EXTENDS EvBStates

CONSTANTS Applications,  \* bound: which applications, a subset of Apps
          FEDs,          \* the FEDs of a readout unit
          ThreadIds,     \* bound: detached threads at a time
          Monitored,     \* bound: what the BU's resource monitor may send
          MaxReports,    \* bound: workers that wait for eventMutex_
          MaxPosted      \* bound: Fail events posted by actions at a time

ASSUME StateMachinesAssumption ==
  /\ Applications \subseteq Apps
  /\ IsFiniteSet(FEDs)
  /\ ThreadIds # {} /\ IsFiniteSet(ThreadIds)
  /\ Monitored \subseteq {"Release", "Throttle", "Block", "Misted", "Clouded", "Pause"}
  /\ MaxReports \in Nat \ {0} /\ MaxPosted \in Nat \ {0}

VARIABLES
  app,       \* the application
  leaf,      \* the innermost state; at once the one that is being entered
  history,   \* where Processing was left, for its deep history
  agenda,    \* the calls to be made with eventMutex_ held
  posted,    \* how many Fail events have been posted
  waiting,   \* threads waiting for eventMutex_ with an event
  threads,   \* threads in Configuring::activity() and Draining::activity()
  timer,     \* is there a thread in timeoutActivity() asleep?
  doing,     \* the components that are processing
  requests,  \* requestEvents_ of the BU's ResourceManager
  blocked,   \* blockInput_ of the streams
  missing,   \* missingFeds_
  accepting, \* acceptConnections_ of the FerolConnectionManager
  reason,    \* is there a reasonForError_?
  done,      \* for the properties: what the last thread has done
  last,      \* for the properties: the kind of the last thread
  overlap    \* for the properties: has a thread met one left behind?

machine == <<leaf, history>>
parts == <<doing, requests, blocked, missing, accepting, reason>>
ghosts == <<done, last, overlap>>
vars == <<app, machine, agenda, posted, waiting, threads, timer, parts, ghosts>>

Kinds == {"configure", "drain"}
NoFED == "no FED"
Worker(c, e, f) == [by |-> c, event |-> e, fed |-> f]
Threads == [id : ThreadIds, kind : Kinds, owned : BOOLEAN, pos : 1 .. 5]

(* A worker that fails is no longer active when it says so; one that       *)
(* reports an error of the input is.                                       *)
Active(r) == r.by \in doing /\ r.event # "Fail"

-----------------------------------------------------------------------------
(* process_event() *)

FreeIds == ThreadIds \ ({t.id : t \in threads} \cup {r.by : r \in waiting})
Busy == agenda # <<>> \/ posted > 0

failEvent == <<<<"reason", "given">>>>
mismatchDetected == <<<<"reason", "given">>>>   \* eventOutOfSequence() does the same
dataLoss(f) == <<<<"missing", f>>, <<"reason", "given">>>>

TransitionAction(s, e, f) ==
  CASE s = "AllOk" -> <<failEvent>>
    [] e \in {"MismatchDetected", "EventOutOfSequence"} -> <<mismatchDetected>>
    [] e = "DataLoss" -> <<dataLoss(f)>>
    [] OTHER -> <<>>

Transit(s, t, e, f) ==
  LET from == Exited(app, leaf, s, t)
      to == InnermostInitial(app, t, history)
  IN  /\ leaf' = to
      /\ history' = IF Contains(from, "Processing") THEN leaf ELSE history
      /\ agenda' = Actions(Exit[app], from) \o TransitionAction(s, e, f)
                     \o Actions(Entry[app], Entered(app, to, s, t))

(* MissingData::react() *)
ReactToRecovered(f) ==
  /\ missing' = missing \ {f}
  /\ IF missing \subseteq {f}
       THEN Transit("MissingData", "Enabled", "Recovered", f)
       ELSE UNCHANGED <<machine, agenda>>
  /\ UNCHANGED <<doing, requests, blocked, accepting, reason>>

(* An event nobody reacts to is logged by unconsumed_event(). *)
Process(e, f) ==
  LET who == Reacting(app, leaf, e)
  IN  IF who = {}
        THEN UNCHANGED <<machine, agenda, parts>>
        ELSE LET s == CHOOSE x \in who : TRUE
                 t == States[app][s].on[e]
             IN  CASE t = Custom -> ReactToRecovered(f)
                   [] t = Stay -> UNCHANGED <<machine, agenda, parts>>
                   [] OTHER -> Transit(s, t, e, f) /\ UNCHANGED parts

(* do_processSoapEvent(): an unknown command is a Fail as well. *)
SoapEvents == {"Configure", "Enable", "Stop", "Halt", "Clear", "Fail"}

Command(e) ==
  /\ ~Busy
  /\ FreeIds # {}
  /\ Process(e, NoFED)
  /\ UNCHANGED <<app, posted, waiting, threads, timer, ghosts>>

(* changeStatesBasedOnResources() *)
MonitorSends(e) ==
  /\ app = "BU" /\ ~Busy
  /\ Process(e, NoFED)
  /\ UNCHANGED <<app, posted, waiting, threads, timer, ghosts>>

(* A thread that has waited for the mutex gets it. *)
Deliver(r) ==
  /\ ~Busy
  /\ Process(r.event, r.fed)
  /\ waiting' = waiting \ {r}
  /\ UNCHANGED <<app, posted, threads, timer, ghosts>>

ProcessPosted ==
  /\ agenda = <<>> /\ posted > 0
  /\ Process("Fail", NoFED)
  /\ posted' = posted - 1
  /\ UNCHANGED <<app, waiting, threads, timer, ghosts>>

-----------------------------------------------------------------------------
(* The threads that bring events *)

(* Parsers report what they find in the fragments, the responder that      *)
(* builds super-fragments what does not fit; every worker may fail.        *)
ReportsOf(c) ==
  {<<"Fail", NoFED>>} \cup
  IF app # "RU" THEN {}
  ELSE CASE c = "input" -> {<<"EventOutOfSequence", NoFED>>} \cup ({"DataLoss"} \X FEDs)
         [] c = "buProxy" -> {<<"MismatchDetected", NoFED>>}
                               \cup ({"DataLoss", "Recovered"} \X FEDs)
         [] OTHER -> {}

Report(c) ==
  /\ c \in doing
  /\ \A r \in waiting : r.by # c
  /\ Cardinality({r \in waiting : r.by \in Components[app]}) < MaxReports
  /\ \E e \in ReportsOf(c) : waiting' = waiting \cup {Worker(c, e[1], e[2])}
  /\ UNCHANGED <<app, machine, agenda, posted, threads, timer, parts, ghosts>>

TimerExpires ==
  /\ timer
  /\ timer' = FALSE
  /\ waiting' = waiting \cup {Worker("timer", "Fail", NoFED)}
  /\ UNCHANGED <<app, machine, agenda, posted, threads, parts, ghosts>>

(* activity(): doConfiguring_ or doDraining_ is looked at before each call *)
(* and before the event.  Once the state is gone the flag is freed memory  *)
(* and may have any value: the thread may stop or go on.  What it calls    *)
(* then is not followed.                                                   *)
Finished(t) == t.pos > Len(Work[app][t.kind])

ThreadWorks(t) ==
  /\ t.owned /\ ~Finished(t)
  /\ threads' = (threads \ {t}) \cup {[t EXCEPT !.pos = @ + 1]}
  /\ done' = IF overlap THEN {} ELSE done \cup {Work[app][t.kind][t.pos]}
  /\ UNCHANGED <<app, machine, agenda, posted, waiting, timer, parts, last, overlap>>

(* Mutant of ThreadFails: a component that failed does not stop the thread. *)
ThreadFailsQuietly(t) ==
  /\ t.kind = "configure" /\ ~Finished(t)
  /\ threads' = (threads \ {t}) \cup {[t EXCEPT !.pos = @ + 1]}
  /\ UNCHANGED <<app, machine, agenda, posted, waiting, timer, parts, ghosts>>

ThreadFails(t) ==
  /\ t.kind = "configure" /\ ~Finished(t)
  /\ threads' = threads \ {t}
  /\ waiting' = waiting \cup {Worker(t.id, "Fail", NoFED)}
  /\ UNCHANGED <<app, machine, agenda, posted, timer, parts, ghosts>>

ThreadEnds(t) ==
  /\ t.owned => Finished(t)
  /\ threads' = threads \ {t}
  /\ waiting' = waiting \cup
       {Worker(t.id, IF t.kind = "configure" THEN "ConfigureDone" ELSE "DrainingDone", NoFED)}
  /\ UNCHANGED <<app, machine, agenda, posted, timer, parts, ghosts>>

ThreadIsStopped(t) ==
  /\ ~t.owned
  /\ threads' = threads \ {t}
  /\ UNCHANGED <<app, machine, agenda, posted, waiting, timer, parts, ghosts>>

-----------------------------------------------------------------------------
(* The calls of entry and exit actions *)

Calls(ops) == agenda # <<>> /\ agenda[1][1][1] \in ops
Op == agenda[1][1][1]
Arg == agenda[1][1][2]
NextCall == agenda' = IF Len(agenda[1]) = 1 THEN Tail(agenda)
                      ELSE <<Tail(agenda[1])>> \o Tail(agenda)

StartComponent ==
  /\ Calls({"start"}) /\ NextCall
  /\ doing' = doing \cup {Arg}
  /\ blocked' = (blocked /\ Arg # "input")
  /\ UNCHANGED <<app, machine, posted, waiting, threads, timer, requests, missing,
                 accepting, reason, ghosts>>

(* stopProcessing() waits until no worker of the component is active. *)
StopComponent ==
  /\ Calls({"stop"}) /\ NextCall
  /\ \A r \in waiting : r.by = Arg => ~Active(r)
  /\ doing' = doing \ {Arg}
  /\ UNCHANGED <<app, machine, posted, waiting, threads, timer,
                 requests, blocked, missing, accepting, reason, ghosts>>

(* safeEntryAction() and safeExitAction(): starting a component may raise, *)
(* and so may DiskWriter when it has stopped.                              *)
CallRaises ==
  /\ \/ Calls({"start"}) /\ UNCHANGED doing
     \/ Calls({"stop"}) /\ Arg = "diskWriter" /\ doing' = doing \ {Arg}
     \/ Calls({"connection", "connections"}) /\ UNCHANGED doing
  /\ posted < MaxPosted
  /\ agenda' = Tail(agenda)
  /\ posted' = posted + 1
  /\ UNCHANGED <<app, machine, waiting, threads, timer,
                 requests, blocked, missing, accepting, reason, ghosts>>

MyThreads == {t \in threads : t.kind = Arg /\ t.owned}

SpawnThread ==
  /\ Calls({"spawn"}) /\ NextCall
  /\ threads' = threads \cup
       {[id |-> CHOOSE i \in FreeIds : TRUE, kind |-> Arg, owned |-> TRUE, pos |-> 1]}
  /\ done' = {}
  /\ last' = Arg
  /\ overlap' = (overlap \/ FreeIds # ThreadIds)
  /\ UNCHANGED <<app, machine, posted, waiting, timer, parts>>

(* Mutant of ForgetThread: the exit action joins the thread. *)
ForgetThreadJoins ==
  /\ Calls({"forget"}) /\ NextCall
  /\ \A t \in threads : t.kind # Arg
  /\ \A r \in waiting : r.by \notin ThreadIds
  /\ UNCHANGED <<app, machine, posted, waiting, threads, timer, parts, ghosts>>

ForgetThread ==
  /\ Calls({"forget"}) /\ NextCall
  /\ threads' = (threads \ MyThreads) \cup {[t EXCEPT !.owned = FALSE, !.pos = 1] : t \in MyThreads}
  /\ UNCHANGED <<app, machine, posted, waiting, timer, parts, ghosts>>

(* Interrupting a thread that is past its sleep has no effect. *)
SetTimer ==
  /\ Calls({"timer"}) /\ NextCall
  /\ timer' = (Arg = "start")
  /\ UNCHANGED <<app, machine, posted, waiting, threads, parts, ghosts>>

SetParts ==
  /\ Calls({"requests", "input", "missing", "missingFeds", "reason", "connections", "connection"})
  /\ NextCall
  /\ requests' = IF Op = "requests" THEN Arg = "on" ELSE requests
  /\ blocked' = (blocked \/ Op = "input")
  /\ missing' = CASE Op = "missing" -> missing \cup {Arg}
                  [] Op = "missingFeds" -> {}
                  [] OTHER -> missing
  /\ accepting' = IF Op = "connections" THEN Arg = "accepted" ELSE accepting
  /\ reason' = IF Op = "reason" THEN Arg = "given" ELSE reason
  /\ UNCHANGED <<app, machine, posted, waiting, threads, timer, doing, ghosts>>

-----------------------------------------------------------------------------
Init ==
  /\ app \in Applications
  /\ leaf = "Halted" /\ history = "Enabled"
  /\ agenda = <<>> /\ posted = 0 /\ waiting = {} /\ threads = {} /\ timer = FALSE
  /\ doing = {} /\ requests = FALSE /\ blocked = FALSE /\ missing = {}
  /\ accepting = (app = "RU") /\ reason = FALSE
  /\ done = {} /\ last = "configure" /\ overlap = FALSE

CallStep == StartComponent \/ StopComponent \/ CallRaises \/ SpawnThread
              \/ ForgetThread \/ SetTimer \/ SetParts

ThreadStep(t) == ThreadWorks(t) \/ ThreadFails(t) \/ ThreadEnds(t) \/ ThreadIsStopped(t)

Next == \/ \E e \in SoapEvents : Command(e)
        \/ \E e \in Monitored : MonitorSends(e)
        \/ \E r \in waiting : Deliver(r)
        \/ \E c \in doing : Report(c)
        \/ \E t \in threads : ThreadStep(t)
        \/ TimerExpires \/ ProcessPosted \/ CallStep

(* The thread that holds eventMutex_ goes on when it can; nothing is       *)
(* assumed about the order in which threads get the mutex.                 *)
Fairness == WF_vars(CallStep) /\ WF_vars(ProcessPosted)
Spec == Init /\ [][Next]_vars /\ Fairness

-----------------------------------------------------------------------------
(* Every variable has its type: the leaf is a state of the application     *)
(* without inner states, and the agenda holds calls of its states' actions. *)
TypeOK ==
  /\ app \in Applications /\ leaf \in Leaves(app)
  /\ history \in Leaves("BU")
  /\ \A i \in DOMAIN agenda : agenda[i] # <<>> /\ Len(agenda[i]) <= 5
  /\ posted \in 0 .. MaxPosted
  /\ \A r \in waiting : r.event \in Events /\ r.fed \in FEDs \cup {NoFED}
  /\ threads \subseteq Threads /\ timer \in BOOLEAN
  /\ doing \subseteq Components[app] /\ missing \subseteq FEDs
  /\ {requests, blocked, accepting, reason, overlap} \subseteq BOOLEAN
  /\ done \subseteq ToSet(Work[app][last]) /\ last \in Kinds

Quiet == ~Busy

(* Between two events the components process exactly in Running and the    *)
(* states in it, the BU requests events exactly in Active outside Paused,  *)
(* the set of missing FEDs, the timer and the blocked streams agree with   *)
(* the state: whatever starts, raises, reports or is interrupted on the    *)
(* way, and whichever state a run is entered in again (processFSMEvent()). *)
PartsFollowState ==
  Quiet =>
    /\ doing = IF Within(app, leaf, "Running") THEN Components[app] ELSE {}
    /\ app = "BU" => (requests <=> Within(app, leaf, "Active") /\ leaf # "Paused")
    /\ app = "RU" => /\ leaf = "MissingData" => missing # {} /\ ~blocked
                     /\ leaf = "Enabled" => missing = {} /\ ~blocked
                     /\ leaf = "SyncLoss" => blocked
                     /\ leaf = "Halted" => accepting
                     /\ Within(app, leaf, "Running") => ~accepting
                     /\ timer => leaf = "MissingData"

(* An application that is in an error state says why, and one that is not  *)
(* does not show the reason of an earlier error (clearError()).            *)
ReasonFollowsState ==
  Quiet => (reason <=> leaf \in {"Failed", "SyncLoss", "MissingData"})

(* Ready means that every component has been configured, or drained, since *)
(* the state before it was entered.  Threads that an earlier Halt, Clear   *)
(* or Fail left behind can announce the end of work they did not do: these *)
(* behaviours are excluded (activity()).                                   *)
ReadyIsDone ==
  leaf = "Ready" /\ Quiet /\ ~overlap => done = ToSet(Work[app][last])

(* What the state an application shows tells about its parts.              *)
StateTells == PartsFollowState /\ ReasonFollowsState /\ ReadyIsDone

(* No action fails unnoticed: the Fail an exception posts is processed     *)
(* before eventMutex_ is released, so the next event finds Failed.         *)
FailuresShow == [][posted > 0 /\ Quiet' => leaf' = "Failed"]_vars

(* processFSMEvent() returns, except while a worker that stopProcessing()  *)
(* waits for itself waits to report an error of the input.                 *)
EventsEnd == Busy ~> (Quiet \/ \E r \in waiting : Active(r))

(* An event ends, and with a failure only in Failed.                       *)
EventsGetThrough == FailuresShow /\ EventsEnd

(* processFSMEvent() returns: a readout unit that is told to halt, or      *)
(* fails, gets to that state (waitForState() of the tests).                *)
EveryEventEnds == Busy ~> Quiet
============================================================================
