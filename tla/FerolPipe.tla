----------------------------- MODULE FerolPipe -----------------------------
(***************************************************************************)
(* The buffers of one pipe of a readout unit, from the peer transport      *)
(* through the threads of the unit and back.                               *)
(*                                                                         *)
(* The peer transport (pt::blit, external) fills buffers with the data of  *)
(* the FEROLs and gets them back when they are granted again.  The thread  *)
(* of the PipeHandler takes a filled buffer and gives it to the stream of  *)
(* its FEROL; the parser of the stream finds fragments in it, which hold   *)
(* the buffers they lie in; the builder takes a fragment of each stream,   *)
(* and when the last holder of a buffer goes, releaseBuffer() queues it in *)
(* grantFIFO_, from which the thread of the pipe grants it.  That thread   *)
(* is both a user of the FIFO and the only one that empties it.            *)
(*                                                                         *)
(* Connections come and go with callbacks of the peer transport and with   *)
(* the state machine, which starts, drains, stops, halts and configures.   *)
(***************************************************************************)
EXTENDS Naturals, Sequences, FiniteSets, SequencesExt

CONSTANTS NbStreams,     \* FEROLs of the pipe; their SIDs and FED ids are 1..NbStreams
          Split,         \* the streams whose fragments may lie in two buffers
          KeepAside,     \* the streams whose fragment may be kept for a resync
          Buffers,       \* of the peer transport
          SocketFIFOCapacity, FragmentFIFOCapacity, GrantFIFOCapacity,
          MaxTriggers,   \* bound on the events of a run
          MaxStarts, MaxHalts  \* bounds on the commands

Streams == 1 .. NbStreams

ASSUME FerolPipeAssumption ==
  /\ NbStreams \in Nat \ {0}
  /\ Split \subseteq Streams /\ KeepAside \subseteq Streams
  /\ IsFiniteSet(Buffers)
  /\ {SocketFIFOCapacity, FragmentFIFOCapacity, GrantFIFOCapacity} \subseteq Nat \ {0}
  /\ {MaxTriggers, MaxStarts, MaxHalts} \subseteq Nat

VARIABLES handler,      \* whether pipeHandlers_ has the handler of the pipe
          accept,       \* acceptConnections_
          connected,    \* socketStreams_
          active,       \* the streams in Input::ferolStreams_
          failing,      \* a Fail event waits for the state machine
          control,      \* the state machine and its threads: [pc, s, to]
          starts, halts,
          free, queue,  \* the buffers of the peer transport: to fill, and filled
          sent, open,   \* for each stream: fragments sent, and whether one is half sent
          pipe,         \* the thread of the pipe: [pc, item, work]
          outstanding,  \* outstandingBuffers_
          grant,        \* grantFIFO_
          processing,   \* the streams with doProcessing_
          fifo,         \* socketBufferFIFO_
          parser,       \* what is left of the buffer it parses
          current,      \* the buffers of currentFragment_
          fragments,    \* fragmentFIFO_, a fragment being the set of its buffers
          held,         \* the buffers of firstFragmentAfterResync_
          taking,       \* where the builder is with its next fragment
          building,     \* the fragments the builder has of the event
          built,        \* events built in this run
          releasing,    \* the buffers each thread is about to release
          orphans       \* buffers in streams which outlive the handler

peerVars == <<free, queue, sent, open>>
pipeVars == <<pipe, outstanding, grant>>
streamVars == <<fifo, parser, current, fragments>>
builderVars == <<held, taking, building, built>>
connVars == <<handler, accept, connected, active>>
controlVars == <<failing, control, starts, halts, processing, orphans>>
vars == <<peerVars, pipeVars, streamVars, builderVars, connVars, controlVars, releasing>>

Pipe == 0
Builder == NbStreams + 1
Control == NbStreams + 2
Threads == 0 .. NbStreams + 2   \* the parser of stream s is thread s

Items == [s : Streams, buf : Buffers, ends : BOOLEAN, begins : BOOLEAN]

BufsOf(items) == {i.buf : i \in ToSet(items)}
InStream(s) == BufsOf(fifo[s]) \cup BufsOf(parser[s]) \cup current[s]
                 \cup (UNION ToSet(fragments[s])) \cup held[s]

(* A shared pointer refers to these buffers.                               *)
Referenced == BufsOf(pipe.item) \cup (UNION ToSet(building)) \cup UNION {InStream(s) : s \in Streams}

(* The thread drops its references to the buffers, and releases those to   *)
(* which nobody else refers.                                               *)
Drop(thread, bufs) == releasing' = [releasing EXCEPT ![thread] = bufs \ Referenced']

Released == UNION {releasing[t] : t \in Threads}
InUse == BufsOf(queue) \cup Referenced \cup Released \cup orphans

IsFree(thread) == releasing[thread] = {}

Init ==
  /\ handler = FALSE /\ accept = FALSE /\ connected = {} /\ active = {}
  /\ failing = FALSE /\ control = [pc |-> "Dropping", s |-> 1, to |-> "Halted"]
  /\ starts = 0 /\ halts = 0
  /\ free = 0 /\ queue = <<>>
  /\ sent = [s \in Streams |-> 0] /\ open = [s \in Streams |-> FALSE]
  /\ pipe = [pc |-> "sleep", item |-> <<>>, work |-> FALSE]
  /\ outstanding = 0 /\ grant = 0
  /\ processing = {}
  /\ fifo = [s \in Streams |-> <<>>]
  /\ parser = [s \in Streams |-> <<>>]
  /\ current = [s \in Streams |-> {}]
  /\ fragments = [s \in Streams |-> <<>>]
  /\ held = [s \in Streams |-> {}]
  /\ taking = "no" /\ building = <<>> /\ built = 0
  /\ releasing = [t \in Threads |-> {}]
  /\ orphans = {}
-----------------------------------------------------------------------------
(***************************************************************************)
(* The FEROLs.  They send the fragments of one event after the other; a    *)
(* FEROL is at most one event ahead of the others.  When the run is        *)
(* drained they finish the event they have begun.                          *)
(***************************************************************************)
Draining == control.pc \in {"DrainParser", "DrainFIFO", "DrainFragments", "DrainPipe", "Count"}
Stopping == {"StopStream", "Clear", "ClearDeq", "ClearRest", "ClearRestDeq"}
Triggered(s, n) == n <= MaxTriggers /\ \A t \in Streams \ {s} : sent[t] >= n - 1

Deliver(s) ==
  /\ handler /\ s \in connected
  /\ free > 0
  /\ control.pc \in {"Running", "StopParser"} \cup Stopping \/ Draining
  /\ \E ends, begins \in BOOLEAN :
       LET buf == CHOOSE b \in Buffers : b \notin InUse
           nowSent == sent[s] + (IF ends THEN 1 ELSE 0) IN
       /\ ends \/ begins
       /\ begins => s \in Split
       /\ open[s] => ends
       /\ open[s] \/ Triggered(s, sent[s] + 1)
       /\ begins => Triggered(s, nowSent + 1)
       /\ Draining => /\ ~begins
                      /\ open[s] \/ \E t \in Streams : open[t] \/ sent[t] > sent[s]
       /\ queue' = Append(queue, [s |-> s, buf |-> buf, ends |-> ends, begins |-> begins])
       /\ free' = free - 1
       /\ sent' = [sent EXCEPT ![s] = nowSent]
       /\ open' = [open EXCEPT ![s] = begins]
  /\ UNCHANGED <<pipeVars, streamVars, builderVars, connVars, controlVars, releasing>>

(* connectionAcceptedEvent(): a connection which is not expected fails the *)
(* unit.  mutex_ is held while the handler is destroyed.                   *)
Connect(s) ==
  /\ s \notin connected
  /\ control.pc # "Closing"
  /\ handler \/ control.pc = "Accepting"
  /\ IF accept THEN connected' = connected \cup {s} /\ UNCHANGED failing
               ELSE failing' = TRUE /\ UNCHANGED connected
  /\ UNCHANGED <<peerVars, pipeVars, streamVars, builderVars, handler, accept, active,
                 control, starts, halts, processing, orphans, releasing>>
-----------------------------------------------------------------------------
(***************************************************************************)
(* processPipe(): the loop takes a filled buffer and grants one.           *)
(***************************************************************************)
pipeOnly == UNCHANGED <<sent, open, builderVars, connVars, controlVars>>

(* Mutant of Dequeue: only the buffers a stream takes are counted.         *)
DequeueCountsTaken ==
  /\ \/ pipe.pc = "dequeue"
     \/ /\ pipe.pc = "sleep" /\ handler /\ control.pc # "Closing"
        /\ queue # <<>> \/ grant > 0
  /\ IF queue = <<>>
       THEN /\ pipe' = [pipe EXCEPT !.pc = "grant"]
            /\ UNCHANGED <<queue, outstanding, releasing>>
       ELSE LET item == Head(queue)
                taken == item.s \in connected \cap processing IN
            /\ queue' = Tail(queue)
            /\ outstanding' = outstanding + (IF taken THEN 1 ELSE 0)
            /\ pipe' = [pc |-> IF taken THEN "add" ELSE "grant",
                        item |-> IF taken THEN <<item>> ELSE <<>>, work |-> TRUE]
            /\ releasing' = [releasing EXCEPT ![Pipe] = IF taken THEN {} ELSE {item.buf}]
  /\ UNCHANGED <<free, grant, streamVars>> /\ pipeOnly

(* The stream takes the buffer when it processes data, else it is released *)
(* by this thread.                                                         *)
Dequeue ==
  /\ \/ pipe.pc = "dequeue"
     \/ /\ pipe.pc = "sleep" /\ handler /\ control.pc # "Closing"
        /\ queue # <<>> \/ grant > 0
  /\ IF queue = <<>>
       THEN /\ pipe' = [pipe EXCEPT !.pc = "grant"]
            /\ UNCHANGED <<queue, outstanding, releasing>>
       ELSE LET item == Head(queue)
                taken == item.s \in connected \cap processing IN
            /\ queue' = Tail(queue)
            /\ outstanding' = outstanding + 1
            /\ pipe' = [pc |-> IF taken THEN "add" ELSE "grant",
                        item |-> IF taken THEN <<item>> ELSE <<>>, work |-> TRUE]
            /\ releasing' = [releasing EXCEPT ![Pipe] = IF taken THEN {} ELSE {item.buf}]
  /\ UNCHANGED <<free, grant, streamVars>> /\ pipeOnly

(* enqWait(socketBuffer, doProcessing_): the buffer is queued when there   *)
(* is room, also if the stream has just been stopped.                      *)
AddBuffer ==
  /\ pipe.pc = "add"
  /\ LET item == pipe.item[1]
         room == Len(fifo[item.s]) < SocketFIFOCapacity IN
       /\ room \/ item.s \notin processing
       /\ fifo' = IF room THEN [fifo EXCEPT ![item.s] = Append(@, item)] ELSE fifo
       /\ releasing' = [releasing EXCEPT ![Pipe] = IF room THEN {} ELSE {item.buf}]
  /\ pipe' = [pipe EXCEPT !.pc = "grant", !.item = <<>>]
  /\ UNCHANGED <<free, queue, outstanding, grant, parser, current, fragments>> /\ pipeOnly

GrantBuffer ==
  /\ pipe.pc = "grant" /\ IsFree(Pipe)
  /\ IF grant > 0
       THEN /\ free' = free + 1
            /\ grant' = grant - 1
            /\ outstanding' = outstanding - 1
            /\ pipe' = [pipe EXCEPT !.pc = "dequeue", !.work = FALSE]
       ELSE /\ pipe' = [pipe EXCEPT !.pc = IF pipe.work THEN "dequeue" ELSE "sleep", !.work = FALSE]
            /\ UNCHANGED <<free, grant, outstanding>>
  /\ UNCHANGED <<queue, streamVars, releasing>> /\ pipeOnly

(* releaseBuffer(): the thread waits for room in the FIFO.                 *)
Release(thread) ==
  /\ releasing[thread] # {}
  /\ grant < GrantFIFOCapacity
  /\ grant' = grant + 1
  /\ releasing' = [releasing EXCEPT ![thread] = @ \ {CHOOSE b \in @ : TRUE}]
  /\ UNCHANGED <<peerVars, pipe, outstanding, streamVars, builderVars, connVars, controlVars>>
-----------------------------------------------------------------------------
(***************************************************************************)
(* parseSocketBuffers() of a stream.  The thread refers to the buffer it   *)
(* parses until it has the next one, or ends the loop.                     *)
(***************************************************************************)
parserOnly == UNCHANGED <<peerVars, pipeVars, builderVars, connVars, controlVars>>

IsUsed(s) == \A i \in ToSet(parser[s]) : ~i.ends
ParserSleeps(s) == parser[s] = <<>> /\ IsFree(s)

TakeBuffer(s) ==
  /\ IsFree(s)
  /\ IsUsed(s) \/ s \notin processing
  /\ \/ /\ s \in processing /\ fifo[s] # <<>>
        /\ parser' = [parser EXCEPT ![s] = <<Head(fifo[s])>>]
        /\ current' = IF Head(fifo[s]).ends THEN current ELSE [current EXCEPT ![s] = @ \cup {Head(fifo[s]).buf}]
        /\ fifo' = [fifo EXCEPT ![s] = Tail(@)]
     \/ /\ parser[s] # <<>>
        /\ s \notin processing \/ fifo[s] = <<>>
        /\ parser' = [parser EXCEPT ![s] = <<>>]
        /\ UNCHANGED <<fifo, current>>
  /\ UNCHANGED fragments /\ parserOnly
  /\ Drop(s, BufsOf(parser[s]))

(* Mutant of CompleteFragment: the parser does not wait for room.          *)
CompleteFragmentNoWait(s) ==
  /\ parser[s] # <<>> /\ IsFree(s)
  /\ parser[s][1].ends
  /\ fragments' = [fragments EXCEPT ![s] = Append(@, current[s] \cup {parser[s][1].buf})]
  /\ current' = [current EXCEPT ![s] =
                   IF parser[s][1].begins /\ s \in processing THEN {parser[s][1].buf} ELSE {}]
  /\ parser' = [parser EXCEPT ![s][1].ends = FALSE]
  /\ UNCHANGED fifo /\ parserOnly
  /\ Drop(s, current[s])

(* A complete fragment waits for room in fragmentFIFO_, or is lost when    *)
(* the stream is stopped meanwhile.                                        *)
CompleteFragment(s) ==
  /\ parser[s] # <<>> /\ IsFree(s)
  /\ parser[s][1].ends
  /\ LET room == Len(fragments[s]) < FragmentFIFOCapacity IN
       /\ room \/ s \notin processing
       /\ fragments' = IF room THEN [fragments EXCEPT ![s] = Append(@, current[s] \cup {parser[s][1].buf})]
                       ELSE fragments
  /\ current' = [current EXCEPT ![s] =
                   IF parser[s][1].begins /\ s \in processing THEN {parser[s][1].buf} ELSE {}]
  /\ parser' = [parser EXCEPT ![s][1].ends = FALSE]
  /\ UNCHANGED fifo /\ parserOnly
  /\ Drop(s, current[s])
-----------------------------------------------------------------------------
(***************************************************************************)
(* The builder takes a fragment of each stream in turn: it looks whether   *)
(* the stream processes data, and then calls deq() of its fragmentFIFO_,   *)
(* which looks whether there is a fragment and takes it.  deq() is made    *)
(* for one consumer.  A thread that enters it while another is in it finds *)
(* the same slot, which may be copied and destroyed twice: anything may    *)
(* happen then.                                                            *)
(***************************************************************************)
builderOnly == UNCHANGED <<free, queue, open, pipeVars, connVars, fifo, parser, current>>

NextStream == Len(building) + 1
Clearing(s) == control.pc \in {"ClearDeq", "ClearRestDeq"} /\ control.s = s
Taking(s) == taking = "deq" /\ NextStream = s

CheckStream ==
  /\ NextStream \in processing /\ IsFree(Builder)
  /\ held[NextStream] = {} /\ taking = "no"
  /\ taking' = "checked"
  /\ UNCHANGED <<sent, held, fragments, building, built, releasing, controlVars>> /\ builderOnly

FindNothing ==
  /\ taking = "checked"
  /\ fragments[NextStream] = <<>>
  /\ taking' = "no"
  /\ UNCHANGED <<sent, held, fragments, building, built, releasing, controlVars>> /\ builderOnly

BeginTake ==
  /\ taking = "checked"
  /\ fragments[NextStream] # <<>>
  /\ IF Clearing(NextStream)
       THEN control' = [control EXCEPT !.pc = "TwoConsumers"] /\ UNCHANGED taking
       ELSE taking' = "deq" /\ UNCHANGED control
  /\ UNCHANGED <<sent, held, fragments, building, built, releasing, failing, starts, halts, processing,
                 orphans>>
  /\ builderOnly

(* A fragment after a resync may be kept until the master resyncs, too:    *)
(* the FEROL sent none for this event, and what it sent is for the next.   *)
TakeFragment ==
  /\ taking = "deq"
  /\ LET s == NextStream
         fragment == Head(fragments[s]) IN
       /\ fragments' = [fragments EXCEPT ![s] = Tail(@)]
       /\ \/ /\ building' = Append(building, fragment)
             /\ UNCHANGED <<held, sent>>
          \/ /\ s \in KeepAside
             /\ held' = [held EXCEPT ![s] = fragment]
             /\ building' = Append(building, {})
             /\ sent' = [sent EXCEPT ![s] = @ + 1]
  /\ taking' = "no"
  /\ UNCHANGED <<built, releasing, controlVars>> /\ builderOnly

TakeHeld ==
  /\ NextStream \in processing /\ IsFree(Builder) /\ taking = "no"
  /\ held[NextStream] # {}
  /\ building' = Append(building, held[NextStream])
  /\ held' = [held EXCEPT ![NextStream] = {}]
  /\ UNCHANGED <<sent, fragments, taking, built, releasing, controlVars>> /\ builderOnly

(* The event is sent, or given up as a stream was stopped: HaltRequested.  *)
(* Its fragments go.                                                       *)
EndEvent ==
  /\ building # <<>> /\ IsFree(Builder) /\ taking = "no"
  /\ \/ Len(building) = NbStreams /\ built' = built + 1
     \/ NextStream \in Streams \ processing /\ UNCHANGED built
  /\ building' = <<>>
  /\ UNCHANGED <<held, taking, fragments, sent, controlVars>> /\ builderOnly
  /\ Drop(Builder, UNION ToSet(building))
-----------------------------------------------------------------------------
(***************************************************************************)
(* The state machine: Halted::entryAction(), Configuring, Running with its *)
(* exit action, and Draining.                                              *)
(***************************************************************************)
controlOnly == UNCHANGED <<peerVars, pipeVars, builderVars>>
Goto(pc, s, to) == control' = [pc |-> pc, s |-> s, to |-> to]

(* dropConnections(): the handler waits for its thread and goes.  Its      *)
(* streams go as well, unless Input still has them; buffers in these are   *)
(* left behind.  All other buffers go back to their pool.                  *)
DropConnections ==
  /\ control.pc = "Dropping"
  /\ accept' = FALSE
  /\ Goto(IF handler THEN "Closing" ELSE "Accepting", 1, control.to)
  /\ controlOnly
  /\ UNCHANGED <<handler, connected, active, failing, starts, halts, processing, orphans,
                 streamVars, releasing>>

Close ==
  /\ control.pc = "Closing"
  /\ pipe.pc = "sleep"
  /\ handler' = FALSE /\ connected' = {}
  /\ free' = 0 /\ queue' = <<>> /\ grant' = 0 /\ outstanding' = 0
  /\ sent' = [s \in Streams |-> 0] /\ open' = [s \in Streams |-> FALSE]
  /\ orphans' = orphans \cup Referenced
  /\ fifo' = [s \in Streams |-> <<>>]
  /\ held' = [s \in Streams |-> {}]
  /\ Goto("Accepting", 1, control.to)
  /\ UNCHANGED <<accept, active, failing, starts, halts, processing, pipe, parser, current,
                 fragments, taking, building, built, releasing>>

(* acceptConnections() finds the pipe of the peer transport again.         *)
AcceptConnections ==
  /\ control.pc = "Accepting"
  /\ handler' = TRUE /\ accept' = TRUE
  /\ free' = Cardinality(Buffers \ orphans)
  /\ Goto("Halted", 1, "Halted")
  /\ UNCHANGED <<queue, sent, open, pipeVars, builderVars, streamVars, connected, active,
                 failing, starts, halts, processing, orphans, releasing>>

(* A thread which fails the unit is the next to get its state machine.     *)
Fail ==
  /\ failing
  /\ control.pc = "Halted"
  /\ failing' = FALSE
  /\ Goto("Failed", 1, "Failed")
  /\ controlOnly
  /\ UNCHANGED <<connVars, starts, halts, processing, orphans, streamVars, releasing>>

(* Input::configure() drops the streams of an earlier configuration.       *)
(* Buffers these still have are released through the handler which is no   *)
(* more: anything may happen.                                              *)
Configure ==
  /\ control.pc = "Halted" /\ ~failing
  /\ active' = {}
  /\ Goto(IF orphans = {} THEN "Configuring" ELSE "Undefined", 1, "Ready")
  /\ controlOnly
  /\ UNCHANGED <<handler, accept, connected, failing, starts, halts, processing, orphans,
                 streamVars, releasing>>

(* getActiveFerolStreams() looks for all streams until it times out.       *)
FindStreams ==
  /\ control.pc = "Configuring"
  /\ active' = active \cup connected
  /\ \/ Goto(IF active' = Streams THEN "Ready" ELSE "Configuring", 1, "Ready")
     \/ Goto("Failed", 1, "Failed")
  /\ controlOnly
  /\ UNCHANGED <<handler, accept, connected, failing, starts, halts, processing, orphans, streamVars,
                 releasing>>

Start ==
  /\ control.pc = "Ready" /\ starts < MaxStarts
  /\ starts' = starts + 1
  /\ accept' = FALSE
  /\ processing' = active
  /\ built' = 0
  /\ sent' = [s \in Streams |-> 0] /\ open' = [s \in Streams |-> FALSE]
  /\ Goto("Running", 1, "Running")
  /\ UNCHANGED <<free, queue, pipeVars, streamVars, held, taking, building, handler, connected, active,
                 failing, halts, orphans, releasing>>

Command(pc, s, to) ==
  /\ Goto(pc, s, to)
  /\ controlOnly
  /\ UNCHANGED <<connVars, failing, starts, processing, orphans, streamVars, releasing>>

Stop == control.pc = "Running" /\ Command("DrainParser", 1, "Ready") /\ UNCHANGED halts

Halt ==
  /\ control.pc \in {"Configuring", "Ready", "Running", "Failed"} \/ Draining
  /\ halts < MaxHalts
  /\ halts' = halts + 1
  /\ Command(IF control.pc = "Running" \/ Draining THEN "StopStream" ELSE "Dropping", 1, "Halted")

(* SocketStream::drain() looks whether the parser sleeps, then whether it  *)
(* has anything to do, and waits for the builder.                          *)
DrainParser ==
  /\ control.pc = "DrainParser"
  /\ ParserSleeps(control.s)
  /\ Command("DrainFIFO", control.s, "Ready") /\ UNCHANGED halts

DrainFIFO ==
  /\ control.pc = "DrainFIFO"
  /\ Command(IF fifo[control.s] = <<>> THEN "DrainFragments" ELSE "DrainParser", control.s, "Ready")
  /\ UNCHANGED halts

DrainFragments ==
  /\ control.pc = "DrainFragments"
  /\ fragments[control.s] = <<>>
  /\ IF control.s < NbStreams THEN Command("DrainParser", control.s + 1, "Ready")
                              ELSE Command("DrainPipe", 1, "Ready")
  /\ UNCHANGED halts

(* handlersIdle(): the thread of the pipe has nothing to do, and all       *)
(* buffers are granted.                                                    *)
DrainPipe ==
  /\ control.pc = "DrainPipe"
  /\ pipe.pc = "sleep"
  /\ Command("Count", 1, "Ready") /\ UNCHANGED halts

(* Mutant of Count: buffers which are not on their way back do not matter. *)
CountGrants ==
  /\ control.pc = "Count"
  /\ Command(IF grant = 0 THEN "StopStream" ELSE "DrainPipe", 1, "Ready")
  /\ UNCHANGED halts

Count ==
  /\ control.pc = "Count"
  /\ Command(IF grant = 0 /\ outstanding = 0 THEN "StopStream" ELSE "DrainPipe", 1, "Ready")
  /\ UNCHANGED halts

(* FerolStream::stopProcessing() empties fragmentFIFO_ before the parser   *)
(* has ended, SocketStream::stopProcessing() the rest after it has.        *)
StopStream ==
  /\ control.pc = "StopStream"
  /\ processing' = processing \ {control.s}
  /\ Goto("Clear", control.s, control.to)
  /\ controlOnly
  /\ UNCHANGED <<connVars, failing, starts, halts, orphans, streamVars, releasing>>

StopParser ==
  /\ control.pc = "StopParser" /\ IsFree(Control)
  /\ LET s == control.s IN
       /\ ParserSleeps(s)
       /\ fifo' = [fifo EXCEPT ![s] = <<>>]
       /\ current' = [current EXCEPT ![s] = {}]
       /\ Goto("ClearRest", s, control.to)
       /\ UNCHANGED <<parser, fragments, connVars, failing, starts, halts, processing, orphans>> /\ controlOnly
       /\ Drop(Control, BufsOf(fifo[s]) \cup current[s])

(* fragmentFIFO_.clear() calls deq() until the FIFO is empty.              *)
clearing(pc) ==
  LET next == IF control.pc = "Clear" THEN [control EXCEPT !.pc = "StopParser"]
              ELSE IF control.s < NbStreams THEN [control EXCEPT !.pc = "StopStream", !.s = @ + 1]
              ELSE [control EXCEPT !.pc = "StopBuilder", !.s = 1]
  IN  IF fragments[control.s] = <<>> THEN next
      ELSE [control EXCEPT !.pc = IF Taking(control.s) THEN "TwoConsumers" ELSE pc]

Clear ==
  /\ control.pc \in {"Clear", "ClearRest"} /\ IsFree(Control)
  /\ control' = clearing(IF control.pc = "Clear" THEN "ClearDeq" ELSE "ClearRestDeq")
  /\ controlOnly
  /\ UNCHANGED <<connVars, failing, starts, halts, processing, orphans, streamVars, releasing>>

ClearDeq ==
  /\ control.pc \in {"ClearDeq", "ClearRestDeq"}
  /\ fragments' = [fragments EXCEPT ![control.s] = Tail(@)]
  /\ Goto(IF control.pc = "ClearDeq" THEN "Clear" ELSE "ClearRest", control.s, control.to)
  /\ UNCHANGED <<fifo, parser, current, connVars, failing, starts, halts, processing, orphans>> /\ controlOnly
  /\ Drop(Control, Head(fragments[control.s]))

StopBuilder ==
  /\ control.pc = "StopBuilder" /\ IsFree(Control)
  /\ building = <<>> /\ taking = "no" /\ IsFree(Builder)
  /\ Command(IF control.to = "Halted" THEN "Dropping" ELSE control.to, 1, control.to)
  /\ UNCHANGED halts
-----------------------------------------------------------------------------
PipeStep == Dequeue \/ AddBuffer \/ GrantBuffer \/ Release(Pipe)
ParserStep(s) ==
  TakeBuffer(s) \/ CompleteFragment(s) \/ Release(s)
BuilderStep ==
  \/ CheckStream \/ FindNothing \/ BeginTake \/ TakeFragment \/ TakeHeld \/ EndEvent \/ Release(Builder)
ControlStep ==
  \/ DropConnections \/ Close \/ AcceptConnections
  \/ DrainParser \/ DrainFIFO \/ DrainFragments \/ DrainPipe \/ Count
  \/ StopStream \/ Clear \/ ClearDeq \/ StopParser \/ StopBuilder \/ Release(Control)

(* After two consumers in one deq(), or a release through a handler which  *)
(* is gone, anything may happen: the model ends there.                     *)
Undefined == control.pc \in {"TwoConsumers", "Undefined"}

Next ==
  /\ ~Undefined
  /\ \/ \E s \in Streams : Deliver(s) \/ Connect(s) \/ ParserStep(s)
     \/ PipeStep \/ BuilderStep \/ ControlStep
     \/ Fail \/ Configure \/ FindStreams \/ Start \/ Stop \/ Halt

Spec == Init /\ [][Next]_vars
-----------------------------------------------------------------------------
TypeOK ==
  /\ {connected, active, processing} \subseteq SUBSET Streams
  /\ {handler, accept, failing} \subseteq BOOLEAN
  /\ control.s \in Streams
  /\ free \in 0 .. Cardinality(Buffers) /\ queue \in Seq(Items)
  /\ outstanding \in Nat /\ grant \in 0 .. GrantFIFOCapacity
  /\ \A s \in Streams :
       /\ fifo[s] \in Seq(Items) /\ Len(fifo[s]) <= SocketFIFOCapacity
       /\ parser[s] \in Seq(Items)
       /\ current[s] \subseteq Buffers /\ held[s] \subseteq Buffers
       /\ fragments[s] \in Seq(SUBSET Buffers) /\ Len(fragments[s]) <= FragmentFIFOCapacity
  /\ Len(building) <= NbStreams /\ taking \in {"no", "checked", "deq"}

(* Until the model ends in an undefined state, each buffer is in exactly   *)
(* one place: free, filled, with the unit, on its way back or left behind. *)
(* outstandingBuffers_ says how many the unit has.  If grantFIFO_ can hold *)
(* all buffers of the pipe, which the code does not check, there is always *)
(* room for one which is released: the thread which releases it, maybe the *)
(* one which grants them, never waits.                                     *)
BuffersConserved ==
  LET used == Cardinality((Referenced \cup Released) \ orphans) + grant IN
  /\ handler => /\ free + Len(queue) + used = Cardinality(Buffers \ orphans)
                /\ outstanding = used
  /\ Released # {} /\ Cardinality(Buffers) <= GrantFIFOCapacity => grant < GrantFIFOCapacity

(* When all threads wait, a running unit has built all events, a drain can *)
(* end unless a FEROL is ahead of another which will not follow, and the   *)
(* stop or halt of the unit need not wait any longer.  The builder waits   *)
(* as well when it only looks again and again for a fragment.              *)
Polls == fragments[NextStream] = <<>> /\ NextStream \in processing
NothingToDo ==
  ~ENABLED (\/ PipeStep \/ \E s \in Streams : ParserStep(s) \/ Deliver(s)
            \/ (CheckStream \/ FindNothing) /\ ~Polls
            \/ BeginTake \/ TakeFragment \/ TakeHeld \/ EndEvent \/ Release(Builder))
NobodyIsStuck ==
  NothingToDo /\ ~Undefined =>
    /\ control.pc = "Running" => \A n \in 1 .. MaxTriggers : (\A s \in Streams : sent[s] >= n) => built >= n
    /\ Draining => \/ outstanding = 0
                   \/ \E s, t \in Streams : sent[s] < sent[t]
    /\ control.pc = "StopParser" => ParserSleeps(control.s)
    /\ control.pc = "StopBuilder" => building = <<>> /\ taking = "no" /\ IsFree(Builder)
    /\ control.pc = "Closing" => pipe.pc = "sleep"

(* When a drain has ended, each fragment which the pipe has taken over has *)
(* been built into an event.                                               *)
DrainedIsBuilt ==
  [][control.pc = "Count" /\ control'.pc = "StopStream" /\ control'.to = "Ready" /\ queue = <<>>
       => \A s \in Streams : sent[s] = built /\ ~open[s]]_vars

(* Nothing is left behind: not by threads which all wait, not by a drain   *)
(* (PipeHandler.h:124, FerolConnectionManager.h:83).                       *)
NothingLeftBehind == []NobodyIsStuck /\ DrainedIsBuilt

(***************************************************************************)
(* A fragmentFIFO_ has one consumer at a time: OneToOneQueue is threadsafe *)
(* only then.  This does not hold: a halt stops a stream and clears its    *)
(* fragmentFIFO_ while the builder, which has looked at doProcessing_      *)
(* before, takes a fragment from it.                                       *)
(***************************************************************************)
OneConsumer == control.pc # "TwoConsumers"
=============================================================================
