------------------------------ MODULE MetaData ------------------------------
(***************************************************************************)
(* The soft FED of a readout unit, which adds the conditions of the        *)
(* detector to each event.                                                 *)
(*                                                                         *)
(* Threads of DIP (external) bring values, which the MetaDataRetriever     *)
(* keeps as four records.  A thread of the MetaDataStream looks for a      *)
(* record which differs from the one it gave to the builder, and gives it  *)
(* a new copy of all records with that one replaced.  The builder takes    *)
(* the latest copy for each event.                                         *)
(*                                                                         *)
(* Nobody waits for the thread of the stream when the unit is stopped, and *)
(* at its end it takes the copy away from a builder which may not have     *)
(* ended yet.  It is assumed that it has ended when the unit is started    *)
(* again: it looks every millisecond whether it has been stopped.          *)
(***************************************************************************)
EXTENDS Naturals, FiniteSets, SequencesExt, FiniteSetsExt

CONSTANTS Partitions,   \* topics on the high voltage of a partition
          MaskedTopics, \* by the configuration
          MaxTime,      \* bound on the time stamps of a topic
          MaxStarts     \* bound on the runs

DCSTopics == {"current"} \cup Partitions
Topics == {"luminosity", "beamSpot", "ctpps"} \cup DCSTopics

ASSUME MetaDataAssumption ==
  /\ IsFiniteSet(Partitions) /\ MaskedTopics \subseteq Topics
  /\ Partitions \cap {"luminosity", "beamSpot", "ctpps", "current"} = {}
  /\ {MaxTime, MaxStarts} \subseteq Nat

VARIABLES status,      \* dipTopics_
          subscribed,  \* the topics in dipSubscriptions_
          time,        \* the time of the latest value of each topic
          last,        \* lastLuminosity_, lastBeamSpot_, lastCTPPS_ and lastDCS_
          state,       \* of the unit: Halted, Ready, Running, Stopping or Crashed
          starts,
          request,     \* the thread of the stream: [pc, payload]
          next,        \* nextDataBufRef_
          current,     \* currentDataBufRef_, what the latest event has
          building     \* whether the builder is about to append the FED

dipVars == <<status, subscribed, time, last>>
vars == <<dipVars, state, starts, request, next, current, building>>

doProcessing == state = "Running"

(* The records have the time of the value, that of the DCS the latest of   *)
(* several topics, the partitions which are on, and the magnet's current.  *)
Records == <<"luminosity", "beamSpot", "ctpps", "dcs">>
Zero == [luminosity |-> 0, beamSpot |-> 0, ctpps |-> 0,
         dcs |-> [time |-> 0, ready |-> {}, magnet |-> 0]]
NoData == <<>>
TimeOf(data, r) == IF r = "dcs" THEN data.dcs.time ELSE data[r]

(* fillData(): the first record which differs is replaced.                 *)
Differs(data, r) == TimeOf(last, r) > 0 /\ last[r] # data[r]

(* Mutant of HasNews: only the luminosity is looked at.                    *)
HasNewsLuminosity(data) == Differs(data, "luminosity")

HasNews(data) == \E i \in DOMAIN Records : Differs(data, Records[i])
FillData(data) ==
  LET i == SelectInSeq(Records, LAMBDA r : Differs(data, r)) IN
  IF i = 0 THEN data ELSE [data EXCEPT ![Records[i]] = last[Records[i]]]

Init ==
  /\ status = [t \in Topics |-> "unavailable"] /\ subscribed = {}
  /\ time = [t \in Topics |-> 0] /\ last = Zero
  /\ state = "Halted" /\ starts = 0
  /\ request = [pc |-> "off", payload |-> NoData]
  /\ next = NoData /\ current = NoData /\ building = FALSE
-----------------------------------------------------------------------------
(***************************************************************************)
(* The threads of DIP.                                                     *)
(***************************************************************************)
dipOnly == UNCHANGED <<state, starts, request, next, current, building>>

(* connected(), disconnected() and handleException().                      *)
SetStatus(t) ==
  /\ t \in subscribed
  /\ \E s \in {"okay", "unavailable"} \ {status[t]} : status' = [status EXCEPT ![t] = s]
  /\ UNCHANGED <<subscribed, time, last>> /\ dipOnly

(* Mutant of HandleMessage: the topic of the magnet sets a bit, too.       *)
HandleMessageAnyBit(t) ==
  /\ t \in subscribed /\ status[t] = "okay"
  /\ \E now \in time[t] + 1 .. MaxTime, isReady \in BOOLEAN :
       /\ time' = [time EXCEPT ![t] = now]
       /\ last' =
            IF t \notin DCSTopics THEN [last EXCEPT ![t] = now]
            ELSE [last EXCEPT !.dcs =
                    [time |-> Max({now, @.time}),
                     ready |-> IF isReady THEN @.ready \cup {t} ELSE @.ready \ {t},
                     magnet |-> IF t = "current" THEN now ELSE @.magnet]]
  /\ UNCHANGED <<status, subscribed>> /\ dipOnly

(* handleMessage() of a value of good quality; others are ignored.  The    *)
(* times of a topic increase, but those of different topics come in any    *)
(* order.                                                                  *)
HandleMessage(t) ==
  /\ t \in subscribed /\ status[t] = "okay"
  /\ \E now \in time[t] + 1 .. MaxTime, isReady \in BOOLEAN :
       /\ time' = [time EXCEPT ![t] = now]
       /\ last' =
            IF t \notin DCSTopics THEN [last EXCEPT ![t] = now]
            ELSE [last EXCEPT !.dcs =
                    [time |-> Max({now, @.time}),
                     ready |-> IF t = "current" THEN @.ready
                               ELSE IF isReady THEN @.ready \cup {t} ELSE @.ready \ {t},
                     magnet |-> IF t = "current" THEN now ELSE @.magnet]]
  /\ UNCHANGED <<status, subscribed>> /\ dipOnly
-----------------------------------------------------------------------------
(***************************************************************************)
(* The state machine.                                                      *)
(***************************************************************************)
(* subscribeToDip(): topics which are not okay are subscribed, maybe       *)
(* again.                                                                  *)
SubscribeToDip ==
  /\ status' = [t \in Topics |-> IF t \in MaskedTopics THEN "masked" ELSE status[t]]
  /\ subscribed' = subscribed \cup {t \in Topics \ MaskedTopics : status[t] # "okay"}

(* Input::configure() makes a new stream, but keeps the retriever.         *)
Configure ==
  /\ state \in {"Halted", "Ready"} /\ request.pc = "off"
  /\ SubscribeToDip
  /\ state' = "Ready"
  /\ next' = NoData /\ current' = NoData
  /\ UNCHANGED <<time, last, starts, request, building>>

(* Mutant of Start: the first copy is left to the thread.                 *)
StartWithoutData ==
  /\ state = "Ready" /\ request.pc = "off"
  /\ starts < MaxStarts
  /\ state' = "Running" /\ starts' = starts + 1
  /\ current' = NoData
  /\ next' = NoData
  /\ request' = [request EXCEPT !.pc = "begin"]
  /\ UNCHANGED <<dipVars, building>>

Start ==
  /\ state = "Ready" /\ request.pc = "off"
  /\ starts < MaxStarts
  /\ state' = "Running" /\ starts' = starts + 1
  /\ current' = NoData
  /\ next' = FillData(Zero)
  /\ request' = [request EXCEPT !.pc = "begin"]
  /\ UNCHANGED <<dipVars, building>>

Stop ==
  /\ state = "Running"
  /\ state' = "Stopping"
  /\ UNCHANGED <<dipVars, starts, request, next, current, building>>

(* BUproxy::stopProcessing() waits for the builder.                        *)
Stopped ==
  /\ state = "Stopping" /\ ~building
  /\ state' = "Ready"
  /\ UNCHANGED <<dipVars, starts, request, next, current, building>>
-----------------------------------------------------------------------------
(***************************************************************************)
(* metaDataRequest(), the thread of the stream.                            *)
(***************************************************************************)
requestOnly == UNCHANGED <<time, last, state, starts, current, building>>

BeginRequest ==
  /\ request.pc = "begin"
  /\ IF doProcessing
       THEN /\ SubscribeToDip
            /\ request' = [pc |-> "fill", payload |-> next]
       ELSE /\ request' = [request EXCEPT !.pc = "off"]
            /\ UNCHANGED <<status, subscribed>>
  /\ UNCHANGED next /\ requestOnly

Fill ==
  /\ request.pc = "fill"
  /\ HasNews(request.payload)
  /\ request' = [pc |-> "publish", payload |-> FillData(request.payload)]
  /\ UNCHANGED <<status, subscribed, next>> /\ requestOnly

Publish ==
  /\ request.pc = "publish"
  /\ next' = request.payload
  /\ request' = [pc |-> "begin", payload |-> NoData]
  /\ UNCHANGED <<status, subscribed>> /\ requestOnly

(* The thread ends without news, and drops the copy without dataMutex_.    *)
EndRequest ==
  /\ request.pc = "fill"
  /\ ~doProcessing /\ ~HasNews(request.payload)
  /\ next' = NoData
  /\ request' = [pc |-> "off", payload |-> NoData]
  /\ UNCHANGED <<status, subscribed>> /\ requestOnly
-----------------------------------------------------------------------------
(***************************************************************************)
(* The builder: it has found a fragment in the master stream, and comes to *)
(* this stream, in which nobody looks whether it has been stopped.         *)
(***************************************************************************)
BeginEvent ==
  /\ doProcessing /\ ~building
  /\ building' = TRUE
  /\ UNCHANGED <<dipVars, state, starts, request, next, current>>

(* appendFedFragment() uses the copy, even if there is none: the program   *)
(* crashes.                                                                *)
AppendFedFragment ==
  /\ building /\ building' = FALSE
  /\ IF next = NoData THEN state' = "Crashed" /\ UNCHANGED current
                      ELSE current' = next /\ UNCHANGED state
  /\ UNCHANGED <<dipVars, starts, request, next>>
-----------------------------------------------------------------------------
RequestStep == BeginRequest \/ Fill \/ Publish \/ EndRequest
BuilderStep == BeginEvent \/ AppendFedFragment

Next ==
  /\ state # "Crashed"
  /\ \/ \E t \in Topics : SetStatus(t) \/ HandleMessage(t)
     \/ Configure \/ Start \/ Stop \/ Stopped
     \/ RequestStep \/ BuilderStep

(* The two threads go on; DIP and the state machine need not do anything.  *)
Spec == Init /\ [][Next]_vars /\ WF_vars(RequestStep) /\ WF_vars(BuilderStep)
-----------------------------------------------------------------------------
Data == [luminosity : 0 .. MaxTime, beamSpot : 0 .. MaxTime, ctpps : 0 .. MaxTime,
         dcs : [time : 0 .. MaxTime, ready : SUBSET Partitions, magnet : 0 .. MaxTime]]

TypeOK ==
  /\ status \in [Topics -> {"unavailable", "masked", "okay"}]
  /\ subscribed \subseteq Topics
  /\ time \in [Topics -> 0 .. MaxTime] /\ last \in Data
  /\ {next, current, request.payload} \subseteq Data \cup {NoData}

(* A running unit always has data for the builder, so that it may crash    *)
(* only while it stops, and the data are never ahead of what DIP brought.  *)
Older(a, b) == \A i \in DOMAIN Records : TimeOf(a, Records[i]) <= TimeOf(b, Records[i])
DataAtHand ==
  /\ doProcessing => next # NoData
  /\ next # NoData => Older(next, last)

(* From event to event of a run no record gets older or lost.              *)
EventsGoOn == [][current # NoData /\ current' # NoData => Older(current, current')]_current

(* A running unit puts into the events what DIP brought, when DIP is quiet *)
(* for long enough.                                                        *)
NewsArrive == []<>(~doProcessing \/ current = last)

(* News reach the events, and in their order (MetaDataRetriever.cc:267).   *)
NewsInOrder == EventsGoOn /\ NewsArrive
=============================================================================
