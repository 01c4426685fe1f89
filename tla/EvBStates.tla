----------------------------- MODULE EvBStates -----------------------------
(***************************************************************************)
(* The state classes of the applications (bu/States.h,                     *)
(* readoutunit/States.h, dummyFEROL/States.h) as tables, and what a        *)
(* boost::statechart transition between them exits and enters.             *)
(*                                                                         *)
(* A state is given by the state it lies in, its initial inner state, and  *)
(* its reactions: an event leads to a state, is absorbed (Stay), or has a  *)
(* reaction of its own (Custom).                                           *)
(***************************************************************************)
EXTENDS Integers, Sequences, SequencesExt, FiniteSets, TLC

Stay == "in-state reaction"
Custom == "custom reaction"
History == "deep history"      \* the initial state is the one left last
Ignores == <<>>                \* a state without reactions

State(within, initial, reactions) ==
  [within |-> within, initial |-> initial, on |-> reactions]

-----------------------------------------------------------------------------
(* The builder unit *)

BUOuter == [
  Outermost   |-> State("", "AllOk",
                    [Release |-> Stay, Throttle |-> Stay, Block |-> Stay,
                     Misted |-> Stay, Clouded |-> Stay, Pause |-> Stay]),
  Failed      |-> State("Outermost", "", [Halt |-> "Halted", Fail |-> Stay]),
  AllOk       |-> State("Outermost", "Halted", [Fail |-> "Failed"]),
  Halted      |-> State("AllOk", "", [Configure |-> "Active", Halt |-> Stay]),
  Active      |-> State("AllOk", "Configuring", [Halt |-> "Halted"]),
  Configuring |-> State("Active", "", [ConfigureDone |-> "Ready"])]

BURun == [
  Ready      |-> State("Active", "", [Enable |-> "Running", Clear |-> Stay]),
  Running    |-> State("Active", "Processing", [Clear |-> "Configuring"]),
  Processing |-> State("Running", History,
                   [Stop |-> "Draining", Release |-> "Enabled",
                    Throttle |-> "Throttled", Block |-> "Blocked",
                    Misted |-> "Mist", Clouded |-> "Cloud", Pause |-> "Paused"]),
  Draining   |-> State("Running", "", [DrainingDone |-> "Ready"])]

(* Paused lists the state Paused where the event Pause is meant. *)
BUProcessing == [
  Enabled   |-> State("Processing", "", [Release |-> Stay]),
  Throttled |-> State("Processing", "", [Throttle |-> Stay]),
  Blocked   |-> State("Processing", "", [Block |-> Stay]),
  Mist      |-> State("Processing", "", [Misted |-> Stay]),
  Cloud     |-> State("Processing", "", [Clouded |-> Stay]),
  Paused    |-> State("Processing", "", Ignores)]

BUEntry == [
  Active      |-> <<<<"requests", "on">>>>,
  Configuring |-> <<<<"spawn", "configure">>>>,
  Running     |-> <<<<"start", "diskWriter">>, <<"start", "resourceManager">>,
                    <<"start", "eventBuilder">>, <<"start", "ruProxy">>>>,
  Draining    |-> <<<<"spawn", "drain">>>>,
  Paused      |-> <<<<"requests", "off">>>>]

BUExit == [
  Failed      |-> <<<<"reason", "cleared">>>>,
  Active      |-> <<<<"requests", "off">>>>,
  Configuring |-> <<<<"forget", "configure">>>>,
  Running     |-> <<<<"stop", "ruProxy">>, <<"stop", "resourceManager">>,
                    <<"stop", "eventBuilder">>, <<"stop", "diskWriter">>>>,
  Draining    |-> <<<<"forget", "drain">>>>,
  Paused      |-> <<<<"requests", "on">>>>]

(* What Configuring::activity() and Draining::activity() call. *)
BUConfiguring == <<"resourceManager", "ruProxy", "eventBuilder", "diskWriter">>
BUDraining == <<"ruProxy", "eventBuilder", "resourceManager", "diskWriter">>

-----------------------------------------------------------------------------
(* The readout unit and the event manager *)

RUOuter == [
  Outermost   |-> State("", "AllOk", [DrainingDone |-> Stay]),
  Failed      |-> State("Outermost", "", [Halt |-> "Halted", Fail |-> Stay]),
  AllOk       |-> State("Outermost", "Halted", [Fail |-> "Failed"]),
  Halted      |-> State("AllOk", "", [Configure |-> "Active", Halt |-> Stay]),
  Active      |-> State("AllOk", "Configuring", [Halt |-> "Halted"]),
  Configuring |-> State("Active", "", [ConfigureDone |-> "Ready"])]

RURun == [
  Ready   |-> State("Active", "", [Enable |-> "Enabled", Clear |-> Stay]),
  Running |-> State("Active", "Enabled", [Clear |-> "Configuring"]),
  Enabled |-> State("Running", "",
                [Stop |-> "Draining", MismatchDetected |-> "SyncLoss",
                 EventOutOfSequence |-> "SyncLoss", DataLoss |-> "MissingData"])]

RUErrors == [
  Draining         |-> State("Running", "", [DrainingDone |-> "Ready"]),
  SyncLoss         |-> State("Running", "",
                         [Stop |-> "Draining", MismatchDetected |-> Stay,
                          EventOutOfSequence |-> Stay]),
  IncompleteEvents |-> State("Running", "MissingData",
                         [Stop |-> "Draining", Recovered |-> "Enabled"]),
  MissingData      |-> State("IncompleteEvents", "",
                         [DataLoss |-> "MissingData", Recovered |-> Custom])]

(* ruProxy stands for what the EVM adds; an RU does nothing there. *)
RUEntry == [
  Halted           |-> <<<<"connections", "accepted">>>>,
  Configuring      |-> <<<<"spawn", "configure">>>>,
  Running          |-> <<<<"missingFeds", "reset">>, <<"connections", "refused">>,
                         <<"start", "input">>, <<"start", "buProxy">>,
                         <<"start", "ruProxy">>>>,
  Draining         |-> <<<<"spawn", "drain">>>>,
  SyncLoss         |-> <<<<"input", "blocked">>>>,
  IncompleteEvents |-> <<<<"timer", "start">>>>]

RUExit == [
  Failed           |-> <<<<"reason", "cleared">>>>,
  Configuring      |-> <<<<"forget", "configure">>>>,
  Running          |-> <<<<"stop", "input">>, <<"stop", "buProxy">>,
                         <<"stop", "ruProxy">>>>,
  Draining         |-> <<<<"forget", "drain">>>>,
  SyncLoss         |-> <<<<"reason", "cleared">>>>,
  IncompleteEvents |-> <<<<"timer", "interrupt">>, <<"reason", "cleared">>>>]

RUConfiguring == <<"input", "buProxy", "ruProxy">>
RUDraining == <<"input", "connections", "buProxy", "ruProxy">>

-----------------------------------------------------------------------------
(* The emulator of a FEROL *)

FEROLOuter == [
  Outermost   |-> State("", "AllOk", Ignores),
  Failed      |-> State("Outermost", "", [Fail |-> "Failed"]),
  AllOk       |-> State("Outermost", "Halted", [Fail |-> "Failed"]),
  Halted      |-> State("AllOk", "", [Configure |-> "Active"]),
  Active      |-> State("AllOk", "Configuring", [Halt |-> "Halted"])]

FEROLRun == [
  Configuring |-> State("Active", "", [ConfigureDone |-> "Ready"]),
  Ready       |-> State("Active", "", [Enable |-> "Enabled"]),
  Running     |-> State("Active", "Enabled", Ignores),
  Enabled     |-> State("Running", "", [Stop |-> "Draining"]),
  Draining    |-> State("Running", "", [DrainingDone |-> "Ready"])]

FEROLEntry == [
  Configuring |-> <<<<"spawn", "configure">>>>,
  Running     |-> <<<<"start", "generator">>>>,
  Draining    |-> <<<<"spawn", "drain">>>>]

(* join() comes after detach() and returns at once. *)
FEROLExit == [
  Configuring |-> <<<<"forget", "configure">>>>,
  Active      |-> <<<<"connection", "close">>>>,
  Running     |-> <<<<"stop", "generator">>>>,
  Draining    |-> <<<<"forget", "drain">>>>]

FEROLConfiguring == <<"generator">>
FEROLDraining == <<"generator">>

-----------------------------------------------------------------------------
(* All applications *)

States == [BU    |-> BUOuter @@ BURun @@ BUProcessing,
           RU    |-> RUOuter @@ RURun @@ RUErrors,
           FEROL |-> FEROLOuter @@ FEROLRun]
Entry == [BU |-> BUEntry, RU |-> RUEntry, FEROL |-> FEROLEntry]
Exit == [BU |-> BUExit, RU |-> RUExit, FEROL |-> FEROLExit]
Work == [BU    |-> [configure |-> BUConfiguring, drain |-> BUDraining],
         RU    |-> [configure |-> RUConfiguring, drain |-> RUDraining],
         FEROL |-> [configure |-> FEROLConfiguring, drain |-> FEROLDraining]]

Apps == DOMAIN States
Components == [a \in Apps |-> {c[2] : c \in {d \in ToSet(Entry[a]["Running"]) : d[1] = "start"}}]
Leaves(a) == {s \in DOMAIN States[a] : States[a][s].initial = ""}
Events == UNION {UNION {DOMAIN States[a][s].on : s \in DOMAIN States[a]} : a \in Apps}

(* A state with the states around it, the outermost first. *)
Chains == [a \in Apps |->
  LET chain[s \in DOMAIN States[a]] ==
        IF States[a][s].within = "" THEN <<s>>
        ELSE Append(chain[States[a][s].within], s)
  IN  [s \in DOMAIN States[a] |-> chain[s]]]

Within(a, leaf, s) == Contains(Chains[a][leaf], s)

(* Mutant of InnermostInitial: inner states are not entered. *)
InnermostInitialShallow(a, s, h) == s

(* Where entering a state ends up, h being the leaf Processing was left in. *)
InnermostInitial(a, s, h) ==
  LET into[t \in DOMAIN States[a]] ==
        LET i == States[a][t].initial
        IN  CASE i = "" -> t [] i = History -> h [] OTHER -> into[i]
  IN  into[s]

(* The innermost state that reacts to an event, if any, reacts. *)
Reacting(a, leaf, e) ==
  {s \in ToSet(Chains[a][leaf]) :
     /\ e \in DOMAIN States[a][s].on
     /\ \A t \in ToSet(Chains[a][leaf]) :
          e \in DOMAIN States[a][t].on => Within(a, s, t)}

(* How many states enclose both the source and the target of a transition. *)
CommonContexts(a, s, t) ==
  Cardinality(ToSet(Front(Chains[a][s])) \cap ToSet(Front(Chains[a][t])))

Exited(a, leaf, s, t) ==
  Reverse(SubSeq(Chains[a][leaf], CommonContexts(a, s, t) + 1, Len(Chains[a][leaf])))
Entered(a, leaf, s, t) ==
  SubSeq(Chains[a][leaf], CommonContexts(a, s, t) + 1, Len(Chains[a][leaf]))

(* The actions of the states on the way that have one. *)
Actions(table, states) ==
  LET own == SelectSeq(states, LAMBDA s : s \in DOMAIN table)
  IN  [i \in DOMAIN own |-> table[own[i]]]
============================================================================
